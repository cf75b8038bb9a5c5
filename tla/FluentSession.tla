---------------------------- MODULE FluentSession ----------------------------
(***************************************************************************)
(* What a Fluent session makes of an action (products/fluent/session.py):  *)
(* requests to the product's API, one after the other, any of which may    *)
(* raise and leave the rest undone.  A session has one caller at a time    *)
(* (SessionStore, or the one worker of a run).                             *)
(***************************************************************************)
EXTENDS Policy

CONSTANTS Unquotable,  \* names that cannot stand between [" and "] in a settings path
          Escaped      \* what YAML makes of the names it does not read as they are written

VARIABLES requests,  \* what the call in hand still asks of the product
          solver,    \* the product, as far as calls change what later ones give
          fault      \* the product raised of its own accord (history)
productVars == <<requests, solver, fault>>

SessionInit == /\ requests = <<>>
               /\ solver = [steps |-> 0,        \* iterations or time steps done
                            size |-> None,      \* of a time step
                            contours |-> <<>>,  \* the state of each contour object
                            shown |-> None,     \* a contour, in the state it was displayed in
                            look |-> <<>>,      \* the state of the picture
                            pictures |-> <<>>,  \* what each saved file shows
                            data |-> <<>>]      \* how much was done when each file was written
               /\ fault = FALSE

-----------------------------------------------------------------------------
(* The requests of each action.                                            *)

Request(op, with) == [op |-> op, with |-> with, tried |-> FALSE]

\* Its exception is swallowed.
Tried(op, with) == [Request(op, with) EXCEPT !.tried = TRUE]

Given(fields, op, with) == IF fields = <<>> THEN <<>> ELSE <<Request(op, with)>>

\* Mutant of ContourRequests: the contour is shown before it gets its state.
ContourRequestsEarly(c) ==
  <<Tried("create", c.object_name), Request("find", c.object_name),
    Request("display", c.object_name)>> \o Given(c.state.fields, "set_contour", c)

ContourRequests(c) ==
  <<Tried("create", c.object_name), Request("find", c.object_name)>> \o
  Given(c.state.fields, "set_contour", c) \o <<Request("display", c.object_name)>>

ImageRequests(image) ==
  (IF "contour" \in DOMAIN image THEN ContourRequests(image.contour.fields) ELSE <<>>) \o
  Given(image.picture_state.fields, "set_picture", image.picture_state.fields) \o
  <<Request("save", image.file_name)>>

Requests(action, p) ==
  CASE action = "run_iterations" -> <<Request("solve", p.count.n)>>
    [] action = "run_time_steps" ->
         (IF "time_step_size" \in DOMAIN p THEN <<Request("set_size", p.time_step_size)>> ELSE <<>>)
         \o <<Request("solve", p.step_count.n)>>
    [] action = "collect_reports" ->
         [k \in DOMAIN p.reports.items |-> Request("report", p.reports.items[k].fields.name)]
    [] action = "export_results" ->
         FlattenSeq([k \in DOMAIN p.images.items |-> ImageRequests(p.images.items[k].fields)])
    [] action \in {"write_case", "write_case_data", "write_data", "checkpoint_case_data"} ->
         <<Request("write", p.file_name)>>
    [] action = "get_solver_health" -> <<Request("state", None), Tried("report", None)>>
    [] OTHER -> <<Request(action, p)>>

-----------------------------------------------------------------------------
(* The product.                                                            *)

NameIn(r) == IF r.op = "set_contour" THEN r.with.object_name ELSE r.with

Quotable(name) == \A k \in DOMAIN name.parts : name.parts[k] \notin Unquotable
Reads(part) == Field(Escaped, part, part)

\* The name that is read from the path: "/" has become ".", and what stands between
\* the quotes is YAML.
InPath(name) ==
  LET Add(text, part) == text \o (IF text \in {"", "."} THEN "" ELSE ".") \o Reads(part)
  IN Word(FoldLeft(Add, IF name.abs THEN "." ELSE "", name.parts))

\* The contour is found by what its name is in a path.
Found(name) == Quotable(name) /\ InPath(name) \in DOMAIN solver.contours

Possible(r) == /\ r.op \in {"find", "set_contour"} => Found(NameIn(r))
               /\ r.op = "display" => r.with \in DOMAIN solver.contours
               /\ r.op = "create" => r.with \notin DOMAIN solver.contours

\* set_state changes what was found.
Set(name, fields) == [solver.contours EXCEPT ![name] = Over(fields, @)]

Carried(r) ==
  CASE r.op = "solve" -> [solver EXCEPT !.steps = @ + r.with]
    [] r.op = "set_size" -> [solver EXCEPT !.size = r.with]
    [] r.op = "create" -> [solver EXCEPT !.contours = Over(@, [c \in {r.with} |-> <<>>])]
    [] r.op = "set_contour" ->
         [solver EXCEPT !.contours = Set(InPath(r.with.object_name), r.with.state.fields)]
    [] r.op = "display" ->
         [solver EXCEPT !.shown = [contour |-> r.with, state |-> solver.contours[r.with]]]
    [] r.op = "set_picture" -> [solver EXCEPT !.look = Over(r.with, @)]
    [] r.op = "save" ->
         [solver EXCEPT !.pictures =
            Over([f \in {r.with} |-> [of |-> solver.shown, look |-> solver.look]], @)]
    [] r.op = "write" -> [solver EXCEPT !.data = Over([f \in {r.with} |-> solver.steps], @)]
    [] OTHER -> solver

-----------------------------------------------------------------------------
\* execute: the action is cut into its requests.
Execute(action, params) == /\ requests = <<>>
                           /\ requests' = Requests(action, params)
                           /\ UNCHANGED <<solver, fault>>

\* The product does what it is asked next.
Carry == /\ requests # <<>>
         /\ Possible(Head(requests))
         /\ solver' = Carried(Head(requests))
         /\ requests' = Tail(requests)
         /\ UNCHANGED fault

\* It raises, and nobody minds: the contour is there already, or no summary is.
Swallow == /\ requests # <<>>
           /\ Head(requests).tried
           /\ fault' = (fault \/ Possible(Head(requests)))
           /\ requests' = Tail(requests)
           /\ UNCHANGED solver

\* It raises, and so does the call; what was done before stays done.
Raise == /\ requests # <<>>
         /\ ~Head(requests).tried
         /\ fault' = (fault \/ Possible(Head(requests)))
         /\ requests' = <<>>
         /\ UNCHANGED solver
=============================================================================
