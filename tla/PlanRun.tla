------------------------------ MODULE PlanRun -------------------------------
(***************************************************************************)
(* A plan: its document as load_plan (workflows/plans/loader.py) accepts   *)
(* it, and its execution by WorkflowExecutor (core/execution/executor.py), *)
(* which opens the sessions its steps name as they are needed and runs     *)
(* every action through the policy twice: before the session is opened,    *)
(* and inside it (PolicyEnforcedSession, managed_session.py).              *)
(*                                                                         *)
(* A direct call is executed in the same way, as the only step of a plan,  *)
(* except that its errors, and those of its close, go to the caller.       *)
(***************************************************************************)
EXTENDS Policy, FiniteSets

CONSTANTS Documents,     \* the plan documents users write
          Handles,       \* names of sessions
          Labels,        \* labels of steps
          NoName,        \* a key that is not there
          Cwd,           \* the working directory
          Interrupts     \* Ctrl-C may come, at any point

\* A step may name too much or too little; a direct call is one step.
Named(d) == /\ IsSequence(d.steps)
            /\ \A k \in DOMAIN d.steps :
                 {d.steps[k].session, d.steps[k].adapter} \subseteq Handles \cup {NoName}
            /\ d.direct => Len(d.steps) = 1 /\ d.steps[1].session # NoName

\* A parameter is a value or a reference, with text after it.
ExpressionFormed(x) ==
  /\ IsSequence(x.tail)
  /\ \/ x.root = "value" /\ Formed(x.value)
     \/ x.root = "steps" /\ x.field \in {"ok", "error", "file"}
     \/ x.root = "sessions" /\ x.field = "workspace"

DocumentFormed(d) ==
  /\ \A h \in DOMAIN d.sessions : SessionFormed(d.sessions[h])
  /\ \A k \in DOMAIN d.steps : \A n \in DOMAIN d.steps[k].params :
       ExpressionFormed(d.steps[k].params[n])

ASSUME NameAssumption == NoName \notin Handles \cup Labels
ASSUME CwdAssumption == IsProperPath(Cwd)
ASSUME DocumentsAssumption == \A d \in Documents : Named(d) /\ DocumentFormed(d)

VARIABLES document,  \* what the user handed in
          plan,      \* the plan made of it
          pc,        \* where the executor is
          current,   \* the step in hand
          sessions,  \* the handles of the sessions opened, in order
          product,   \* what each handle's product is doing
          prepared,  \* the parameters the first check let through
          results,   \* the result of each step so far
          labelled,  \* the steps whose results can be referred to
          going,     \* keep_going
          raised,    \* an exception is on its way to the caller
          done,      \* the calls the products carried out, in order
          interrupted  \* where the executor was when Ctrl-C came (history)
work == <<document, plan, pc, current, sessions, product, prepared, results, labelled,
          going, raised, done>>
vars == <<work, interrupted>>

-----------------------------------------------------------------------------
(***************************************************************************)
(* load_plan.  A document has its sessions under "sessions" or, as before, *)
(* under "adapters", where the name of a session is its default adapter;   *)
(* a step names its session under "session" or under "adapter".            *)
(***************************************************************************)
SessionOk(d, h) == d.key = "sessions" => d.sessions[h].adapter # NoName

StepOk(step) == /\ (step.session = NoName) # (step.adapter = NoName)
                /\ step.action # NoName

LabelOf(d, k) == d.steps[k].label

\* Mutant of LabelsDistinct: the duplicates are not looked for.
LabelsWhatever(d) == TRUE

LabelsDistinct(d) ==
  \A j, k \in DOMAIN d.steps : LabelOf(d, j) = LabelOf(d, k) /\ LabelOf(d, j) # NoName => j = k

PlanOk(d) == /\ d.steps # <<>>
             /\ d.key # "both"
             /\ \A h \in DOMAIN d.sessions : SessionOk(d, h)
             /\ \A k \in DOMAIN d.steps : StepOk(d.steps[k])
             /\ LabelsDistinct(d)

LoadSession(d, h) ==
  IF d.sessions[h].adapter = NoName THEN [d.sessions[h] EXCEPT !.adapter = h] ELSE d.sessions[h]

LoadStep(step) ==
  [session |-> IF step.session # NoName THEN step.session ELSE step.adapter,
   action |-> step.action, params |-> step.params, label |-> step.label, goOn |-> step.goOn]

LoadPlan(d) == [sessions |-> [h \in DOMAIN d.sessions |-> LoadSession(d, h)],
                steps |-> [k \in DOMAIN d.steps |-> LoadStep(d.steps[k])],
                goOn |-> d.goOn,
                direct |-> d.direct]

EmptyPlan == [sessions |-> <<>>, steps |-> <<>>, goOn |-> FALSE, direct |-> FALSE]

-----------------------------------------------------------------------------
Init == /\ document \in Documents
        /\ plan = EmptyPlan
        /\ pc = "load"
        /\ current = 0
        /\ sessions = <<>>
        /\ product = [h \in Handles |-> "none"]
        /\ prepared = <<>>
        /\ results = <<>>
        /\ labelled = {}
        /\ going = TRUE /\ raised = FALSE
        /\ done = <<>>
        /\ interrupted = {}

Load == /\ pc = "load"
        /\ IF document.direct \/ PlanOk(document)
           THEN plan' = LoadPlan(document) /\ pc' = "next" /\ UNCHANGED raised
           ELSE pc' = "over" /\ raised' = TRUE /\ UNCHANGED plan
        /\ UNCHANGED <<document, current, sessions, product, prepared, results, labelled, going,
                       done, interrupted>>

Step(k) == plan.steps[k]

\* A session the plan does not describe: its handle is its adapter.
Default(h) == [adapter |-> h, profile |-> "safe", raw |-> FALSE, roots |-> {}, cwd |-> Cwd]
Config(h) == IF h \in DOMAIN plan.sessions THEN plan.sessions[h] ELSE Default(h)

(***************************************************************************)
(* References.  A parameter is a value, or an expression                   *)
(* ${steps.<label>.<field>} or ${sessions.<handle>.<field>} with text      *)
(* after it; "file" is the file name in the data of a step's result.       *)
(***************************************************************************)
\* A label stands for the last step that bore it.
Source(label) == CHOOSE k \in labelled :
  Step(k).label = label /\ \A j \in labelled : Step(j).label = label => j <= k

HasFile(k) == results[k].ok /\ "file_name" \in DOMAIN results[k].params

Resolves(x) ==
  CASE x.root = "value"    -> TRUE
    [] x.root = "steps"    -> /\ \E k \in labelled : Step(k).label = x.key
                              /\ x.field = "file" => HasFile(Source(x.key))
    [] x.root = "sessions" -> x.key \in DOMAIN plan.sessions

Referred(x) ==
  IF x.root = "value" THEN x.value
  ELSE CASE x.field = "ok"        -> Truth(results[Source(x.key)].ok)
         [] x.field = "error"     -> IF results[Source(x.key)].ok THEN None ELSE Word("error")
         [] x.field = "file"      -> results[Source(x.key)].params.file_name
         [] x.field = "workspace" -> Absolute(plan.sessions[x.key].cwd)

\* A reference with text around it becomes text itself.
Filled(x) == LET v == Referred(x)
             IN CASE x.tail = <<>> -> v
                  [] x.tail # <<>> /\ v.t = "str" -> [v EXCEPT !.parts = @ \o x.tail]
                  [] OTHER -> Text(<<"text">> \o x.tail)

AllResolve(params) == \A n \in DOMAIN params : Resolves(params[n])
Params(params) == [n \in DOMAIN params |-> Filled(params[n])]

FirstCheck(k) == PrepareAction(Step(k).action, Params(Step(k).params), Config(Step(k).session))

\* Everything _run_step does before it needs the session succeeds.
Ready(k) == AllResolve(Step(k).params) /\ FirstCheck(k).ok

-----------------------------------------------------------------------------
\* Mutant of Stops: the step's own continue_on_error alone decides.
StopsUnlessStep(k, ok) == ~ok /\ ~Step(k).goOn

\* A failed step ends the plan unless it, or the plan, says to go on.
Stops(k, ok) == ~ok /\ ~plan.goOn /\ ~Step(k).goOn

\* The result of step k is recorded, whether it succeeded or failed.
Record(k, ok, params) ==
  /\ results' = Append(results, [ok |-> ok, params |-> params])
  /\ labelled' = IF Step(k).label = NoName THEN labelled ELSE labelled \cup {k}
  /\ going' = (going /\ ~Stops(k, ok))
  /\ raised' = (plan.direct /\ ~ok)
  /\ pc' = "next"

Fail(k) == Record(k, FALSE, <<>>)

Opened(h) == \E n \in DOMAIN sessions : sessions[n] = h

StepBegins == /\ pc = "next"
              /\ going /\ current < Len(plan.steps)
              /\ current' = current + 1

\* The step resolves and is checked; its session may have to be opened.
Begin == /\ StepBegins
         /\ Ready(current + 1)
         /\ prepared' = FirstCheck(current + 1).params
         /\ pc' = IF Opened(Step(current + 1).session) THEN "execute" ELSE "open"
         /\ UNCHANGED <<document, plan, sessions, product, results, labelled, going, raised,
                        done, interrupted>>

\* A reference that resolves to nothing, or a refused action: nothing is opened.
Refuse == /\ StepBegins
          /\ ~Ready(current + 1)
          /\ Fail(current + 1)
          /\ UNCHANGED <<document, plan, sessions, product, prepared, done, interrupted>>

Handle == Step(current).session

Open == /\ pc = "open"
        /\ product' = [product EXCEPT ![Handle] = "live"]
        /\ sessions' = Append(sessions, Handle)
        /\ pc' = "execute"
        /\ UNCHANGED <<document, plan, current, prepared, results, labelled, going, raised,
                       done, interrupted>>

\* The launch fails; a later step may try again.
OpenFails == /\ pc = "open"
             /\ Fail(current)
             /\ UNCHANGED <<document, plan, current, sessions, product, prepared, done,
                            interrupted>>

(***************************************************************************)
(* The session checks again, with its own context: the roots it was opened *)
(* with are absolute by now, and so are the paths among the parameters.    *)
(***************************************************************************)
Context == LET c == Config(Handle)
           IN [c EXCEPT !.roots = {Absolute(r) : r \in AllowedRoots(c.roots, c.cwd)}]

SecondCheck == PrepareAction(Step(current).action, prepared, Context)

Carrying == [step |-> current, params |-> SecondCheck.params]

\* A raw action is written to the audit file, and an error of that is ignored;
\* then the product carries the action out.
Execute == /\ pc = "execute"
           /\ SecondCheck.ok
           /\ done' = Append(done, Carrying)
           /\ Record(current, TRUE, SecondCheck.params)
           /\ UNCHANGED <<document, plan, current, sessions, product, prepared, interrupted>>

\* The second check refuses, or the product fails.
ExecuteFails == /\ pc = "execute"
                /\ Fail(current)
                /\ UNCHANGED <<document, plan, current, sessions, product, prepared, done,
                               interrupted>>

-----------------------------------------------------------------------------
NoMoreSteps == /\ pc = "next"
               /\ ~going \/ current = Len(plan.steps)
               /\ pc' = "close"
               /\ UNCHANGED <<document, plan, current, sessions, product, prepared, results,
                              labelled, going, raised, done, interrupted>>

Unclosed == {n \in DOMAIN sessions : product[sessions[n]] = "live"}
Earliest(S) == CHOOSE n \in S : \A m \in S : n <= m

CloseTo(state) == /\ pc = "close"
                  /\ Unclosed # {}
                  /\ product' = [product EXCEPT ![sessions[Earliest(Unclosed)]] = state]

\* The sessions are closed in the order in which they were opened.
Close == /\ CloseTo("closed")
         /\ UNCHANGED <<document, plan, pc, current, sessions, prepared, results, labelled,
                        going, raised, done, interrupted>>

\* Mutant of CloseFails: the first error ends the loop.
CloseFailsOnce == /\ CloseTo("stuck")
                  /\ pc' = "over"
                  /\ UNCHANGED <<document, plan, current, sessions, prepared, results, labelled,
                                 going, raised, done, interrupted>>

\* A close that raises does not keep the next one from being made; only a direct
\* call hands the error on.
CloseFails == /\ CloseTo("stuck")
              /\ raised' = (raised \/ plan.direct)
              /\ UNCHANGED <<document, plan, pc, current, sessions, prepared, results, labelled,
                             going, done, interrupted>>

Finish == /\ pc = "close"
          /\ Unclosed = {}
          /\ pc' = "over"
          /\ UNCHANGED <<document, plan, current, sessions, product, prepared, results, labelled,
                         going, raised, done, interrupted>>

-----------------------------------------------------------------------------
(***************************************************************************)
(* Ctrl-C.  A KeyboardInterrupt is no Exception: a step does not turn it   *)
(* into a result, and the loop over the closes does not go on after it.    *)
(***************************************************************************)
Interrupted(place, next) ==
  /\ Interrupts
  /\ pc = place /\ pc' = next
  /\ raised' = TRUE
  /\ interrupted' = interrupted \cup {place}
  /\ UNCHANGED <<document, plan, current, sessions, prepared, results, labelled, going>>

\* While the document is read, or the call's arguments are: there is nothing to close.
InterruptLoad == Interrupted("load", "over") /\ UNCHANGED <<product, done>>

\* Between two steps, while a step is prepared, or after the last one.
InterruptNext == Interrupted("next", "close") /\ UNCHANGED <<product, done>>

\* During a launch, or after it and before the session is recorded.
InterruptOpen == /\ Interrupted("open", "close")
                 /\ product' \in {product, [product EXCEPT ![Handle] = "live"]}
                 /\ UNCHANGED done

\* Before the product has carried the action out, or after it.
InterruptExecute == /\ Interrupted("execute", "close")
                    /\ \/ UNCHANGED done
                       \/ SecondCheck.ok /\ done' = Append(done, Carrying)
                    /\ UNCHANGED product

\* Before, during or after a close, or after them all: no other is made.
InterruptClose == /\ Interrupted("close", "over")
                  /\ UNCHANGED product \/ CloseTo("closed") \/ CloseTo("stuck")
                  /\ UNCHANGED done

\* When the executor has returned or raised: the rest is its caller's.
InterruptAnswer == /\ Interrupts
                   /\ pc = "over"
                   /\ interrupted' = interrupted \cup {"over"}
                   /\ UNCHANGED work

Interrupt == \/ InterruptLoad \/ InterruptNext \/ InterruptOpen \/ InterruptExecute
             \/ InterruptClose \/ InterruptAnswer

Next == \/ Load \/ Begin \/ Refuse
        \/ Open \/ OpenFails
        \/ Execute \/ ExecuteFails
        \/ NoMoreSteps \/ Close \/ CloseFails \/ Finish
        \/ Interrupt

Spec == Init /\ [][Next]_vars

-----------------------------------------------------------------------------
Places == {"load", "next", "open", "execute", "close", "over"}

\* The variables stay in their ranges.
TypeOK == /\ plan \in {EmptyPlan, LoadPlan(document)}
          /\ pc \in Places
          /\ current \in 0 .. Len(plan.steps)
          /\ sessions \in Seq(Handles)
          /\ product \in [Handles -> {"none", "live", "closed", "stuck"}]
          /\ Len(results) <= current
          /\ interrupted \subseteq Places
          /\ labelled \subseteq 1 .. current
          /\ going \in BOOLEAN /\ raised \in BOOLEAN

AllSucceeded == \A k \in DOMAIN results : results[k].ok

\* A plan that ends well was carried out completely: the summary says "ok" only
\* if the products did every step, once and in the plan's order.
OkMeansAll ==
  pc = "over" /\ ~raised /\ AllSucceeded =>
    /\ Len(done) = Len(plan.steps)
    /\ \A n \in DOMAIN done : done[n].step = n

MayGoOn(k) == results[k].ok \/ plan.goOn \/ Step(k).goOn

\* A plan stops at the first failure that nobody said to go on after, and at no
\* other.
StopsWhereItShould ==
  /\ \A k \in DOMAIN results : k < current => MayGoOn(k)
  /\ pc = "over" /\ ~raised /\ Len(results) < Len(plan.steps) => ~MayGoOn(Len(results))

\* Whatever fails, is refused or is interrupted in between, every session that was
\* recorded is closed in the end, or its close was tried.  Only Ctrl-C leaves a product
\* running: during a launch the one that was being launched, and during the closes
\* those whose turn had not come.
NothingLeftOpen ==
  pc = "over" => \A h \in Handles : product[h] = "live" =>
    \/ "close" \in interrupted
    \/ "open" \in interrupted /\ h = Handle /\ ~Opened(h)

\* What an action got by reference came from the one earlier step of that label,
\* and from a file only if that step had succeeded.
ReferencesHold ==
  \A n \in DOMAIN done : LET k == done[n].step IN
    \A p \in DOMAIN Step(k).params : LET x == Step(k).params[p] IN
      x.root = "steps" =>
        /\ Cardinality({j \in DOMAIN plan.steps : Step(j).label = x.key}) = 1
        /\ \E j \in 1 .. k - 1 : /\ Step(j).label = x.key
                                  /\ x.field = "file" => results[j].ok

\* The second check never overrules the first nor changes what it let through.
ChecksAgree == pc = "execute" => SecondCheck = Accepted(prepared)

IsProper(parts, h) ==
  /\ \A n \in DOMAIN parts : parts[n] \notin {".", ".."}
  /\ \E root \in AllowedRoots(Config(h).roots, Config(h).cwd) : IsPrefix(root, parts)

\* Products carry out raw actions only in expert sessions that opted in, and get
\* only files that lie under a root of the session.
PolicyKept ==
  \A n \in DOMAIN done : LET step == Step(done[n].step) IN
    /\ step.action \in RawActions =>
         Config(step.session).profile = "expert" /\ Config(step.session).raw
    /\ "file_name" \in DOMAIN done[n].params =>
         IsProper(done[n].params.file_name.parts, step.session)
    /\ "images" \in DOMAIN done[n].params =>
         \A k \in DOMAIN done[n].params.images.items :
           IsProper(done[n].params.images.items[k].fields.file_name.parts, step.session)
=============================================================================
