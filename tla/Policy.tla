------------------------------- MODULE Policy -------------------------------
(***************************************************************************)
(* What every action passes before it reaches a product: prepare_action    *)
(* and the path policy (core/policy), over the action tables of the        *)
(* adapters (products/*/actions.py) and their validators.                  *)
(*                                                                         *)
(* A parameter is a value with its Python type.  Text is a sequence of     *)
(* names, which is what a path is cut into: "/a/../b" is [abs |-> TRUE,    *)
(* parts |-> <<"a", "..", "b">>], "hybrid" is the relative <<"hybrid">>    *)
(* and a dotted settings path has its names as parts.                      *)
(***************************************************************************)
EXTENDS Integers, Sequences, SequencesExt, TLC

Text(parts) == [t |-> "str", abs |-> FALSE, parts |-> parts]
Absolute(parts) == [t |-> "str", abs |-> TRUE, parts |-> parts]
Word(name) == Text(<<name>>)
Whole(n) == [t |-> "int", n |-> n]
Number(n) == [t |-> "float", n |-> n]
None == [t |-> "none"]
Truth(b) == [t |-> "bool", b |-> b]
List(items) == [t |-> "list", items |-> items]
Dict(fields) == [t |-> "dict", fields |-> fields]

IsSequence(s) == s \in Seq({s[k] : k \in DOMAIN s})

IsNonEmptyList(v) == v.t = "list" /\ v.items # <<>>
Blank(v) == v.t = "str" /\ ~v.abs /\ v.parts = <<>>
IsName(v) == v.t = "str" /\ ~Blank(v)
IsPositive(v, types) == v.t \in types /\ v.n > 0
IsNumber(v, n) == v.t \in {"int", "float"} /\ v.n = n
\* A text has its names in a sequence, and so has a text in an object in a list.
TextFormed(v) == v.t = "str" => DOMAIN v = {"t", "abs", "parts"} /\ IsSequence(v.parts)
Formed(v) == /\ TextFormed(v)
             /\ v.t = "list" => /\ IsSequence(v.items)
                                /\ \A k \in DOMAIN v.items : v.items[k].t = "dict" =>
                                     \A n \in DOMAIN v.items[k].fields : TextFormed(v.items[k].fields[n])

\* f, and g where f has nothing: TLC's @@, spelled out for the proofs.
Over(f, g) == [n \in DOMAIN f \cup DOMAIN g |-> IF n \in DOMAIN f THEN f[n] ELSE g[n]]

Field(fields, name, default) == IF name \in DOMAIN fields THEN fields[name] ELSE default

-----------------------------------------------------------------------------
(***************************************************************************)
(* Paths.  Path.resolve takes ".." away; symbolic links and the case of    *)
(* letters are left out.                                                   *)
(***************************************************************************)
\* Mutant of Enter: ".." is taken for a name like any other.
EnterLiterally(place, name) == Append(place, name)

Enter(place, name) ==
  CASE name = "."  -> place
    [] name = ".." -> IF place = <<>> THEN place ELSE Front(place)
    [] OTHER       -> Append(place, name)

Resolve(parts) ==
  LET place[k \in 0 .. Len(parts)] == IF k = 0 THEN <<>> ELSE Enter(place[k - 1], parts[k])
  IN place[Len(parts)]

\* A path with nothing left to resolve.
IsProperPath(parts) == IsSequence(parts) /\ \A k \in DOMAIN parts : parts[k] \notin {".", ".."}

NormalizePath(v, cwd) == Resolve(IF v.abs THEN v.parts ELSE cwd \o v.parts)

\* The workspace, its outputs, and what the session was given besides.
AllowedRoots(extras, cwd) ==
  {cwd, Append(cwd, "outputs")} \cup {NormalizePath(x, cwd) : x \in extras}

\* What a session is given; its working directory is resolved where it is read.
SessionFormed(c) ==
  /\ DOMAIN c = {"adapter", "profile", "raw", "roots", "cwd"}
  /\ IsProperPath(c.cwd)
  /\ \A r \in c.roots : IsSequence(r.parts)

\* The root's text and a separator begin the path's text; the text of the root
\* of a file system ends in a separator already, so nothing is below it.
Within(path, root) == path = root \/ (root # <<>> /\ IsStrictPrefix(root, path))

Inside(path, s) == \E root \in AllowedRoots(s.roots, s.cwd) : Within(path, root)

PathOk(v, s) == v.t = "str" /\ Inside(NormalizePath(v, s.cwd), s)
NormalizePathValue(v, s) == Absolute(NormalizePath(v, s.cwd))

-----------------------------------------------------------------------------
(***************************************************************************)
(* The action tables: kinds of parameters, and who may use an action.      *)
(***************************************************************************)
Needed(kind) == [kind |-> kind, required |-> TRUE, repeated |-> FALSE]
Optional(kind) == [kind |-> kind, required |-> FALSE, repeated |-> FALSE]
Several(kind) == [kind |-> kind, required |-> FALSE, repeated |-> TRUE]

FileActions == {"read_case", "read_case_data", "read_mesh", "write_case", "write_case_data",
                "write_data", "start_transcript", "checkpoint_case_data"}
PlainActions == {"version", "stop_transcript", "hybrid_initialize", "get_solver_health"}
RawActions == {"scheme", "tui", "command", "python", "script"}

\* What scheme and tui have in common.
RawCommands == [command |-> Optional("string"), commands |-> Several("string"),
                wait |-> Optional("boolean"), silent |-> Optional("boolean")]

OtherParameters ==
  [set_state |-> [path |-> Optional("string"), state |-> Needed("any")],
   initialize_solution |-> [method |-> Optional("string")],
   run_iterations |-> [count |-> Needed("integer")],
   run_time_steps |-> [step_count |-> Needed("integer"),
                       max_iterations_per_step |-> Needed("integer"),
                       time_step_size |-> Optional("number")],
   collect_reports |-> [reports |-> Needed("array")],
   export_results |-> [images |-> Needed("array")],
   scheme |-> Over([mode |-> Optional("string"), suppress_prompts |-> Optional("boolean")],
                  RawCommands),
   tui |-> RawCommands,
   command |-> [path |-> Needed("string"), args |-> Optional("array"),
                kwargs |-> Optional("object")],
   describe |-> [path |-> Optional("string")],
   get_state |-> [path |-> Optional("string"), with_units |-> Optional("boolean")],
   iterate |-> [iter_count |-> Optional("integer"), count |-> Optional("integer"),
                number_of_iterations |-> Optional("integer")],
   python |-> [script |-> Needed("string")],
   script |-> [script |-> Needed("string"), args |-> Optional("any"),
               log_level |-> Optional("string")]]

Parameters ==
  Over([a \in FileActions |-> [file_name |-> Needed("path")]],
       Over([a \in PlainActions |-> <<>>], OtherParameters))

Actions == [workbench |-> {"version", "script"},
            mechanical |-> {"version", "python"},
            fluent |-> DOMAIN Parameters \ {"script", "python"}]

Types == [string |-> {"str"}, path |-> {"str"}, integer |-> {"int"}, number |-> {"int", "float"},
          boolean |-> {"bool"}, object |-> {"dict"}, array |-> {"list"},
          any |-> {"str", "int", "float", "bool", "none", "list", "dict"}]

FieldOk(spec, v, s) ==
  IF spec.repeated
  THEN v.t = "list" /\ \A k \in DOMAIN v.items : v.items[k].t \in Types[spec.kind]
  ELSE v.t \in Types[spec.kind] /\ (spec.kind = "path" => PathOk(v, s))

FieldValue(spec, v, s) == IF spec.kind = "path" THEN NormalizePathValue(v, s) ELSE v

-----------------------------------------------------------------------------
(***************************************************************************)
(* The validators an action definition names (products/fluent/validation): *)
(* what they demand, and what they make of the parameters.                 *)
(***************************************************************************)
ReportOk(report) ==
  /\ report.t = "dict"
  /\ LET name == Field(report.fields, "name", None)
         command == Field(report.fields, "command_path", None)
     IN /\ IsName(name)
        /\ command.t = "str" /\ ~command.abs
        /\ IsStrictPrefix(<<"results", "report">>, command.parts)
        /\ Field(report.fields, "args", List(<<>>)).t = "list"
        /\ Field(report.fields, "kwargs", Dict(<<>>)).t = "dict"

ObjectName(contour, name) ==
  Field(contour.fields, "object_name", Text(Append(name.parts, "_contour")))

ContourOk(contour, name) == /\ contour.t = "dict"
                            /\ IsName(ObjectName(contour, name))
                            /\ Field(contour.fields, "state", Dict(<<>>)).t = "dict"

ImageOk(image, s) ==
  /\ image.t = "dict"
  /\ LET name == Field(image.fields, "name", None)
         file == Field(image.fields, "file_name", None)
     IN /\ IsName(name)
        /\ IsName(file) /\ PathOk(file, s)
        /\ Field(image.fields, "kind", Word("picture")) \in {Word("picture"), Word("contour")}
        /\ Field(image.fields, "picture_state", Dict(<<>>)).t = "dict"
        /\ "contour" \in DOMAIN image.fields => ContourOk(image.fields.contour, name)

CommandsOk(p) == \/ "commands" \notin DOMAIN p /\ Field(p, "command", None).t = "str"
                 \/ IsNonEmptyList(Field(p, "commands", None))

\* Demands(a, p, s): the validator of a does not raise.
Demands(a, p, s) ==
  CASE a = "initialize_solution" ->
         Field(p, "method", Word("hybrid")) \in {Word("hybrid"), Word("standard")}
    [] a \in {"iterate", "run_iterations"} -> \A n \in DOMAIN p : IsPositive(p[n], {"int"})
    [] a = "run_time_steps" ->
         /\ IsPositive(p.step_count, {"int"}) /\ IsPositive(p.max_iterations_per_step, {"int"})
         /\ "time_step_size" \in DOMAIN p => IsPositive(p.time_step_size, {"int", "float"})
    [] a = "collect_reports" ->
         IsNonEmptyList(p.reports) /\ \A k \in DOMAIN p.reports.items : ReportOk(p.reports.items[k])
    [] a = "export_results" ->
         IsNonEmptyList(p.images) /\ \A k \in DOMAIN p.images.items : ImageOk(p.images.items[k], s)
    [] a = "checkpoint_case_data" -> IsName(p.file_name)
    [] a = "scheme" -> IF Field(p, "mode", Word("eval")) = Word("exec") THEN CommandsOk(p)
                       ELSE IsName(Field(p, "command", None))
    [] a = "tui" -> CommandsOk(p)
    [] a = "command" -> IsName(p.path)
    [] OTHER -> TRUE

\* An image, as the validator and load_spec leave it.
WithDefaults(image) ==
  LET whole == Over(image, [kind |-> Word("picture"), picture_state |-> Dict(<<>>)])
  IN IF "contour" \notin DOMAIN whole THEN whole
     ELSE [whole EXCEPT !.contour =
             Dict([object_name |-> ObjectName(@, image.name),
                   state |-> Field(@.fields, "state", Dict(<<>>))])]

ImagesInside(images, s) ==
  List([k \in DOMAIN images.items |->
          Dict([WithDefaults(images.items[k].fields)
                  EXCEPT !.file_name = NormalizePathValue(@, s)])])

\* A single command becomes a list of one.
CommandList(p) ==
  IF "commands" \in DOMAIN p THEN p
  ELSE [n \in (DOMAIN p \ {"command"}) \cup {"commands"} |->
          IF n = "commands" THEN List(<<p.command>>) ELSE p[n]]

\* Mutant of Rewritten: the single command is wrapped again every time.
RewrittenAgain(a, p, s) ==
  IF a = "tui" THEN [commands |-> List(<<Field(p, "command", Field(p, "commands", None))>>)] ELSE p

Rewritten(a, p, s) ==
  CASE a = "initialize_solution" -> [method |-> Field(p, "method", Word("hybrid"))]
    [] a = "export_results" -> [p EXCEPT !.images = ImagesInside(@, s)]
    [] a = "tui" -> CommandList(p)
    [] a = "scheme" /\ Field(p, "mode", None) = Word("exec") -> CommandList(p)
    [] OTHER -> p

-----------------------------------------------------------------------------
\* normalize_profile raises for any other profile.
Profiles == {"safe", "expert"}

Refused == [ok |-> FALSE]
Accepted(p) == [ok |-> TRUE, params |-> p]

(***************************************************************************)
(* s is the context: the session's adapter and profile, whether it opted   *)
(* in to raw actions, its workspace and the roots it was given.            *)
(***************************************************************************)
Entitled(a, s) == /\ s.profile \in Profiles
                  /\ s.adapter \in DOMAIN Actions /\ a \in Actions[s.adapter]
                  /\ s.profile = "safe" => a \notin RawActions
                  /\ a \in RawActions => s.raw

FieldsOk(a, p, s) ==
  /\ DOMAIN p \subseteq DOMAIN Parameters[a]
  /\ \A n \in DOMAIN Parameters[a] :
       IF n \in DOMAIN p THEN FieldOk(Parameters[a][n], p[n], s) ELSE ~Parameters[a][n].required

FieldValues(a, p, s) == [n \in DOMAIN p |-> FieldValue(Parameters[a][n], p[n], s)]

PrepareAction(a, p, s) ==
  IF /\ Entitled(a, s)
     /\ FieldsOk(a, p, s)
     /\ Demands(a, FieldValues(a, p, s), s)
  THEN Accepted(Rewritten(a, FieldValues(a, p, s), s))
  ELSE Refused
=============================================================================
