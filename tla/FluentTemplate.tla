--------------------------- MODULE FluentTemplate ---------------------------
(***************************************************************************)
(* The Fluent workflow templates (workflows/templates/fluent.py): how a    *)
(* document becomes a spec (load_spec) or is refused, how the spec becomes *)
(* a program of operations (compile_program), and which calls the worker   *)
(* makes of it, each of which has to pass the policy (Policy) hours after  *)
(* the document was accepted, and is then carried out (FluentSession).     *)
(*                                                                         *)
(* A field that is not in the document is NoField; a JSON null is Null.    *)
(***************************************************************************)
EXTENDS FluentSession, FiniteSets

CONSTANTS Documents,  \* the documents users hand to start_workflow
          Workspace,  \* the workspace of the run
          OutputDir,  \* workspace/outputs/workflow-runs/<run id>
          Counting,   \* names in which "{completed_steps}" stands
          Indexed,    \* names in which, of the two, only "{chunk_index}" stands
          Braced      \* names with braces that str.format does not know

NoField == [t |-> "absent"]
Null == None

VARIABLES document,  \* what the user handed in
          status,    \* "submitted"; "refused", or "queued" with a spec
          spec,      \* the normalized document, spec.yaml
          ahead,     \* the calls the worker has yet to make
          made       \* the calls that were carried out, with the parameters the product got
workVars == <<document, status, spec, ahead, made>>
vars == <<workVars, productVars>>

IsNull(v) == v.t \in {"absent", "none"}
IsBool(v, b) == v = Truth(b)
Get(v, name) == Field(v.fields, name, NoField)

-----------------------------------------------------------------------------
(***************************************************************************)
(* load_spec: what is demanded of the document.                            *)
(***************************************************************************)
SourceKinds == [steady |-> {"mesh", "case", "case_data"}, reflow |-> {"mesh", "case"}]
Sections == [steady |-> [setup |-> {"models", "materials", "cell_zones", "boundary_conditions",
                                    "reference_values"}],
             reflow |-> [physics |-> {"energy", "multiphase", "phases", "surface_tension",
                                      "wall_adhesion", "melting"},
                         zones |-> {"materials", "boundary_conditions", "operating_conditions",
                                    "gravity", "patch"}]]

\* A document as YAML or JSON gives it: one of the two workflows, lists where lists
\* are looked through, whole numbers where there are integers.
DocumentFormed(d) ==
  /\ d.workflow \in DOMAIN SourceKinds
  /\ \A name \in DOMAIN d.sections :
       /\ IsSequence(d.sections[name])
       /\ \A k \in DOMAIN d.sections[name] : IsSequence(d.sections[name][k].paths)
  /\ \A v \in {d.solve.total, d.solve.chunk} : v.t = "int" => v.n \in Int
  /\ LET v == d.outputs.checkpoints
     IN /\ v.t = "bool" => v \in {Truth(TRUE), Truth(FALSE)}
        /\ v.t = "dict" =>
             /\ TextFormed(Get(v, "file_name_template"))
             /\ LET every == Get(v, "every_chunks") IN every.t = "int" => every.n \in Int
  /\ \A v \in {d.outputs.transcript, d.outputs.final_case, d.outputs.final_case_data} :
       TextFormed(v) /\ (v.t = "dict" => TextFormed(Get(v, "file_name")))
  /\ IsSequence(d.outputs.reports) /\ IsSequence(d.outputs.images)
  /\ \A k \in DOMAIN d.outputs.images : \A n \in DOMAIN d.outputs.images[k] :
       TextFormed(d.outputs.images[k][n])

ASSUME DocumentsAssumption == \A d \in Documents : DocumentFormed(d)
ASSUME OutputAssumption == IsSequence(OutputDir)

\* Mutant of PositiveInt: zero passes.
NaturalInt(v) == v.t = "int" /\ v.n >= 0

PositiveInt(v) == IsPositive(v, {"int"})
PositiveNumber(v) == IsPositive(v, {"int", "float"})

\* _validate_fields: nothing but the fields the code knows.
Only(fields, names) == DOMAIN fields \subseteq names

SourceOk(d) == d.source.kind \in SourceKinds[d.workflow] /\ IsName(d.source.path)

\* A section is a sequence of blocks, each with the paths it sets.
SectionsOk(d) ==
  \A name \in DOMAIN d.sections :
    /\ name \in DOMAIN Sections[d.workflow]
    /\ \A k \in DOMAIN d.sections[name] : LET block == d.sections[name][k] IN
         /\ block.name \in Sections[d.workflow][name]
         /\ \A n \in DOMAIN block.paths : IsName(block.paths[n])

ChunkOk(v) == v = NoField \/ PositiveInt(v)

SolveOk(d) ==
  /\ d.solve.initialization \in {NoField, Word("hybrid"), Word("standard")}
  /\ PositiveInt(d.solve.total) /\ ChunkOk(d.solve.chunk)
  /\ d.workflow = "reflow" => /\ PositiveNumber(d.solve.stepSize)
                              /\ PositiveInt(d.solve.perStep)

\* false, true, null, a path, or an object with "enabled" and "file_name"; a 1 is in
\* (None, True) too, and below a 0 in (None, False).
FileOutputOk(v) == \/ IsNull(v) \/ v.t \in {"bool", "str"} \/ IsNumber(v, 1)
                   \/ /\ v.t = "dict" /\ Only(v.fields, {"enabled", "file_name"})
                      /\ IsNull(Get(v, "file_name")) \/ Get(v, "file_name").t = "str"

CheckpointsOk(v) ==
  \/ IsNull(v) \/ v.t = "bool" \/ IsNumber(v, 0)
  \/ /\ v.t = "dict" /\ Only(v.fields, {"enabled", "every_chunks", "file_name_template"})
     /\ IsNull(Get(v, "every_chunks")) \/ PositiveInt(Get(v, "every_chunks"))
     /\ IsNull(Get(v, "file_name_template")) \/ Get(v, "file_name_template").t = "str"

RequestedReportOk(report) == /\ Only(report, {"name", "command_path", "args", "kwargs"})
                             /\ ReportOk(Dict(report))
RequestedImageOk(image) ==
  /\ Only(image, {"name", "kind", "file_name", "picture_state", "contour"})
  /\ IsName(Field(image, "name", NoField)) /\ IsName(Field(image, "file_name", NoField))
  /\ Field(image, "kind", Word("picture")) \in {Word("picture"), Word("contour")}
  /\ Field(image, "picture_state", Dict(<<>>)).t = "dict"
  /\ "contour" \in DOMAIN image =>
       /\ image.contour.t = "dict" /\ Only(image.contour.fields, {"object_name", "state"})
       /\ IsName(Get(image.contour, "object_name"))
       /\ Field(image.contour.fields, "state", Dict(<<>>)).t = "dict"

OutputsOk(o) == /\ FileOutputOk(o.transcript) /\ FileOutputOk(o.final_case)
                /\ FileOutputOk(o.final_case_data) /\ CheckpointsOk(o.checkpoints)
                /\ \A k \in DOMAIN o.reports : RequestedReportOk(o.reports[k])
                /\ \A k \in DOMAIN o.images : RequestedImageOk(o.images[k])

SpecOk(d) == SourceOk(d) /\ SectionsOk(d) /\ SolveOk(d) /\ OutputsOk(d.outputs)

-----------------------------------------------------------------------------
(***************************************************************************)
(* load_spec: what becomes of the document.  The outputs are on or off by  *)
(* default, each in its own way.                                           *)
(***************************************************************************)
On(file) == [enabled |-> TRUE, file |-> file]
Off == [enabled |-> FALSE, file |-> Null]

\* What bool() makes of a value.
Truthy(v) == \/ v = Truth(TRUE)
             \/ v.t \in {"int", "float"} /\ v.n # 0
             \/ v.t = "str" /\ ~Blank(v)
             \/ v.t = "list" /\ v.items # <<>>
             \/ v.t = "dict" /\ v.fields # <<>>
Enabled(v) == Get(v, "enabled") = NoField \/ Truthy(Get(v, "enabled"))

FileOutput(v, default) ==
  CASE IsNull(v)   -> IF default THEN On(Null) ELSE Off
    [] v.t = "bool" -> IF v.b THEN On(Null) ELSE Off
    [] IsNumber(v, 1) -> On(Null)
    [] v.t = "str"  -> On(v)
    [] v.t = "dict" -> [enabled |-> Enabled(v), file |-> Get(v, "file_name")]

EveryChunks(v) ==
  LET every == Get(v, "every_chunks")
  IN IF every = NoField THEN (IF Enabled(v) THEN 1 ELSE 0)
     ELSE IF IsNull(every) THEN 0 ELSE every.n

\* 0 chunks stands for no interval at all.
Checkpoints(v) ==
  CASE IsNull(v) \/ IsBool(v, FALSE) \/ IsNumber(v, 0) ->
         [enabled |-> FALSE, every |-> 0, file |-> Null]
    [] IsBool(v, TRUE) -> [enabled |-> TRUE, every |-> 1, file |-> Null]
    [] OTHER -> [enabled |-> Enabled(v), every |-> EveryChunks(v),
                 file |-> Get(v, "file_name_template")]

\* final_case_data alone is on when it is not mentioned, and off when it is null.
Outputs(o) ==
  [transcript |-> FileOutput(o.transcript, TRUE),
   final_case |-> FileOutput(o.final_case, FALSE),
   final_case_data |-> FileOutput(IF o.final_case_data = NoField THEN Truth(TRUE)
                                  ELSE o.final_case_data, FALSE),
   checkpoints |-> Checkpoints(o.checkpoints),
   reports |-> [k \in DOMAIN o.reports |-> Dict(o.reports[k])],
   images |-> [k \in DOMAIN o.images |-> WithDefaults(o.images[k])]]

DefaultChunk == [steady |-> 50, reflow |-> 1]

Section(d, name) == IF name \in DOMAIN d.sections THEN d.sections[name] ELSE <<>>

LoadSpec(d) ==
  [workflow |-> d.workflow,
   kind |-> d.source.kind,
   path |-> NormalizePathValue(d.source.path, [cwd |-> Workspace]),
   sections |-> IF d.workflow = "steady" THEN Section(d, "setup")
                ELSE Section(d, "physics") \o Section(d, "zones"),
   method |-> IF d.solve.initialization = NoField THEN Word("hybrid") ELSE d.solve.initialization,
   total |-> d.solve.total.n,
   chunk |-> IF d.solve.chunk = NoField THEN DefaultChunk[d.workflow] ELSE d.solve.chunk.n,
   stepSize |-> IF d.workflow = "reflow" THEN Number(d.solve.stepSize.n) ELSE NoField,
   perStep |-> d.solve.perStep,
   outputs |-> Outputs(d.outputs)]

-----------------------------------------------------------------------------
(***************************************************************************)
(* compile_program.                                                        *)
(***************************************************************************)
Once(phase, action, params) ==
  [phase |-> phase, action |-> action, params |-> params, mode |-> "once",
   total |-> 0, chunk |-> 0, every |-> 0, reports |-> <<>>, checkpoint |-> Null]

If(condition, operation) == IF condition THEN <<operation>> ELSE <<>>

\* A relative name is in the run's directory of outputs; an empty one counts as none.
OutputFile(v, default) ==
  Absolute(NormalizePath(IF IsNull(v) \/ Blank(v) THEN Word(default) ELSE v, OutputDir))

Reader == [mesh |-> "read_mesh", case |-> "read_case", case_data |-> "read_case_data"]

BlockChanges(block) ==
  [n \in DOMAIN block.paths |->
     Once("change", "set_state", [path |-> block.paths[n], state |-> None])]

Changes(blocks) == FlattenSeq([k \in DOMAIN blocks |-> BlockChanges(blocks[k])])

\* Only the transient workflow looks at the checkpoints.
Solve(s) ==
  LET points == s.outputs.checkpoints
      asked == s.workflow = "reflow" /\ points.enabled
  IN [phase |-> "solve",
      action |-> IF s.workflow = "steady" THEN "run_iterations" ELSE "run_time_steps",
      params |-> IF s.workflow = "steady" THEN <<>>
                 ELSE [max_iterations_per_step |-> s.perStep, time_step_size |-> s.stepSize],
      mode |-> IF s.workflow = "steady" THEN "iterations" ELSE "time_steps",
      total |-> s.total,
      chunk |-> IF s.chunk = 0 THEN s.total ELSE s.chunk,  \* chunk_size or total
      every |-> IF asked THEN points.every ELSE 0,
      checkpoint |-> IF asked THEN OutputFile(points.file, "checkpoint-step") ELSE Null,
      reports |-> s.outputs.reports]

Images(images) ==
  List([k \in DOMAIN images |->
          Dict([images[k] EXCEPT !.file_name = OutputFile(@, "picture")])])

\* Mutant of Writes: the case and its data go to one file.
WritesToOne(o) ==
  If(o.final_case.enabled, Once("write", "write_case",
       [file_name |-> OutputFile(o.final_case.file, "final")])) \o
  If(o.final_case_data.enabled, Once("write", "write_case_data",
       [file_name |-> OutputFile(o.final_case_data.file, "final")]))

Writes(o) ==
  If(o.final_case.enabled, Once("write", "write_case",
       [file_name |-> OutputFile(o.final_case.file, "final")])) \o
  If(o.final_case_data.enabled, Once("write", "write_case_data",
       [file_name |-> OutputFile(o.final_case_data.file, "final-data")]))

Read(s) == Once("source", Reader[s.kind], [file_name |-> s.path])
Initialize(s) == Once("initialization", "initialize_solution", [method |-> s.method])

ReportOps(o) ==
  If(o.reports # <<>>, Once("report", "collect_reports", [reports |-> List(o.reports)])) \o
  If(o.images # <<>>, Once("report", "export_results", [images |-> Images(o.images)]))

\* Mutant of Compile: the solution is initialized before the changes are made.
CompileEarly(s) == <<Read(s), Initialize(s)>> \o Changes(s.sections) \o <<Solve(s)>> \o
                   ReportOps(s.outputs) \o Writes(s.outputs)

Compile(s) == <<Read(s)>> \o Changes(s.sections) \o <<Initialize(s), Solve(s)>> \o
              ReportOps(s.outputs) \o Writes(s.outputs)

-----------------------------------------------------------------------------
(***************************************************************************)
(* The calls the worker makes of a program, if nobody cancels the run and  *)
(* the product does as it is told (what else may happen is in WorkflowRun).*)
(***************************************************************************)
Call(action, params) == [action |-> action, params |-> params]
Health == Call("get_solver_health", <<>>)

TranscriptCalls(s) ==
  LET t == s.outputs.transcript
  IN If(t.enabled, Call("start_transcript", [file_name |-> OutputFile(t.file, "transcript")]))

\* Mutant of Completed: the last chunk is as long as the others.
CompletedWhole(op, k) == k * op.chunk

\* How much is done after chunk k.
Completed(op, k) == IF k * op.chunk < op.total THEN k * op.chunk ELSE op.total

\* The chunks are begun while something is left to do.
Chunks(op) == {k \in 1 .. op.total : (k - 1) * op.chunk < op.total}

SolveCall(op, k) ==
  LET size == Whole(Completed(op, k) - Completed(op, k - 1))
  IN Call(op.action, IF op.mode = "iterations" THEN [count |-> size]
                     ELSE Over([step_count |-> size], op.params))

\* A name with a number in its place.
WithNumber(name, n) == name \o ToString(n)

\* The numbers there are, steps or chunks.
Numbers == UNION {1 .. d.solve.total.n : d \in {x \in Documents : PositiveInt(x.solve.total)}}

\* "{completed_steps:04d}" is the default's; a number is put in in full, so two numbers
\* make two names, none of which is a name without a number.
ASSUME NumbersAssumption ==
  /\ "checkpoint-step" \in Counting
  /\ \A name \in Counting \cup Indexed, m, n \in Numbers :
       /\ WithNumber(name, n) \notin {".", "..", "transcript", "final", "final-data"}
       /\ WithNumber(name, m) = WithNumber(name, n) => m = n

\* A name of the template after chunk k ("{completed_iterations}" is 0 throughout).
ChunkName(name, op, k) == IF name \in Counting THEN WithNumber(name, Completed(op, k))
                          ELSE IF name \in Indexed THEN WithNumber(name, k) ELSE name

\* The file's name is the template's, with the numbers in their place; a template
\* with another field raises, as a refused call does.
CheckpointFile(op, k) ==
  IF \E p \in DOMAIN op.checkpoint.parts : op.checkpoint.parts[p] \in Braced THEN Null
  ELSE [op.checkpoint EXCEPT !.parts = [p \in DOMAIN @ |-> ChunkName(@[p], op, k)]]

\* Mutant of CheckpointDue: chunks are counted from zero.
CheckpointDueEarly(op, k) == op.every > 0 /\ (k - 1) % op.every = 0

CheckpointDue(op, k) == op.every > 0 /\ k % op.every = 0

\* Mutant of ChunkCalls: a checkpoint is named for what the chunk began with.
ChunkCallsBehind(op, k) ==
  <<SolveCall(op, k)>> \o
  If(op.reports # <<>>, Call("collect_reports", [reports |-> List(op.reports)])) \o
  <<Health>> \o
  If(CheckpointDue(op, k), Call("checkpoint_case_data",
       [file_name |-> CheckpointFile(op, k - 1)]))

ChunkCalls(op, k) ==
  <<SolveCall(op, k)>> \o
  If(op.reports # <<>>, Call("collect_reports", [reports |-> List(op.reports)])) \o
  <<Health>> \o
  If(CheckpointDue(op, k), Call("checkpoint_case_data",
       [file_name |-> CheckpointFile(op, k)]))

OperationCalls(op) ==
  IF op.mode = "once" THEN <<Call(op.action, op.params), Health>>
  ELSE FlattenSeq([k \in Chunks(op) |-> ChunkCalls(op, k)])

Calls(s) == LET ops == Compile(s)
            IN TranscriptCalls(s) \o FlattenSeq([k \in DOMAIN ops |-> OperationCalls(ops[k])])

Parent(path) == Absolute(IF path.parts = <<>> THEN <<>> ELSE Front(path.parts))

\* The session the worker opens.
Context == [adapter |-> "fluent", profile |-> "safe", raw |-> FALSE,
            roots |-> {Parent(spec.path), Absolute(OutputDir)}, cwd |-> Workspace]

-----------------------------------------------------------------------------
NoSpec == [workflow |-> "none"]

Init == /\ document \in Documents
        /\ status = "submitted"
        /\ spec = NoSpec
        /\ ahead = <<>> /\ made = <<>>
        /\ SessionInit

\* start_workflow takes the document, and its worker is started.
Accept == /\ status = "submitted"
          /\ SpecOk(document)
          /\ status' = "queued"
          /\ spec' = LoadSpec(document)
          /\ ahead' = Calls(spec')
          /\ UNCHANGED <<document, made, productVars>>

\* start_workflow raises, and nothing is written but the directory of outputs.
Refuse == /\ status = "submitted"
          /\ ~SpecOk(document)
          /\ status' = "refused"
          /\ UNCHANGED <<document, spec, ahead, made, productVars>>

Verdict == PrepareAction(Head(ahead).action, Head(ahead).params, Context)

\* The next call passes the policy and reaches the session.
Proceed == /\ status = "queued"
           /\ ahead # <<>>
           /\ Verdict.ok
           /\ Execute(Head(ahead).action, Verdict.params)
           /\ UNCHANGED workVars

\* The product does one thing of it, the last of which makes the call return.
Progress == /\ Carry \/ Swallow
            /\ IF requests' = <<>>
               THEN /\ made' = Append(made, Call(Head(ahead).action, Verdict.params))
                    /\ ahead' = Tail(ahead)
               ELSE UNCHANGED <<made, ahead>>
            /\ UNCHANGED <<document, status, spec>>

\* The call is refused or raises: the run fails there, whatever it had computed.
Fail == /\ status = "queued"
        /\ \/ requests = <<>> /\ ahead # <<>> /\ ~Verdict.ok /\ UNCHANGED productVars
           \/ Raise
        /\ status' = "failed"
        /\ UNCHANGED <<document, spec, ahead, made>>

Succeed == /\ status = "queued"
           /\ ahead = <<>>
           /\ status' = "succeeded"
           /\ UNCHANGED <<document, spec, ahead, made, productVars>>

Next == Accept \/ Refuse \/ Proceed \/ Progress \/ Fail \/ Succeed

Spec == Init /\ [][Next]_vars

-----------------------------------------------------------------------------

SolveActions == {"run_iterations", "run_time_steps"}
Readers == {"read_mesh", "read_case", "read_case_data"}
Writers == {"start_transcript", "checkpoint_case_data", "write_case", "write_case_data"}

Made(actions) == {k \in DOMAIN made : made[k].action \in actions}
Before(first, second) == \A j \in Made(first), k \in Made(second) : j < k

\* What start_workflow lets through is never refused later for its form: unless the
\* product raises, a run fails only over where a file lies, over the braces of a
\* template, or over a contour whose name a settings path does not carry as it is.
Place(v) == v = Null \/ ~PathOk(v, Context)
Carriable(name) == Quotable(name) /\ InPath(name) = name
Unnameable(image) == /\ "contour" \in DOMAIN image
                     /\ ~Carriable(image.contour.fields.object_name)
FailsOnlyOverPlace ==
  status = "failed" /\ ~fault =>
    LET p == Head(ahead).params
    IN \/ "file_name" \in DOMAIN p /\ Place(p.file_name)
       \/ "images" \in DOMAIN p /\ \E k \in DOMAIN p.images.items :
            LET image == p.images.items[k].fields
            IN Place(image.file_name) \/ Unnameable(image)

\* At every moment the solver is driven in the order a simulation needs: read,
\* change, initialize, solve, and only then export and write.
DrivenInOrder ==
  /\ Before(Readers, {"set_state", "initialize_solution"} \cup SolveActions)
  /\ Before({"set_state"}, {"initialize_solution"})
  /\ Before({"initialize_solution"}, SolveActions)
  /\ Before(SolveActions \cup {"checkpoint_case_data"},
            {"export_results", "write_case", "write_case_data"})
  /\ Made(SolveActions) # {} => Made(Readers) # {} /\ Made({"initialize_solution"}) # {}

SizeOf(call) == IF call.action = "run_iterations" THEN call.params.count.n
                ELSE call.params.step_count.n

\* A run that succeeds has had the product solve exactly what was asked for, in
\* steps of the size asked for; never does a run solve more, or more at once, than
\* it was told.
SolvesWhatWasAsked ==
  /\ spec # NoSpec => solver.steps <= spec.total
  /\ status = "succeeded" => solver.steps = spec.total
  /\ solver.steps > 0 /\ spec.workflow = "reflow" => solver.size = spec.stepSize
  /\ \A k \in Made(SolveActions) : SizeOf(made[k]) \in 1 .. spec.chunk

\* With checkpoints every n chunks, a crash never costs more than n chunks, and no
\* more checkpoints are written than were asked for.
ChunksSince(j) == Cardinality({k \in Made(SolveActions) : k > j})
Saved == {0} \cup Made({"checkpoint_case_data"})
CheckpointsKeepUp ==
  spec # NoSpec /\ spec.workflow = "reflow" =>
    LET points == spec.outputs.checkpoints
    IN IF points.enabled /\ points.every > 0
       THEN /\ \E j \in Saved : ChunksSince(j) <= points.every
            /\ Cardinality(Saved) - 1 <= Cardinality(Made(SolveActions)) \div points.every
       ELSE Saved = {0}

\* The user gave the file of a call its name.
OutputOf == [start_transcript |-> "transcript", checkpoint_case_data |-> "checkpoints",
             write_case |-> "final_case", write_case_data |-> "final_case_data"]
NameGiven(call) == LET v == spec.outputs[OutputOf[call.action]].file IN ~(IsNull(v) \/ Blank(v))

\* A number stands somewhere in the names of the checkpoints.
NumberGiven == LET parts == Solve(spec).checkpoint.parts
               IN \E p \in DOMAIN parts : parts[p] \in Counting \cup Indexed

FilesApart ==
  \A j, k \in Made(Writers) :
    j # k /\ made[j].params.file_name = made[k].params.file_name =>
      /\ NameGiven(made[j]) \/ NameGiven(made[k])
      /\ made[j].action = made[k].action =>
           made[j].action = "checkpoint_case_data" /\ ~NumberGiven

CheckpointsHonest ==
  \A j \in Saved \ {0} :
    LET op == Solve(spec)
        file == made[j].params.file_name
    IN \/ \E k \in Chunks(op) : /\ CheckpointFile(op, k) = file
                                /\ solver.data[file] = Completed(op, k)
       \/ \E k \in Made({"write_case", "write_case_data"}) : made[k].params.file_name = file

\* Two writes of a run go to two files, unless the user gave one of the files its name
\* or the checkpoints a template without a number: the default names never lose an
\* output.  So a checkpoint holds what was done after the chunk its name tells of, unless
\* the case at the end has got that name.
NothingOverwritten == FilesApart /\ CheckpointsHonest

\* A picture shows what was asked for under its name: its own contour, with the
\* state given for it, whatever other pictures were saved before with the same
\* contour or another, and whatever raised; and a run that succeeds saved them all.
\* A name that a settings path does not carry as it is ("a/b" is read as "a.b") is
\* the exception: its contour is shown, but the state may go to another one.
Agrees(actual, asked) == \A n \in DOMAIN asked.fields : Field(actual, n, None) = asked.fields[n]
Shows(picture, image) ==
  /\ "contour" \in DOMAIN image => /\ picture.of # None
                                    /\ picture.of.contour = image.contour.fields.object_name
                                    /\ Carriable(image.contour.fields.object_name) =>
                                         Agrees(picture.of.state, image.contour.fields.state)
  /\ Agrees(picture.look, image.picture_state)
PictureFile(image) == OutputFile(image.file_name, "picture")
PicturesShowTheirs ==
  spec # NoSpec =>
    LET images == spec.outputs.images
    IN /\ \A k \in DOMAIN images : PictureFile(images[k]) \in DOMAIN solver.pictures =>
            \E j \in DOMAIN images : /\ PictureFile(images[j]) = PictureFile(images[k])
                                      /\ Shows(solver.pictures[PictureFile(images[k])], images[j])
       /\ status = "succeeded" =>
            \A k \in DOMAIN images : PictureFile(images[k]) \in DOMAIN solver.pictures
=============================================================================
