----------------------------- MODULE WorkflowRun -----------------------------
(***************************************************************************)
(* One workflow run (workflows/templates/runtime.py and worker.py): the    *)
(* server thread that starts it, the worker process that drives the        *)
(* product through the program, and the clients that poll and cancel it.   *)
(*                                                                         *)
(* They share run.json.  An update holds run.lock and has three steps that *)
(* others can see: read and compute, truncate, write.  Readers take no     *)
(* lock, so they may find the file truncated: json.loads then raises.      *)
(* run.lock is a mutex here that a dead owner does not keep; the module    *)
(* FileLock says when the real one is.                                     *)
(***************************************************************************)
EXTENDS Naturals, Sequences

CONSTANTS Clients,      \* threads that poll, wait for and cancel the run
          Program,      \* compile_program: the operations, in order
          Transcript,   \* the program asks for a transcript
          MaxCalls,     \* bound: calls per client
          Calls,        \* the calls clients make in this instance
          SpawnMayFail, \* Popen may raise
          Faults,       \* calls to the product may raise
          LockTimeouts, \* run.lock may time out
          WaitTimeouts, \* clients pass wait_for_run a timeout
          Crashes       \* processes may die at any step

Starter == "starter"
Worker == "worker"
NoActor == "nobody"
Actors == {Starter, Worker} \cup Clients

\* A chunk of 0 stands for chunk_size None; checkpoints never if every is 0.
Operations == [mode : {"once", "chunked"}, total : Nat, chunk : Nat, every : Nat]

ASSUME RunAssumption ==
  /\ {Starter, Worker, NoActor} \cap Clients = {}
  /\ Program \in Seq(Operations)
  /\ Calls \subseteq {"cancel", "get", "list", "wait"}
  /\ MaxCalls \in Nat

VARIABLES rec,        \* run.json as last written in full
          torn,       \* run.json is truncated, its content not yet written
          lock,       \* the actor that holds run.lock
          pc,         \* where each actor is
          stage, got, \* its update: how far, and the record to write
          w,          \* the worker's locals
          session,    \* the worker's session with the product
          executed,   \* what the product has done of each operation
          calls,      \* calls each client may still make
          accepted,   \* a cancel_run has returned "cancel_requested"
          since,      \* chunks begun after that
          fault       \* something really failed

fileVars == <<rec, torn, lock, stage, got>>
history == <<accepted, since, fault>>
vars == <<fileVars, pc, w, session, executed, calls, history>>

Terminal == {"cancelled", "succeeded", "failed"}
Live == {"queued", "starting", "running", "cancel_requested"}

\* progress = [op |-> o, units |-> n]: mark_running's phase and completed count.
NoProgress == [op |-> 0, units |-> 0]
NoRecord == [status |-> "none", pid |-> FALSE, ckpts |-> {}, progress |-> NoProgress]

Init == /\ rec = NoRecord /\ torn = FALSE /\ lock = NoActor
        /\ pc = [a \in Actors |-> IF a = Starter THEN "create"
                                  ELSE IF a = Worker THEN "none" ELSE "idle"]
        /\ stage = [a \in Actors |-> "none"]
        /\ got = [a \in Actors |-> NoRecord]
        /\ w = [op |-> 1, completed |-> 0, chunks |-> 0, ckpts |-> {}, held |-> NoProgress]
        /\ session = "none"
        /\ executed = [i \in DOMAIN Program |-> 0]
        /\ calls = [c \in Clients |-> MaxCalls]
        /\ accepted = FALSE /\ since = 0 /\ fault = FALSE

Goto(a, there) == pc' = [pc EXCEPT ![a] = there]

-----------------------------------------------------------------------------
(* _update_record and the mutators.                                        *)

\* What keeps a requested cancellation through mark_starting and mark_running.
Keep(r, s) == IF r.status = "cancel_requested" THEN "cancel_requested" ELSE s

RequestCancel(r) == IF r.status \in Terminal THEN r
                    ELSE [r EXCEPT !.status = "cancel_requested"]

\* Mutant of End: the terminal record gets a fresh summary.
EndSummaryless(r, s, p) == [r EXCEPT !.status = s, !.progress = p, !.ckpts = {}]

\* mark_terminal replaces status, progress and summary.
End(r, s, p) == [r EXCEPT !.status = s, !.progress = p, !.ckpts = w.ckpts]

\* The update an actor makes at each place.
Mutate(place, r) ==
  CASE place = "notePid" -> [r EXCEPT !.pid = TRUE]
    [] place = "cancel" -> RequestCancel(r)
    [] place = "markStarting" -> [r EXCEPT !.status = Keep(r, "starting"), !.pid = TRUE,
                                           !.progress = NoProgress]
    [] place = "announce" -> [r EXCEPT !.status = Keep(r, "running"),
                                       !.progress = [op |-> w.op, units |-> 0]]
    [] place = "progress" -> [r EXCEPT !.status = Keep(r, "running"),
                                       !.progress = [op |-> w.op, units |-> w.completed]]
    [] place \in {"noteTranscript", "merge"} -> [r EXCEPT !.ckpts = w.ckpts]
    [] place = "succeed" -> End(r, "succeeded", NoProgress)
    [] place = "cancelled" -> End(r, "cancelled", w.held)
    [] place = "failed" -> End(r, "failed", w.held)

WorkerUpdates == {"markStarting", "noteTranscript", "announce", "merge", "progress",
                  "succeed", "cancelled", "failed"}
Updates == {"notePid", "cancel"} \cup WorkerUpdates

\* An exception leaves the place: the starter's and a client's call raises, the
\* worker's body goes to `except Exception`, its handlers go to `finally`.
Unwind(a) ==
  Goto(a, CASE a = Starter -> "done"
            [] a \in Clients -> "idle"
            [] a = Worker -> IF pc[a] \in {"readCancelled", "cancelled", "readFailed", "failed"}
                             THEN "finally" ELSE "readFailed")

\* Where an update leads once it is written.
AfterUpdate(place) ==
  CASE place = "notePid" -> "done"
    [] place = "cancel" -> "idle"
    [] place = "markStarting" -> "firstCheck"
    [] place = "noteTranscript" -> "op"
    [] place = "announce" -> "run"
    [] place = "merge" -> IF Program[w.op].mode = "once" THEN "nextOp" ELSE "progress"
    [] place = "progress" -> "op"
    [] place \in {"succeed", "cancelled", "failed"} -> "finally"

\* Mutant of ReadLocked: read, change and write without run.lock.
ReadUnlocked(a) ==
  /\ pc[a] \in Updates /\ stage[a] = "none"
  /\ ~torn
  /\ lock' = a
  /\ stage' = [stage EXCEPT ![a] = "read"]
  /\ got' = [got EXCEPT ![a] = Mutate(pc[a], rec)]
  /\ UNCHANGED <<rec, torn, pc, w, session, executed, calls, history>>

\* Take run.lock, read the record and work out the new one.
ReadLocked(a) ==
  /\ pc[a] \in Updates /\ stage[a] = "none"
  /\ lock = NoActor
  /\ ~torn
  /\ lock' = a
  /\ stage' = [stage EXCEPT ![a] = "read"]
  /\ got' = [got EXCEPT ![a] = Mutate(pc[a], rec)]
  /\ UNCHANGED <<rec, torn, pc, w, session, executed, calls, history>>

\* A writer died with the file truncated: JSONDecodeError for every update.
ReadLockedTorn(a) ==
  /\ pc[a] \in Updates /\ stage[a] = "none"
  /\ lock = NoActor
  /\ torn
  /\ Unwind(a)
  /\ UNCHANGED <<fileVars, w, session, executed, calls, history>>

LockTimeout(a) ==
  /\ LockTimeouts
  /\ pc[a] \in Updates /\ stage[a] = "none"
  /\ fault' = TRUE
  /\ Unwind(a)
  /\ UNCHANGED <<fileVars, w, session, executed, calls, accepted, since>>

\* write_text opens the file for writing, which empties it.
Truncate(a) ==
  /\ stage[a] = "read"
  /\ torn' = TRUE
  /\ stage' = [stage EXCEPT ![a] = "cut"]
  /\ UNCHANGED <<rec, lock, got, pc, w, session, executed, calls, history>>

\* Mutant of Write: returns without releasing run.lock.
WriteLockKept(a) ==
  /\ stage[a] = "cut"
  /\ rec' = got[a]
  /\ torn' = FALSE
  /\ stage' = [stage EXCEPT ![a] = "none"]
  /\ got' = [got EXCEPT ![a] = NoRecord]
  /\ Goto(a, AfterUpdate(pc[a]))
  /\ accepted' = (accepted \/ (pc[a] = "cancel" /\ got[a].status = "cancel_requested"))
  /\ UNCHANGED <<lock, w, session, executed, calls, since, fault>>

\* The content is written, the file closed and run.lock released.
Write(a) ==
  /\ stage[a] = "cut"
  /\ rec' = got[a]
  /\ torn' = FALSE
  /\ lock' = NoActor
  /\ stage' = [stage EXCEPT ![a] = "none"]
  /\ got' = [got EXCEPT ![a] = NoRecord]
  /\ Goto(a, AfterUpdate(pc[a]))
  /\ accepted' = (accepted \/ (pc[a] = "cancel" /\ got[a].status = "cancel_requested"))
  /\ UNCHANGED <<w, session, executed, calls, since, fault>>

Update(a) == ReadLocked(a) \/ ReadLockedTorn(a) \/ Truncate(a) \/ Write(a)

-----------------------------------------------------------------------------
(* start_workflow                                                          *)

\* The first write of run.json takes no lock.
Create == /\ pc[Starter] = "create"
          /\ torn' = TRUE
          /\ Goto(Starter, "createWrite")
          /\ UNCHANGED <<rec, lock, stage, got, w, session, executed, calls, history>>

CreateWrite == /\ pc[Starter] = "createWrite"
               /\ rec' = [NoRecord EXCEPT !.status = "queued"]
               /\ torn' = FALSE
               /\ Goto(Starter, "spawn")
               /\ UNCHANGED <<lock, stage, got, w, session, executed, calls, history>>

\* From here on the worker runs beside the starter, who still notes its pid.
Spawn == /\ pc[Starter] = "spawn"
         /\ pc' = [pc EXCEPT ![Starter] = "notePid", ![Worker] = "markStarting"]
         /\ UNCHANGED <<fileVars, w, session, executed, calls, history>>

SpawnFailed == /\ SpawnMayFail
               /\ pc[Starter] = "spawn"
               /\ Goto(Starter, "done")
               /\ fault' = TRUE
               /\ UNCHANGED <<fileVars, w, session, executed, calls, accepted, since>>

-----------------------------------------------------------------------------
(* The worker: _run_workflow and _execute_chunked_operation.               *)

\* A worker step that leaves run.json alone.
WorkerAt(place) == /\ pc[Worker] = place
                   /\ UNCHANGED <<fileVars, calls>>

\* Mutant of CancelCheck: the check is not made.
CancelCheckIgnored(place, otherwise) ==
  /\ WorkerAt(place)
  /\ Goto(Worker, otherwise)
  /\ UNCHANGED <<w, session, executed, history>>

\* is_cancel_requested: an unlocked read, which raises if the file is torn.
CancelCheck(place, otherwise) ==
  /\ WorkerAt(place)
  /\ IF torn THEN Unwind(Worker)
     ELSE Goto(Worker, IF rec.status = "cancel_requested" THEN "readCancelled" ELSE otherwise)
  /\ UNCHANGED <<w, session, executed, history>>

\* open_managed_session.
Launch == /\ WorkerAt("launch")
          /\ session' = "open"
          /\ Goto(Worker, IF Transcript THEN "transcript" ELSE "op")
          /\ UNCHANGED <<w, executed, history>>

StartTranscript == /\ WorkerAt("transcript")
                   /\ Goto(Worker, "noteTranscript")
                   /\ UNCHANGED <<w, session, executed, history>>

Current == Program[w.op]

NextOp == /\ WorkerAt("nextOp")
          /\ w' = [w EXCEPT !.op = @ + 1, !.completed = 0, !.chunks = 0]
          /\ Goto(Worker, "op")
          /\ UNCHANGED <<session, executed, history>>

\* The for over the operations and the while over the chunks.
Dispatch == /\ WorkerAt("op")
            /\ Goto(Worker, IF w.op > Len(Program) THEN "succeed"
                            ELSE IF Current.mode = "once" THEN "announce"
                            ELSE IF w.completed < Current.total THEN "check" ELSE "nextOp")
            /\ UNCHANGED <<w, session, executed, history>>

\* The product is asked for the next chunk.
BeginChunk == /\ WorkerAt("begin")
              /\ Goto(Worker, "chunk")
              /\ since' = IF accepted THEN since + 1 ELSE since
              /\ UNCHANGED <<w, session, executed, accepted, fault>>

\* Mutant of ChunkSize: the last chunk is as large as the others.
ChunkSizeFull(o) == IF o.chunk = 0 THEN o.total ELSE o.chunk

ChunkSize(o) == LET size == IF o.chunk = 0 THEN o.total ELSE o.chunk
                    left == o.total - w.completed
                IN IF size < left THEN size ELSE left

ChunkDone == /\ WorkerAt("chunk")
             /\ w' = [w EXCEPT !.completed = @ + ChunkSize(Current), !.chunks = @ + 1]
             /\ executed' = [executed EXCEPT ![w.op] = @ + ChunkSize(Current)]
             /\ Goto(Worker, "report")
             /\ UNCHANGED <<session, history>>

\* Reports, health and, every so many chunks, a checkpoint.
CheckpointDue(o) == o.every > 0 /\ w.chunks % o.every = 0

Report == /\ WorkerAt("report")
          /\ w' = IF CheckpointDue(Current)
                  THEN [w EXCEPT !.ckpts = @ \cup {<<w.op, w.chunks>>}] ELSE w
          /\ Goto(Worker, "merge")
          /\ UNCHANGED <<session, executed, history>>

RunOnce == /\ WorkerAt("run")
           /\ executed' = [executed EXCEPT ![w.op] = 1]
           /\ Goto(Worker, "health")
           /\ UNCHANGED <<w, session, history>>

Health == /\ WorkerAt("health")
          /\ Goto(Worker, "merge")
          /\ UNCHANGED <<w, session, executed, history>>

\* The product raises.
ProductFails == /\ Faults
                /\ \E place \in {"launch", "transcript", "chunk", "report", "run", "health"} :
                     WorkerAt(place)
                /\ fault' = TRUE
                /\ Unwind(Worker)
                /\ UNCHANGED <<w, session, executed, accepted, since>>

\* Mutant of Handle: the terminal record starts from an empty progress.
HandleAfresh(place, there) ==
  /\ WorkerAt(place)
  /\ IF torn THEN Unwind(Worker) /\ UNCHANGED w
     ELSE Goto(Worker, there) /\ w' = [w EXCEPT !.held = [op |-> w.op, units |-> 0]]
  /\ UNCHANGED <<session, executed, history>>

\* The handlers read the run again, without the lock, to keep its progress.
Handle(place, there) ==
  /\ WorkerAt(place)
  /\ IF torn THEN Unwind(Worker) /\ UNCHANGED w
     ELSE Goto(Worker, there) /\ w' = [w EXCEPT !.held = rec.progress]
  /\ UNCHANGED <<session, executed, history>>

\* stop_transcript and session.close; what they raise is swallowed.
Finally == /\ WorkerAt("finally")
           /\ \/ session' = IF session = "open" THEN "closed" ELSE session
              \/ Faults /\ session = "open" /\ session' = "stuck"
           /\ Goto(Worker, "done")
           /\ UNCHANGED <<w, executed, history>>

WorkerStep == \/ CancelCheck("firstCheck", "launch") \/ CancelCheck("check", "begin")
              \/ Launch \/ StartTranscript \/ NextOp \/ Dispatch
              \/ BeginChunk \/ ChunkDone \/ Report \/ RunOnce \/ Health \/ ProductFails
              \/ Handle("readCancelled", "cancelled") \/ Handle("readFailed", "failed")
              \/ Finally

-----------------------------------------------------------------------------
(* The clients: cancel_run, get_run, list_runs, wait_for_run.              *)

\* The id comes from start_workflow or from list_runs, which skips a run whose
\* file is not there.
Call(c, o) == /\ pc[c] = "idle" /\ calls[c] > 0
              /\ o \in Calls
              /\ o # "list" => rec.status # "none"
              /\ calls' = [calls EXCEPT ![c] = @ - 1]
              /\ Goto(c, o)
              /\ UNCHANGED <<fileVars, w, session, executed, history>>

\* get_run, for itself or for each run of list_runs: it returns the run, or
\* raises because the file is truncated just then.
GetRun(c) == /\ pc[c] \in {"get", "list"}
             /\ Goto(c, "idle")
             /\ UNCHANGED <<fileVars, w, session, executed, calls, history>>

\* Mutant of WaitRound: "failed" is not among the statuses that end the wait.
WaitRoundNotFailed(c) == /\ pc[c] = "wait"
                         /\ torn \/ rec.status \in Terminal \ {"failed"}
                         /\ Goto(c, "idle")
                         /\ UNCHANGED <<fileVars, w, session, executed, calls, history>>

\* One round of wait_for_run that ends it, with the run or, on a truncated
\* file, with an exception; any other round changes nothing.
WaitRound(c) == /\ pc[c] = "wait"
                /\ torn \/ rec.status \in Terminal
                /\ Goto(c, "idle")
                /\ UNCHANGED <<fileVars, w, session, executed, calls, history>>

WaitTimeout(c) == /\ WaitTimeouts
                  /\ pc[c] = "wait"
                  /\ Goto(c, "idle")
                  /\ UNCHANGED <<fileVars, w, session, executed, calls, history>>

-----------------------------------------------------------------------------
\* An actor's process dies: its lock is broken, a torn file stays torn.
Crash(a) == /\ Crashes
            /\ pc[a] \notin {"none", "idle", "done", "dead"}
            /\ Goto(a, "dead")
            /\ lock' = IF lock = a THEN NoActor ELSE lock
            /\ stage' = [stage EXCEPT ![a] = "none"]
            /\ got' = [got EXCEPT ![a] = NoRecord]
            /\ fault' = TRUE
            /\ UNCHANGED <<rec, torn, w, session, executed, calls, accepted, since>>

Own(a) == \/ Update(a)
          \/ a = Starter /\ (Create \/ CreateWrite \/ Spawn \/ SpawnFailed)
          \/ a = Worker /\ WorkerStep
          \/ a \in Clients /\ (GetRun(a) \/ WaitRound(a))

Next == \/ \E a \in Actors : Own(a) \/ LockTimeout(a) \/ Crash(a)
        \/ \E c \in Clients : WaitTimeout(c)
        \/ \E c \in Clients, o \in {"cancel", "get", "list", "wait"} : Call(c, o)

Spec == Init /\ [][Next]_vars

\* Whoever is in the middle of something goes on; nobody has to call, to time out or
\* to die.
FairSpec == Spec /\ \A a \in Actors : WF_vars(Own(a))

-----------------------------------------------------------------------------
Places == Updates \cup
          {"create", "createWrite", "spawn", "none", "idle", "done", "dead",
           "firstCheck", "check", "launch", "transcript", "op", "nextOp", "begin", "chunk",
           "report", "run", "health", "readCancelled", "readFailed", "finally",
           "get", "list", "wait"}

Records == [status : {"none"} \cup Live \cup Terminal, pid : BOOLEAN,
            ckpts : SUBSET (Nat \X Nat), progress : [op : Nat, units : Nat]]

\* The variables stay in their ranges.
TypeOK == /\ rec \in Records /\ torn \in BOOLEAN
          /\ lock \in Actors \cup {NoActor}
          /\ pc \in [Actors -> Places]
          /\ stage \in [Actors -> {"none", "read", "cut"}]
          /\ got \in [Actors -> Records]
          /\ w \in [op : Nat \ {0}, completed : Nat, chunks : Nat, ckpts : SUBSET (Nat \X Nat),
                    held : [op : Nat, units : Nat]]
          /\ session \in {"none", "open", "closed", "stuck"}
          /\ executed \in [DOMAIN Program -> Nat]
          /\ calls \in [Clients -> Nat]
          /\ accepted \in BOOLEAN /\ since \in Nat /\ fault \in BOOLEAN

Life == INSTANCE RunLife WITH status <- rec.status

\* The run's status follows the life cycle that cancel_run and wait_for_run rely
\* on: a requested cancellation is never overwritten by the worker's progress,
\* "cancelled" is only ever the answer to a request, and an ended run stays ended.
ImplementsRunLife == Life!Spec

\* "Cancelled at a chunk boundary": once a client has been told that the run is
\* to be cancelled, the worker begins at most the one chunk it had already checked.
CancelTakesEffect == since <= 1

Chunks(o) == LET size == IF o.chunk = 0 THEN o.total ELSE o.chunk
             IN IF o.total = 0 THEN 0 ELSE (o.total + size - 1) \div size

\* A run says "succeeded" only if the product did every unit of every operation
\* and the summary has every checkpoint the program asks for, and no other.
SucceededMeansAll ==
  rec.status = "succeeded" =>
    /\ \A i \in DOMAIN Program :
         executed[i] = IF Program[i].mode = "once" THEN 1 ELSE Program[i].total
    /\ rec.ckpts = UNION {{<<i, k>> : k \in {n \in 1..Chunks(Program[i]) :
                                               /\ Program[i].every > 0
                                               /\ n % Program[i].every = 0}} :
                          i \in {j \in DOMAIN Program : Program[j].mode = "chunked"}}

\* A cancelled run reports how far the product really got: the units it gives for
\* the operation in hand are those executed, and no later one was begun.
CancelledTellsTruth ==
  rec.status = "cancelled" =>
    LET o == rec.progress.op
    IN /\ \A i \in DOMAIN Program : i > o => executed[i] = 0
       /\ o > 0 /\ Program[o].mode = "chunked" => executed[o] = rec.progress.units

\* No update undoes another's: the pid, once known, and every checkpoint, once
\* recorded, stay, whatever the order in which starter, worker and clients write.
NothingLost == [][rec.ckpts \subseteq rec'.ckpts /\ (rec.pid => rec'.pid)]_vars

\* A spawned worker comes to an end: it waits for ever for no other actor.
WorkerStops == (pc[Worker] \notin {"none", "done", "dead"}) ~> (pc[Worker] \in {"done", "dead"})

\* Whoever waits for a run that has ended gets an answer.
WaitersAnswered ==
  \A c \in Clients : (pc[c] = "wait" /\ rec.status \in Terminal) ~> (pc[c] \in {"idle", "dead"})

\* Every wait for a run comes to an end while nothing fails.
WaitReturns == \A c \in Clients : (pc[c] = "wait") ~> (pc[c] # "wait" \/ fault)
=============================================================================
