-------------------------- MODULE WorkflowRunProofs --------------------------
(***************************************************************************)
(* Proofs about WorkflowRun for any program, any number of clients and     *)
(* calls, with every failure, time-out and crash allowed.                  *)
(***************************************************************************)
EXTENDS WorkflowRun, TLAPS

-----------------------------------------------------------------------------
(* Types.  An actor with an update under way is at a place of an update;   *)
(* while an operation is in hand w.op is one of the program's; and a chunk *)
(* is only begun while something is left, so chunk sizes are in Nat.       *)

UpdateUnderWay == \A a \in Actors : stage[a] # "none" => pc[a] \in Updates

InOperation == {"check", "begin", "chunk", "report", "run", "health",
                "announce", "merge", "progress", "nextOp"}

OperationInHand ==
  /\ pc[Worker] \in InOperation => w.op \in DOMAIN Program
  /\ pc[Worker] \in {"check", "begin", "chunk"} => w.completed < Program[w.op].total

TypeInv == TypeOK /\ UpdateUnderWay /\ OperationInHand

\* Every mutator gives a record back (the seven lambdas of WorkflowService).
LEMMA MutateType ==
  ASSUME TypeOK, NEW place \in Updates, NEW r \in Records
  PROVE  Mutate(place, r) \in Records
<1>1. r = [status |-> r.status, pid |-> r.pid, ckpts |-> r.ckpts, progress |-> r.progress]
  BY DEF Records
<1>2. /\ w.ckpts \in SUBSET (Nat \X Nat) /\ w.held \in [op : Nat, units : Nat]
      /\ w.op \in Nat /\ w.completed \in Nat
  BY DEF TypeOK
<1> QED
  BY ZenonT(60), <1>1, <1>2 DEF Mutate, Records, Updates, WorkerUpdates, RequestCancel, Keep, End,
                    NoProgress, Live, Terminal

\* An exception leads an actor to one of the places the program has.
LEMMA UnwindPlaces ==
  ASSUME TypeOK, NEW a \in Actors, Unwind(a)
  PROVE  /\ pc' \in [Actors -> Places]
         /\ pc'[Worker] \in {pc[Worker], "finally", "readFailed"}
         /\ \A b \in Actors \ {a} : pc'[b] = pc[b]
BY DEF TypeOK, Unwind, Goto, Actors, Starter, Worker, Places

\* An update that is written leads on to the place that follows it.
LEMMA AfterUpdatePlaces ==
  ASSUME NEW place \in Updates
  PROVE  AfterUpdate(place) \in Places
BY DEF AfterUpdate, Updates, WorkerUpdates, Places

\* The steps of an update, of whichever actor, keep the types.
LEMMA UpdateType ==
  ASSUME TypeInv, RunAssumption, NEW a \in Actors, Update(a) \/ LockTimeout(a) \/ Crash(a)
  PROVE  TypeInv'
<1> USE DEF TypeInv, TypeOK, UpdateUnderWay, OperationInHand, InOperation, fileVars, history
<1>0. Worker \in Actors
  BY DEF Actors
<1>1. CASE ReadLocked(a)
  <2>1. Mutate(pc[a], rec) \in Records
    BY <1>1, MutateType DEF ReadLocked
  <2> QED
    BY <1>1, <2>1 DEF ReadLocked
<1>2. CASE ReadLockedTorn(a)
  BY ZenonT(60), <1>0, <1>2, UnwindPlaces DEF ReadLockedTorn
<1>3. CASE LockTimeout(a)
  BY ZenonT(60), <1>0, <1>3, UnwindPlaces DEF LockTimeout
<1>4. CASE Truncate(a)
  BY <1>4 DEF Truncate
<1>5. CASE Write(a)
  <2>1. pc[a] \in Updates => AfterUpdate(pc[a]) \in Places
    BY AfterUpdatePlaces
  <2>2. AfterUpdate(pc[a]) \in Places /\ pc[a] \in Updates
    BY <1>5, <2>1 DEF Write
  <2>3. pc' = [pc EXCEPT ![a] = AfterUpdate(pc[a])] /\ stage' = [stage EXCEPT ![a] = "none"]
    BY <1>5 DEF Write, Goto
  <2>4. got' \in [Actors -> Records]
    BY <1>5 DEF Write, NoRecord, NoProgress, Records
  <2>5. accepted' \in BOOLEAN
    BY <1>5 DEF Write
  <2>6. TypeOK'
    BY <1>5, <2>2, <2>3, <2>4, <2>5 DEF Write
  <2>7. UpdateUnderWay'
    BY <2>3
  <2>8. /\ AfterUpdate(pc[a]) \in InOperation => pc[a] \in InOperation
        /\ AfterUpdate(pc[a]) \notin {"check", "begin", "chunk"}
    BY ZenonT(60), <2>2 DEF AfterUpdate, Updates, WorkerUpdates
  <2>9. OperationInHand'
    BY <1>0, <1>5, <2>3, <2>8 DEF Write
  <2> QED
    BY <2>6, <2>7, <2>9
<1>6. CASE Crash(a)
  BY ZenonT(60), <1>0, <1>6 DEF Crash, Goto, NoRecord, NoProgress, Records, Places
<1> QED
  BY <1>1, <1>2, <1>3, <1>4, <1>5, <1>6 DEF Update

\* Whoever moves on outside an update leaves the updates under way alone.
LEMMA MoveType ==
  ASSUME TypeInv, NEW a \in Actors, NEW there \in Places, Goto(a, there),
         pc[a] \notin Updates, UNCHANGED stage
  PROVE  /\ pc' \in [Actors -> Places] /\ pc'[a] = there
         /\ \A b \in Actors \ {a} : pc'[b] = pc[b]
         /\ UpdateUnderWay'
BY DEF TypeInv, TypeOK, UpdateUnderWay, Goto

\* So does an exception.
LEMMA UnwindType ==
  ASSUME TypeInv, NEW a \in Actors, Unwind(a), pc[a] \notin Updates, UNCHANGED stage
  PROVE  UpdateUnderWay'
BY DEF TypeInv, TypeOK, UpdateUnderWay, Unwind, Goto

\* A worker's step keeps the types.
LEMMA WorkerType ==
  ASSUME TypeInv, RunAssumption, WorkerStep
  PROVE  TypeInv'
<1> USE DEF fileVars, history, WorkerAt
<1>0. Worker \in Actors
  BY DEF Actors
<1>a. \A i \in DOMAIN Program : Program[i] \in Operations
  BY DEF RunAssumption
<1>b. pc[Worker] \notin Updates
  BY DEF WorkerStep, CancelCheck, Launch, StartTranscript, NextOp, Dispatch, BeginChunk,
       ChunkDone,
         Report, RunOnce, Health, ProductFails, Handle, Finally, Updates, WorkerUpdates
<1>c. ASSUME Unwind(Worker), UNCHANGED <<fileVars, w, session, executed, calls>>,
             accepted' \in BOOLEAN, fault' \in BOOLEAN, UNCHANGED since
      PROVE  TypeInv'
  BY <1>0, <1>b, <1>c, UnwindPlaces, UnwindType DEF TypeInv, TypeOK, OperationInHand, InOperation
<1>d. ASSUME NEW there \in Places, Goto(Worker, there), UNCHANGED fileVars
      PROVE  pc' \in [Actors -> Places] /\ pc'[Worker] = there /\ UpdateUnderWay'
  BY <1>0, <1>b, <1>d, MoveType
<1>e. TypeOK /\ OperationInHand
  BY DEF TypeInv
<1> DEFINE Locals == [op : Nat \ {0}, completed : Nat, chunks : Nat, ckpts : SUBSET (Nat \X Nat),
                      held : [op : Nat, units : Nat]]
<1>f. w \in Locals /\ w.op \in Nat /\ w.completed \in Nat /\ w.chunks \in Nat
  BY <1>e DEF TypeOK
<1> DEFINE Kept == TypeOK' /\ UpdateUnderWay' /\ OperationInHand'
<1> USE DEF TypeOK, OperationInHand, InOperation
<1>1. ASSUME NEW place, NEW there \in {"launch", "begin"}, CancelCheck(place, there),
             there = "begin" => place = "check"
      PROVE  Kept
  <2>1. CASE torn
    BY <1>c, <1>e, <1>1, <2>1 DEF CancelCheck, TypeInv
  <2>2. CASE ~torn
    <3>1. PICK to \in {there, "readCancelled"} : Goto(Worker, to)
      BY <1>1, <2>2 DEF CancelCheck
    <3> QED
      BY <1>d, <1>e, <1>1, <3>1 DEF CancelCheck, Places
  <2> QED
    BY <2>1, <2>2
<1>4. ASSUME Launch PROVE Kept
  BY <1>d, <1>e, <1>4 DEF Launch, Updates, WorkerUpdates, Places
<1>5. ASSUME StartTranscript PROVE Kept
  BY <1>d, <1>e, <1>5 DEF StartTranscript, Updates, WorkerUpdates, Places
<1>6. ASSUME NextOp PROVE Kept
  <2>1. w' = [w EXCEPT !.op = w.op + 1, !.completed = 0, !.chunks = 0]
    BY <1>6 DEF NextOp
  <2>2. w.op + 1 \in Nat \ {0}
    BY <1>f
  <2>3. w' \in Locals
    BY <1>f, <2>1, <2>2
  <2> QED
    BY ZenonT(60), <1>d, <1>e, <1>6, <2>3 DEF NextOp, Places
<1>7. ASSUME Dispatch PROVE Kept
  <2>1. Program \in Seq(Operations)
    BY DEF RunAssumption
  <2>2. w.op \in DOMAIN Program \/ w.op > Len(Program)
    BY <1>e, <2>1
  <2>3. PICK to \in {"succeed", "announce", "check", "nextOp"} :
          /\ Goto(Worker, to)
          /\ to # "succeed" => w.op \in DOMAIN Program
          /\ to = "check" => w.completed < Program[w.op].total
    BY <1>e, <1>7, <2>2 DEF Dispatch, Current
  <2> QED
    BY <1>d, <1>e, <1>7, <2>3 DEF Dispatch, Updates, WorkerUpdates, Places
<1>8. ASSUME BeginChunk PROVE Kept
  BY <1>d, <1>e, <1>8 DEF BeginChunk, Places
<1>9. ASSUME ChunkDone PROVE Kept
  <2>1. w.op \in DOMAIN Program /\ w.completed < Program[w.op].total
    BY <1>e, <1>9 DEF ChunkDone
  <2>2. ChunkSize(Current) \in Nat
    BY SMTT(60), <1>a, <1>e, <2>1 DEF ChunkSize, Current, Operations
  <2>3. w' = [w EXCEPT !.completed = w.completed + ChunkSize(Current), !.chunks = w.chunks + 1]
    BY <1>9 DEF ChunkDone
  <2>4. w' \in Locals /\ w'.op = w.op
    <3>1. w.completed + ChunkSize(Current) \in Nat /\ w.chunks + 1 \in Nat
      BY <1>f, <2>2
    <3> QED
      BY <1>f, <2>3, <3>1
  <2>5. executed' \in [DOMAIN Program -> Nat]
    BY <1>e, <1>9, <2>1, <2>2 DEF ChunkDone
  <2>6. Goto(Worker, "report") /\ UNCHANGED <<fileVars, calls, session, history>>
    BY <1>9 DEF ChunkDone
  <2> QED
    BY SMTT(60), <1>d, <1>e, <2>1, <2>4, <2>5, <2>6 DEF Places
<1>10. ASSUME Report PROVE Kept
  <2>1. w' = w \/ w' = [w EXCEPT !.ckpts = w.ckpts \cup {<<w.op, w.chunks>>}]
    BY <1>10 DEF Report
  <2>2. w.ckpts \cup {<<w.op, w.chunks>>} \in SUBSET (Nat \X Nat)
    BY <1>e
  <2>3. w' \in Locals /\ w'.op = w.op
    BY <1>f, <2>1, <2>2
  <2>4. /\ Goto(Worker, "merge") /\ UNCHANGED <<fileVars, calls, session, executed, history>>
        /\ pc[Worker] = "report"
    BY <1>10 DEF Report
  <2> QED
    BY SMTT(60), <1>d, <1>e, <2>3, <2>4 DEF Updates, WorkerUpdates, Places
<1>11. ASSUME RunOnce PROVE Kept
  BY <1>d, <1>e, <1>11 DEF RunOnce, Places
<1>12. ASSUME Health PROVE Kept
  BY SMTT(60), <1>d, <1>e, <1>12 DEF Health, Updates, WorkerUpdates, Places
<1>13. ASSUME ProductFails PROVE Kept
  BY <1>c, <1>e, <1>13 DEF ProductFails, TypeInv
<1>14. ASSUME NEW place, NEW there \in {"cancelled", "failed"}, Handle(place, there)
       PROVE  Kept
  <2>1. CASE torn
    BY <1>c, <1>e, <1>14, <2>1 DEF Handle, TypeInv
  <2>2. CASE ~torn
    <3>1. w' = [w EXCEPT !.held = rec.progress] /\ rec.progress \in [op : Nat, units : Nat]
      BY <1>e, <1>14, <2>2 DEF Handle, Records
    <3> QED
      BY ZenonT(60), <1>d, <1>e, <1>14, <2>2, <3>1 DEF Handle, Updates, WorkerUpdates, Places
  <2> QED
    BY <2>1, <2>2
<1>16. ASSUME Finally PROVE Kept
  BY <1>d, <1>e, <1>16 DEF Finally, Places
<1> HIDE DEF Kept, TypeOK, OperationInHand
<1>17. Kept
  BY <1>1, <1>4, <1>5, <1>6, <1>7, <1>8, <1>9, <1>10, <1>11, <1>12, <1>13, <1>14, <1>16
  DEF WorkerStep
<1> QED
  BY <1>17 DEF Kept, TypeInv

\* The starter's and the clients' own steps keep the types.
LEMMA OtherType ==
  ASSUME TypeInv, RunAssumption,
         \/ Create \/ CreateWrite \/ Spawn \/ SpawnFailed
         \/ \E c \in Clients : GetRun(c) \/ WaitRound(c) \/ WaitTimeout(c)
         \/ \E c \in Clients, o \in {"cancel", "get", "list", "wait"} : Call(c, o)
  PROVE  TypeInv'
<1> USE DEF fileVars, history
<1>0. Starter \in Actors /\ Worker \in Actors /\ Starter # Worker /\ Worker \notin Clients
  BY DEF Actors, Starter, Worker, RunAssumption
<1>a. TypeOK /\ OperationInHand
  BY DEF TypeInv
<1>b. ASSUME NEW a \in Actors \ {Worker}, NEW there \in Places, Goto(a, there),
             pc[a] \notin Updates, UNCHANGED stage
      PROVE  pc' \in [Actors -> Places] /\ pc'[Worker] = pc[Worker] /\ UpdateUnderWay'
  BY <1>0, <1>b, MoveType
<1> DEFINE Kept == TypeOK' /\ UpdateUnderWay' /\ OperationInHand'
<1> USE DEF TypeOK, OperationInHand
<1>1. ASSUME Create PROVE Kept
  BY ZenonT(60), <1>0, <1>a, <1>b, <1>1 DEF Create, Updates, WorkerUpdates, Places
<1>2. ASSUME CreateWrite PROVE Kept
  <2>1. rec' \in Records
    BY <1>2 DEF CreateWrite, NoRecord, NoProgress, Records, Live
  <2> QED
    BY ZenonT(60), <1>0, <1>a, <1>b, <1>2, <2>1 DEF CreateWrite, Updates, WorkerUpdates, Places
<1>3. ASSUME Spawn PROVE Kept
  BY ZenonT(60), <1>0, <1>a, <1>3
  DEF Spawn, Updates, WorkerUpdates, Places, InOperation, UpdateUnderWay, TypeInv
<1>4. ASSUME SpawnFailed PROVE Kept
  BY ZenonT(60), <1>0, <1>a, <1>b, <1>4 DEF SpawnFailed, Updates, WorkerUpdates, Places
<1>5. ASSUME NEW c \in Clients, GetRun(c) \/ WaitRound(c) \/ WaitTimeout(c) PROVE Kept
  <2>1. /\ Goto(c, "idle") /\ pc[c] \notin Updates /\ c \in Actors \ {Worker}
        /\ UNCHANGED <<fileVars, w, session, executed, calls, history>>
    BY <1>0, <1>a, <1>5
    DEF GetRun, WaitRound, WaitTimeout, Actors, Updates, WorkerUpdates
  <2> QED
    BY SMTT(60), <1>a, <1>b, <2>1 DEF Places
<1>6. ASSUME NEW c \in Clients, NEW o \in {"cancel", "get", "list", "wait"}, Call(c, o) PROVE Kept
  <2>1. c \in Actors \ {Worker} /\ pc[c] \notin Updates /\ o \in Places
    BY <1>0, <1>6 DEF Call, Actors, Updates, WorkerUpdates, Places
  <2>2. calls' \in [Clients -> Nat]
    BY <1>a, <1>6 DEF Call
  <2> QED
    BY ZenonT(60), <1>a, <1>b, <1>6, <2>1, <2>2 DEF Call
<1> HIDE DEF Kept, TypeOK, OperationInHand
<1>7. Kept
  BY <1>1, <1>2, <1>3, <1>4, <1>5, <1>6
<1> QED
  BY <1>7 DEF Kept, TypeInv

\* The types are an invariant.
LEMMA TypeInvariant == Spec => []TypeInv
<1>1. Init => TypeInv
  <2> SUFFICES ASSUME Init PROVE TypeInv
    OBVIOUS
  <2>1. NoRecord \in Records
    BY DEF NoRecord, NoProgress, Records
  <2>2. /\ w \in [op : Nat \ {0}, completed : Nat, chunks : Nat, ckpts : SUBSET (Nat \X Nat),
                  held : [op : Nat, units : Nat]]
        /\ calls \in [Clients -> Nat] /\ executed \in [DOMAIN Program -> Nat]
    BY RunAssumption DEF Init, NoProgress
  <2>3. pc \in [Actors -> Places]
    BY DEF Init, Places
  <2>4. TypeOK
    BY <2>1, <2>2, <2>3 DEF Init, TypeOK
  <2>5. UpdateUnderWay /\ OperationInHand
    BY DEF Init, UpdateUnderWay, OperationInHand, InOperation, Actors, Starter, Worker
  <2> QED
    BY <2>4, <2>5 DEF TypeInv
<1>2. TypeInv /\ [Next]_vars => TypeInv'
  <2> SUFFICES ASSUME TypeInv, [Next]_vars PROVE TypeInv'
    OBVIOUS
  <2>1. CASE UNCHANGED vars
    BY <2>1 DEF vars, fileVars, history, TypeInv, TypeOK, UpdateUnderWay, OperationInHand,
         InOperation
  <2>2. CASE Next
    BY <2>2, UpdateType, WorkerType, OtherType, RunAssumption DEF Next, Own
  <2> QED
    BY <2>1, <2>2
<1> QED
  BY <1>1, <1>2, PTL DEF Spec

\* Every variable of the run stays in its range, for every program.
THEOREM TypeCorrect == Spec => []TypeOK
BY TypeInvariant, PTL DEF TypeInv

-----------------------------------------------------------------------------
(* The life cycle.  What an update makes of the status depends only on the *)
(* place it is made from and on the status it finds.                       *)

StatusAfter(place, st) ==
  CASE place \in {"notePid", "noteTranscript", "merge"} -> st
    [] place = "cancel" -> IF st \in Terminal THEN st ELSE "cancel_requested"
    [] place = "markStarting" -> IF st = "cancel_requested" THEN st ELSE "starting"
    [] place \in {"announce", "progress"} -> IF st = "cancel_requested" THEN st ELSE "running"
    [] place = "succeed" -> "succeeded"
    [] place = "cancelled" -> "cancelled"
    [] place = "failed" -> "failed"

\* What each mutator does to the status.
LEMMA MutateStatus ==
  ASSUME NEW place \in Updates, NEW r \in Records
  PROVE  Mutate(place, r).status = StatusAfter(place, r.status)
<1>1. r = [status |-> r.status, pid |-> r.pid, ckpts |-> r.ckpts, progress |-> r.progress]
  BY DEF Records
<1> QED
  BY <1>1 DEF Mutate, StatusAfter, Updates, WorkerUpdates, RequestCancel, Keep, End

(***************************************************************************)
(* Who is where; who holds the lock has read the latest status; the run    *)
(* has a record before anyone can update it; and while the worker is in    *)
(* its body the run has not ended, because nobody else ends a run.         *)
(***************************************************************************)
StarterPlaces == {"create", "createWrite", "spawn", "notePid", "done", "dead"}
ClientPlaces == {"idle", "cancel", "get", "list", "wait", "dead"}
Body == {"firstCheck", "launch", "transcript", "noteTranscript", "op", "succeed"} \cup InOperation
Cancelling == {"readCancelled", "cancelled"}
Failing == {"readFailed", "failed"}
Ended == {"finally", "done", "dead"}
WorkerPlaces == {"none", "markStarting"} \cup Body \cup Cancelling \cup Failing \cup Ended

EachAtItsPlace == /\ pc[Starter] \in StarterPlaces /\ pc[Worker] \in WorkerPlaces
                  /\ \A c \in Clients : pc[c] \in ClientPlaces

HolderKnowsStatus ==
  \A a \in Actors : stage[a] # "none" =>
    lock = a /\ got[a].status = StatusAfter(pc[a], rec.status)

RecordComesFirst ==
  /\ pc[Starter] \in {"create", "createWrite"} => rec.status = "none"
  /\ pc[Starter] \in {"create", "createWrite", "spawn"} => pc[Worker] = "none"
  /\ rec.status = "none" => /\ pc[Worker] = "none" /\ pc[Starter] \notin {"spawn", "notePid"}
                            /\ \A c \in Clients : pc[c] # "cancel"

WorkerKnowsStatus ==
  /\ pc[Worker] = "none" => rec.status \in {"none", "queued", "cancel_requested"}
  /\ pc[Worker] = "markStarting" => rec.status \in {"queued", "cancel_requested"}
  /\ pc[Worker] \in Body => rec.status \in {"starting", "running", "cancel_requested"}
  /\ pc[Worker] \in Cancelling => rec.status = "cancel_requested"
  /\ pc[Worker] \in Failing => rec.status \in Live

LifeInv == EachAtItsPlace /\ HolderKnowsStatus /\ RecordComesFirst /\ WorkerKnowsStatus

\* The three kinds of actor are different, and none is called nobody.
LEMMA ActorsApart ==
  ASSUME RunAssumption
  PROVE  /\ Starter \in Actors /\ Worker \in Actors /\ Clients \subseteq Actors
         /\ Starter # Worker /\ Starter \notin Clients /\ Worker \notin Clients
         /\ NoActor \notin Actors
         /\ \A a \in Actors : a = Starter \/ a = Worker \/ a \in Clients
BY DEF RunAssumption, Actors, Starter, Worker, NoActor

\* Each update is made by the one who makes it.
LEMMA WhoUpdates ==
  ASSUME TypeInv, EachAtItsPlace, RunAssumption, NEW a \in Actors, pc[a] \in Updates
  PROVE  /\ a = Starter => pc[a] = "notePid"
         /\ a = Worker => pc[a] \in WorkerUpdates
         /\ a \in Clients => pc[a] = "cancel"
BY ActorsApart DEF EachAtItsPlace, StarterPlaces, ClientPlaces, WorkerPlaces, Body, InOperation,
                   Cancelling, Failing, Ended, Updates, WorkerUpdates

\* Whoever writes holds the lock and writes what follows the status of the file.
LEMMA WriteStatus ==
  ASSUME TypeInv, LifeInv, RunAssumption, NEW a \in Actors, Write(a)
  PROVE  /\ pc[a] \in Updates
         /\ rec'.status = StatusAfter(pc[a], rec.status)
         /\ pc' = [pc EXCEPT ![a] = AfterUpdate(pc[a])]
         /\ \A b \in Actors : stage'[b] = "none"
         /\ rec.status # "none"
<1>1. stage[a] = "cut" /\ rec' = got[a]
  BY DEF Write
<1>2. pc[a] \in Updates /\ lock = a /\ got[a].status = StatusAfter(pc[a], rec.status)
  BY <1>1 DEF TypeInv, UpdateUnderWay, LifeInv, HolderKnowsStatus
<1>3. \A b \in Actors : stage'[b] = "none"
  BY <1>2 DEF Write, TypeInv, TypeOK, LifeInv, HolderKnowsStatus
<1>4. rec.status # "none"
  BY <1>2, WhoUpdates, ActorsApart DEF LifeInv, RecordComesFirst, WorkerUpdates
<1> QED
  BY <1>1, <1>2, <1>3, <1>4 DEF Write, Goto

\* Writing an update keeps the invariant.
LEMMA WriteLife ==
  ASSUME TypeInv, LifeInv, RunAssumption, NEW a \in Actors, Write(a)
  PROVE  LifeInv'
<1>1. /\ pc[a] \in Updates
      /\ rec'.status = StatusAfter(pc[a], rec.status)
      /\ pc' = [pc EXCEPT ![a] = AfterUpdate(pc[a])]
      /\ \A b \in Actors : stage'[b] = "none"
      /\ rec.status # "none"
  BY WriteStatus
<1>2. rec.status \in Live \cup Terminal /\ pc \in [Actors -> Places]
  BY <1>1 DEF TypeInv, TypeOK, Records
<1>3. HolderKnowsStatus'
  BY <1>1 DEF HolderKnowsStatus
<1> USE DEF EachAtItsPlace, RecordComesFirst, WorkerKnowsStatus, Live, Terminal
<1>4. CASE a = Starter
  <2>1. pc[a] = "notePid" /\ pc' = [pc EXCEPT ![Starter] = "done"] /\ rec'.status = rec.status
    BY <1>1, <1>4, WhoUpdates DEF LifeInv, StatusAfter, AfterUpdate
  <2> QED
    BY <1>2, <1>3, <2>1, ActorsApart DEF LifeInv, StarterPlaces
<1>5. CASE a \in Clients
  <2>1. /\ pc[a] = "cancel" /\ pc' = [pc EXCEPT ![a] = "idle"]
        /\ rec'.status = IF rec.status \in Terminal THEN rec.status ELSE "cancel_requested"
    BY <1>1, <1>5, WhoUpdates DEF LifeInv, StatusAfter, AfterUpdate
  <2>2. EachAtItsPlace'
    BY <1>2, <1>5, <2>1, ActorsApart DEF LifeInv, ClientPlaces
  <2>3. RecordComesFirst'
    BY <1>1, <1>2, <1>5, <2>1, ActorsApart DEF LifeInv
  <2>4. pc'[Worker] = pc[Worker]
    BY <1>5, <2>1, ActorsApart
  <2>5. WorkerKnowsStatus'
    BY <1>1, <1>2, <2>1, <2>4 DEF LifeInv
  <2> QED
    BY <1>3, <2>2, <2>3, <2>5 DEF LifeInv
<1>6. CASE a = Worker
  <2>1. pc[Worker] \in WorkerUpdates
    BY <1>1, <1>6, WhoUpdates DEF LifeInv
  <2>2. /\ pc'[Worker] = AfterUpdate(pc[Worker])
             /\ rec'.status = StatusAfter(pc[Worker], rec.status)
        /\ pc'[Starter] = pc[Starter] /\ \A c \in Clients : pc'[c] = pc[c]
    BY <1>1, <1>2, <1>6, ActorsApart
  <2>3. rec'.status # "none" /\ pc'[Worker] \in WorkerPlaces \ {"none"} /\ WorkerKnowsStatus'
    BY <1>1, <1>2, <2>1, <2>2
    DEF LifeInv, StatusAfter, AfterUpdate, WorkerUpdates, WorkerPlaces, Body, InOperation,
        Cancelling, Failing, Ended
  <2>4. pc[Worker] # "none"
    BY <2>1 DEF WorkerUpdates
  <2> QED
    BY <1>3, <2>2, <2>3, <2>4 DEF LifeInv
<1> QED
  BY <1>4, <1>5, <1>6, ActorsApart

\* Nobody learns anything new by leaving for a place where nothing is written.
LEMMA LeaveLife ==
  ASSUME TypeInv, LifeInv, RunAssumption, NEW a \in Actors, NEW there, HolderKnowsStatus',
         pc' = [pc EXCEPT ![a] = there], rec' = rec, pc[a] # "none",
         a = Starter => there \in {"done", "dead"},
         a = Worker => there \in {"readFailed", "finally", "dead"},
         a \in Clients => there \in {"idle", "dead"},
         there = "readFailed" => rec.status \in Live
  PROVE  LifeInv'
<1>1. pc \in [Actors -> Places]
  BY DEF TypeInv, TypeOK
<1>2. EachAtItsPlace'
  BY <1>1, ActorsApart DEF LifeInv, EachAtItsPlace, StarterPlaces, ClientPlaces, WorkerPlaces,
                           Failing, Ended
<1>3. RecordComesFirst'
  BY <1>1, ActorsApart DEF LifeInv, RecordComesFirst
<1>4. WorkerKnowsStatus'
  BY <1>1, ActorsApart
  DEF LifeInv, WorkerKnowsStatus, Body, InOperation, Cancelling, Failing
<1> QED
  BY <1>2, <1>3, <1>4 DEF LifeInv

\* An exception keeps the invariant, wherever the worker is when it is raised.
LEMMA UnwindLife ==
  ASSUME TypeInv, LifeInv, RunAssumption, NEW a \in Actors,
         Unwind(a), UNCHANGED <<rec, lock, stage, got>>, stage[a] = "none",
         pc[a] \in Updates \cup Body \cup Cancelling \cup Failing
  PROVE  LifeInv'
<1>1. pc \in [Actors -> Places]
  BY DEF TypeInv, TypeOK
<1>2. PICK there : /\ pc' = [pc EXCEPT ![a] = there]
                   /\ a = Starter => there = "done"
                   /\ a \in Clients => there = "idle"
                   /\ a = Worker => there = IF pc[a] \in Cancelling \cup Failing
                                            THEN "finally" ELSE "readFailed"
  BY ActorsApart DEF Unwind, Goto, Cancelling, Failing
<1>3. HolderKnowsStatus'
  BY <1>1, <1>2 DEF LifeInv, HolderKnowsStatus
<1>4. pc[a] # "none"
  BY DEF Updates, WorkerUpdates, Body, InOperation, Cancelling, Failing
<1>5. there = "readFailed" => rec.status \in Live
  <2>1. SUFFICES ASSUME a = Worker, pc[Worker] \notin Cancelling \cup Failing
                 PROVE  rec.status \in Live
    BY <1>2, ActorsApart
  <2>2. pc[Worker] \in {"markStarting"} \cup Body
    BY <2>1 DEF Updates, WorkerUpdates, Body, InOperation, Cancelling, Failing, LifeInv,
                EachAtItsPlace, WorkerPlaces, Ended
  <2> QED
    BY <2>2 DEF LifeInv, WorkerKnowsStatus, Live
<1> QED
  BY <1>2, <1>3, <1>4, <1>5, LeaveLife

\* So does a crash.
LEMMA CrashLife ==
  ASSUME TypeInv, LifeInv, RunAssumption, NEW a \in Actors, Crash(a)
  PROVE  LifeInv'
<1>1. pc' = [pc EXCEPT ![a] = "dead"] /\ rec' = rec /\ pc[a] # "none"
  BY DEF Crash, Goto
<1>2. HolderKnowsStatus'
  BY ActorsApart DEF Crash, Goto, TypeInv, TypeOK, LifeInv, HolderKnowsStatus
<1> QED
  BY <1>1, <1>2, LeaveLife

\* Reading under the lock, and truncating, keep the invariant.
LEMMA HoldLife ==
  ASSUME TypeInv, LifeInv, RunAssumption, NEW a \in Actors, ReadLocked(a) \/ Truncate(a)
  PROVE  LifeInv'
<1>1. rec' = rec /\ pc' = pc
  BY DEF ReadLocked, Truncate
<1>2. HolderKnowsStatus'
  <2>1. CASE ReadLocked(a)
    <3>1. Mutate(pc[a], rec).status = StatusAfter(pc[a], rec.status)
      BY <2>1, MutateStatus DEF ReadLocked, TypeInv, TypeOK
    <3>2. \A b \in Actors \ {a} : stage[b] = "none"
      BY <2>1, ActorsApart DEF ReadLocked, LifeInv, HolderKnowsStatus
    <3> QED
      BY <2>1, <3>1, <3>2 DEF ReadLocked, TypeInv, TypeOK, HolderKnowsStatus
  <2>2. CASE Truncate(a)
    BY <2>2 DEF Truncate, TypeInv, TypeOK, LifeInv, HolderKnowsStatus
  <2> QED
    BY <2>1, <2>2
<1>3. EachAtItsPlace' /\ RecordComesFirst' /\ WorkerKnowsStatus'
  BY <1>1 DEF LifeInv, EachAtItsPlace, RecordComesFirst, WorkerKnowsStatus
<1> QED
  BY <1>2, <1>3 DEF LifeInv

\* A step of the worker's own keeps it: it only ends the body for a reason.
LEMMA WorkerLife ==
  ASSUME TypeInv, LifeInv, RunAssumption, WorkerStep
  PROVE  LifeInv'
<1>1. pc \in [Actors -> Places] /\ UNCHANGED fileVars
  BY DEF TypeInv, TypeOK, WorkerStep, CancelCheck, Launch, StartTranscript, NextOp, Dispatch,
         BeginChunk, ChunkDone, Report, RunOnce, Health, ProductFails, Handle, Finally, WorkerAt
<1>2. stage[Worker] = "none" /\ pc[Worker] \in Body \cup Cancelling \cup Failing \cup {"finally"}
  <2>1. pc[Worker] \in (Body \cup Cancelling \cup Failing \cup {"finally"}) \ Updates
    BY DEF WorkerStep, CancelCheck, Launch, StartTranscript, NextOp, Dispatch, BeginChunk,
           ChunkDone, Report, RunOnce, Health, ProductFails, Handle, Finally, WorkerAt,
           Body, InOperation, Cancelling, Failing, Updates, WorkerUpdates
  <2> QED
    BY <2>1, ActorsApart DEF TypeInv, TypeOK, UpdateUnderWay
<1>3. ASSUME NEW there \in WorkerPlaces \ {"none", "markStarting"}, Goto(Worker, there),
             there \in Body => pc[Worker] \in Body,
             there \in Cancelling => rec.status = "cancel_requested",
             there \in Failing => rec.status \in Live
      PROVE  LifeInv'
  <2>1. /\ pc'[Worker] = there /\ pc'[Starter] = pc[Starter] /\ \A c \in Clients : pc'[c] = pc[c]
        /\ pc[Worker] # "none"
    BY <1>1, <1>2, <1>3, ActorsApart DEF Goto, Body, InOperation, Cancelling, Failing
  <2>2. HolderKnowsStatus'
    BY <1>1, <1>2, <1>3, ActorsApart DEF fileVars, Goto, LifeInv, HolderKnowsStatus
  <2>3. EachAtItsPlace' /\ RecordComesFirst'
    BY <1>1, <1>3, <2>1 DEF fileVars, LifeInv, EachAtItsPlace, RecordComesFirst
  <2>4. WorkerKnowsStatus'
    BY <1>1, <1>3, <2>1 DEF fileVars, LifeInv, WorkerKnowsStatus
  <2> QED
    BY <2>2, <2>3, <2>4 DEF LifeInv
<1>4. ASSUME Unwind(Worker), pc[Worker] # "finally" PROVE LifeInv'
  BY <1>1, <1>2, <1>4, ActorsApart, UnwindLife DEF fileVars
<1>5. pc[Worker] \in Body => rec.status \in Live
  BY DEF LifeInv, WorkerKnowsStatus, Live
<1> USE DEF WorkerAt, WorkerPlaces, Body, InOperation, Cancelling, Failing, Ended
<1>6. ASSUME NEW place \in {"firstCheck", "check"}, NEW there \in {"launch", "begin"},
             CancelCheck(place, there)
      PROVE  LifeInv'
  <2>1. CASE torn
    BY <1>4, <1>6, <2>1 DEF CancelCheck
  <2>2. CASE ~torn /\ rec.status = "cancel_requested"
    BY <1>3, <1>6, <2>2 DEF CancelCheck
  <2>3. CASE ~torn /\ rec.status # "cancel_requested"
    BY <1>3, <1>6, <2>3 DEF CancelCheck
  <2> QED
    BY <2>1, <2>2, <2>3
<1>7. CASE Launch \/ StartTranscript \/ NextOp \/ BeginChunk \/ ChunkDone \/ Report \/ RunOnce
             \/ Health
  <2>1. PICK there \in Body : Goto(Worker, there) /\ pc[Worker] \in Body
    BY <1>7 DEF Launch, StartTranscript, NextOp, BeginChunk, ChunkDone, Report, RunOnce, Health
  <2> QED
    BY <1>3, <2>1
<1>8. CASE Dispatch
  <2>1. PICK there \in Body : Goto(Worker, there) /\ pc[Worker] \in Body
    BY <1>8 DEF Dispatch
  <2> QED
    BY <1>3, <2>1
<1>9. CASE ProductFails
  BY <1>4, <1>9 DEF ProductFails
<1>10. ASSUME Handle("readCancelled", "cancelled") PROVE LifeInv'
  BY <1>3, <1>4, <1>10 DEF Handle, LifeInv, WorkerKnowsStatus
<1>11. ASSUME Handle("readFailed", "failed") PROVE LifeInv'
  BY <1>3, <1>4, <1>11 DEF Handle, LifeInv, WorkerKnowsStatus
<1>12. CASE Finally
  BY <1>3, <1>12 DEF Finally
<1> QED
  BY <1>6, <1>7, <1>8, <1>9, <1>10, <1>11, <1>12 DEF WorkerStep

\* So does starting the run: its record is there before anyone else is.
LEMMA StarterLife ==
  ASSUME TypeInv, LifeInv, RunAssumption, Create \/ CreateWrite \/ Spawn \/ SpawnFailed
  PROVE  LifeInv'
<1>1. /\ pc \in [Actors -> Places] /\ UNCHANGED <<lock, stage, got>>
      /\ pc[Starter] \in {"create", "createWrite", "spawn"}
  BY DEF TypeInv, TypeOK, Create, CreateWrite, Spawn, SpawnFailed, fileVars
<1>2. pc[Worker] = "none"
  BY <1>1 DEF LifeInv, RecordComesFirst
<1>3. /\ pc'[Starter] \in StarterPlaces /\ pc'[Worker] \in {pc[Worker], "markStarting"}
      /\ \A c \in Clients : pc'[c] = pc[c]
  BY <1>1, ActorsApart DEF Create, CreateWrite, Spawn, SpawnFailed, Goto, StarterPlaces
<1>4. EachAtItsPlace'
  BY <1>3 DEF LifeInv, EachAtItsPlace, WorkerPlaces
<1>5. \A a \in Actors : pc[a] \in Updates => a \in Clients
  BY <1>1, <1>2, ActorsApart DEF Updates, WorkerUpdates
<1>6. CreateWrite => \A a \in Actors : stage[a] = "none"
  <2>1. CreateWrite => \A c \in Clients : pc[c] \notin Updates
    BY WhoUpdates, ActorsApart DEF CreateWrite, LifeInv, RecordComesFirst
  <2> QED
    BY <1>5, <2>1 DEF TypeInv, TypeOK, UpdateUnderWay
<1>7. HolderKnowsStatus'
  <2>1. CASE CreateWrite
    BY <1>1, <1>6, <2>1 DEF HolderKnowsStatus
  <2>2. CASE ~CreateWrite
    <3>1. rec' = rec
      BY <2>2 DEF Create, CreateWrite, Spawn, SpawnFailed, fileVars
    <3>2. \A a \in Actors : stage[a] # "none" => pc'[a] = pc[a]
      BY <1>3, <1>5 DEF TypeInv, UpdateUnderWay
    <3> QED
      BY <1>1, <3>1, <3>2 DEF LifeInv, HolderKnowsStatus
  <2> QED
    BY <2>1, <2>2
<1>8. RecordComesFirst' /\ WorkerKnowsStatus'
  <2> USE DEF LifeInv, RecordComesFirst, WorkerKnowsStatus, Goto, fileVars, NoRecord, Body,
              InOperation, Cancelling, Failing
  <2>1. CASE Create
    BY <1>1, <1>2, <2>1, ActorsApart DEF Create
  <2>2. CASE CreateWrite
    BY <1>1, <1>2, <2>2, ActorsApart DEF CreateWrite
  <2>3. CASE Spawn
    BY <1>1, <1>2, <2>3, ActorsApart DEF Spawn
  <2>4. CASE SpawnFailed
    BY <1>1, <1>2, <2>4, ActorsApart DEF SpawnFailed
  <2> QED
    BY <2>1, <2>2, <2>3, <2>4
<1> QED
  BY <1>4, <1>7, <1>8 DEF LifeInv

\* And so do the clients' calls and reads.
LEMMA ClientLife ==
  ASSUME TypeInv, LifeInv, RunAssumption, NEW c \in Clients,
         \/ GetRun(c) \/ WaitRound(c) \/ WaitTimeout(c)
         \/ \E o \in {"cancel", "get", "list", "wait"} : Call(c, o)
  PROVE  LifeInv'
<1>1. PICK there \in {"idle", "cancel", "get", "list", "wait"} :
        /\ pc' = [pc EXCEPT ![c] = there] /\ UNCHANGED fileVars
        /\ there = "cancel" => rec.status # "none"
        /\ pc[c] \notin Updates
  BY DEF GetRun, WaitRound, WaitTimeout, Call, Goto, Updates, WorkerUpdates, fileVars
<1>2. /\ pc'[Starter] = pc[Starter] /\ pc'[Worker] = pc[Worker]
      /\ \A d \in Clients : pc'[d] = IF d = c THEN there ELSE pc[d]
      /\ \A a \in Actors : stage[a] # "none" => pc'[a] = pc[a]
  BY <1>1, ActorsApart DEF TypeInv, TypeOK, UpdateUnderWay
<1>3. HolderKnowsStatus'
  BY <1>1, <1>2 DEF LifeInv, HolderKnowsStatus, fileVars
<1>4. EachAtItsPlace' /\ RecordComesFirst' /\ WorkerKnowsStatus'
  BY <1>1, <1>2 DEF LifeInv, EachAtItsPlace, RecordComesFirst, WorkerKnowsStatus, fileVars,
       ClientPlaces
<1> QED
  BY <1>3, <1>4 DEF LifeInv

\* The life-cycle invariant holds of every run.
LEMMA LifeInvariant == Spec => [](TypeInv /\ LifeInv)
<1>1. Init => LifeInv
  BY RunAssumption, ActorsApart
  DEF Init, LifeInv, EachAtItsPlace, HolderKnowsStatus, RecordComesFirst, WorkerKnowsStatus,
    NoRecord,
      StarterPlaces, ClientPlaces, WorkerPlaces, Body, InOperation, Cancelling, Failing
<1>2. TypeInv /\ LifeInv /\ [Next]_vars => LifeInv'
  <2> SUFFICES ASSUME TypeInv, LifeInv, [Next]_vars PROVE LifeInv'
    OBVIOUS
  <2>1. CASE UNCHANGED vars
    BY <2>1 DEF vars, fileVars, LifeInv, EachAtItsPlace, HolderKnowsStatus, RecordComesFirst,
                WorkerKnowsStatus
  <2>2. ASSUME NEW a \in Actors, ReadLockedTorn(a) \/ LockTimeout(a) PROVE LifeInv'
    <3>1. Unwind(a) /\ UNCHANGED <<rec, lock, stage, got>> /\ stage[a] = "none"
            /\ pc[a] \in Updates
      BY <2>2 DEF ReadLockedTorn, LockTimeout, fileVars
    <3> QED
      BY <3>1, UnwindLife, RunAssumption
  <2>3. CASE Next
    BY <2>2, <2>3, RunAssumption, WriteLife, CrashLife, HoldLife, WorkerLife, StarterLife,
         ClientLife
    DEF Next, Own, Update
  <2> QED
    BY <2>1, <2>3
<1> QED
  BY <1>1, <1>2, TypeInvariant, PTL DEF Spec

-----------------------------------------------------------------------------
(* The run implements its life cycle.                                      *)

\* A step changes the status only by CreateWrite or by writing an update.
LEMMA StatusWriters ==
  ASSUME [Next]_vars, ~CreateWrite, \A a \in Actors : ~Write(a)
  PROVE  rec' = rec
<1> USE DEF fileVars
<1>1. CASE UNCHANGED vars
  BY <1>1 DEF vars
<1>2. ASSUME NEW a \in Actors, Update(a) \/ LockTimeout(a) \/ Crash(a) PROVE rec' = rec
  BY <1>2 DEF Update, ReadLocked, ReadLockedTorn, Truncate, LockTimeout, Crash
<1>3. CASE WorkerStep
  BY <1>3 DEF WorkerStep, CancelCheck, Launch, StartTranscript, NextOp, Dispatch, BeginChunk,
              ChunkDone, Report, RunOnce, Health, ProductFails, Handle, Finally, WorkerAt
<1>4. CASE Create \/ Spawn \/ SpawnFailed
  BY <1>4 DEF Create, Spawn, SpawnFailed
<1>5. ASSUME NEW c \in Clients, GetRun(c) \/ WaitRound(c) \/ WaitTimeout(c) PROVE rec' = rec
  BY <1>5 DEF GetRun, WaitRound, WaitTimeout
<1>6. ASSUME NEW c \in Clients, NEW o, Call(c, o) PROVE rec' = rec
  BY <1>6 DEF Call
<1> QED
  BY <1>1, <1>2, <1>3, <1>4, <1>5, <1>6 DEF Next, Own

\* Each update that is written is a step of the life cycle, or leaves the status.
LEMMA WriteRefines ==
  ASSUME TypeInv, LifeInv, RunAssumption, NEW a \in Actors, Write(a)
  PROVE  [Life!Next]_(rec.status)
<1>1. /\ pc[a] \in Updates /\ rec'.status = StatusAfter(pc[a], rec.status)
      /\ rec.status \in Live \cup Terminal
  BY WriteStatus DEF TypeInv, TypeOK, Records
<1> USE DEF Life!Next, Life!Start, Life!Run, Life!RequestCancel, Life!Cancel, Life!Succeed,
      Life!Fail,
            Life!Live, Live, Terminal
<1>2. CASE pc[a] = "notePid"
  BY <1>1, <1>2 DEF StatusAfter
<1>3. CASE pc[a] = "cancel"
  BY <1>1, <1>3 DEF StatusAfter
<1>4. CASE pc[a] \in WorkerUpdates
  <2>1. a = Worker
    BY <1>1, <1>4, WhoUpdates, ActorsApart DEF LifeInv, WorkerUpdates
  <2> QED
    BY <1>1, <1>4, <2>1
    DEF StatusAfter, WorkerUpdates, LifeInv, WorkerKnowsStatus, Body, InOperation, Cancelling,
      Failing
<1> QED
  BY <1>1, <1>2, <1>3, <1>4 DEF Updates

\* For every program and any number of clients, whatever crashes or fails, a
\* requested cancellation is never overwritten, "cancelled" answers a request,
\* and an ended run stays ended.
THEOREM RunRefinement == Spec => ImplementsRunLife
<1>1. Init => Life!Init
  BY DEF Init, Life!Init, NoRecord
<1>2. TypeInv /\ LifeInv /\ [Next]_vars => [Life!Next]_(rec.status)
  <2> SUFFICES ASSUME TypeInv, LifeInv, [Next]_vars PROVE [Life!Next]_(rec.status)
    OBVIOUS
  <2>1. CASE CreateWrite
    BY <2>1 DEF CreateWrite, LifeInv, RecordComesFirst, NoRecord, Life!Next, Life!Queue
  <2>2. ASSUME NEW a \in Actors, Write(a) PROVE [Life!Next]_(rec.status)
    BY <2>2, WriteRefines, RunAssumption
  <2>3. CASE ~CreateWrite /\ \A a \in Actors : ~Write(a)
    BY <2>3, StatusWriters
  <2> QED
    BY <2>1, <2>2, <2>3
<1> QED
  BY <1>1, <1>2, LifeInvariant, PTL DEF Spec, ImplementsRunLife, Life!Spec

-----------------------------------------------------------------------------
(* Cancelling takes effect.  An accepted request stays in the file until   *)
(* the run ends, so the next check sees it: only a chunk whose check came  *)
(* before the request can still begin.                                     *)

CancelInv == /\ accepted => rec.status \in {"cancel_requested"} \cup Terminal
             /\ ~accepted => since = 0
             /\ pc[Worker] = "begin" => since = 0
             /\ since \in {0, 1}

\* A written update keeps an accepted request, and may be one.
LEMMA WriteCancel ==
  ASSUME TypeInv, LifeInv, CancelInv, RunAssumption, NEW a \in Actors, Write(a)
  PROVE  CancelInv'
<1>1. /\ pc[a] \in Updates /\ rec'.status = StatusAfter(pc[a], rec.status)
      /\ rec'.status = got[a].status /\ since' = since
      /\ pc' = [pc EXCEPT ![a] = AfterUpdate(pc[a])]
      /\ accepted' = (accepted \/ (pc[a] = "cancel" /\ got[a].status = "cancel_requested"))
  BY WriteStatus DEF Write
<1>2. [Life!Next]_(rec.status)
  BY WriteRefines
<1>3. rec.status \in {"cancel_requested"} \cup Terminal
      => rec'.status \in {"cancel_requested"} \cup Terminal
  BY <1>2 DEF Life!Next, Life!Queue, Life!Start, Life!Run, Life!RequestCancel, Life!Cancel,
              Life!Succeed, Life!Fail, Life!Live, Terminal
<1>4. AfterUpdate(pc[a]) # "begin"
  BY <1>1 DEF AfterUpdate, Updates, WorkerUpdates
<1>5. pc'[Worker] = "begin" => pc[Worker] = "begin"
  BY <1>1, <1>4, ActorsApart DEF TypeInv, TypeOK
<1> QED
  BY <1>1, <1>3, <1>5 DEF CancelInv

\* Once a cancellation is accepted, at most one more chunk is begun.
THEOREM CancelEffect == Spec => []CancelTakesEffect
<1>1. Init => CancelInv
  BY ActorsApart, RunAssumption DEF Init, CancelInv
<1>2. TypeInv /\ LifeInv /\ CancelInv /\ [Next]_vars => CancelInv'
  <2> SUFFICES ASSUME TypeInv, LifeInv, CancelInv, [Next]_vars PROVE CancelInv'
    OBVIOUS
  <2> USE DEF fileVars, history
  <2>0. pc \in [Actors -> Places] /\ Worker \in Actors
    BY ActorsApart, RunAssumption DEF TypeInv, TypeOK
  <2>a. ASSUME UNCHANGED <<accepted, since>>, rec'.status = rec.status,
               pc'[Worker] = "begin" => pc[Worker] = "begin"
        PROVE  CancelInv'
    BY <2>a DEF CancelInv
  <2>b. ASSUME NEW a \in Actors, Unwind(a), UNCHANGED <<rec, accepted, since>> PROVE CancelInv'
    <3>1. pc'[Worker] \in {pc[Worker], "finally", "readFailed"}
      BY <2>b, UnwindPlaces DEF TypeInv
    <3> QED
      BY <2>a, <2>b, <3>1
  <2>1. CASE UNCHANGED vars
    BY <2>1, <2>a DEF vars
  <2>2. ASSUME NEW a \in Actors, Write(a) PROVE CancelInv'
    BY <2>2, WriteCancel, RunAssumption
  <2>3. ASSUME NEW a \in Actors, ReadLocked(a) \/ Truncate(a) PROVE CancelInv'
    BY <2>3, <2>a DEF ReadLocked, Truncate
  <2>4. ASSUME NEW a \in Actors, ReadLockedTorn(a) \/ LockTimeout(a) PROVE CancelInv'
    BY <2>4, <2>b DEF ReadLockedTorn, LockTimeout
  <2>5. ASSUME NEW a \in Actors, Crash(a) PROVE CancelInv'
    BY <2>0, <2>5, <2>a DEF Crash, Goto
  <2>6. CASE Create \/ CreateWrite \/ Spawn \/ SpawnFailed
    <3>1. /\ UNCHANGED <<accepted, since>> /\ pc'[Worker] \in {pc[Worker], "markStarting"}
          /\ CreateWrite => rec'.status = "queued" /\ rec.status = "none"
          /\ ~CreateWrite => rec' = rec
      BY <2>0, <2>6, ActorsApart, RunAssumption
      DEF Create, CreateWrite, Spawn, SpawnFailed, Goto, NoRecord, LifeInv, RecordComesFirst
    <3>2. ~accepted \/ rec.status # "none"
      BY DEF CancelInv, Terminal
    <3> QED
      BY <3>1, <3>2 DEF CancelInv
  <2>7. CASE WorkerStep
    <3>1. rec' = rec
      BY <2>7 DEF WorkerStep, CancelCheck, Launch, StartTranscript, NextOp, Dispatch, BeginChunk,
                  ChunkDone, Report, RunOnce, Health, ProductFails, Handle, Finally, WorkerAt
    <3>2. ASSUME NEW place \in {"firstCheck", "check"}, NEW there \in {"launch", "begin"},
                 CancelCheck(place, there)
          PROVE  CancelInv'
      <4>1. CASE torn
        BY <2>0, <2>b, <3>1, <3>2, <4>1 DEF CancelCheck
      <4>2. CASE ~torn /\ rec.status = "cancel_requested"
        BY <2>0, <2>a, <3>1, <3>2, <4>2 DEF CancelCheck, Goto
      <4>3. CASE ~torn /\ rec.status # "cancel_requested"
        <5>1. rec.status \notin {"cancel_requested"} \cup Terminal
          BY <3>2, <4>3 DEF CancelCheck, WorkerAt, LifeInv, WorkerKnowsStatus, Body, InOperation,
                            Terminal
        <5>2. ~accepted /\ since = 0
          BY <5>1 DEF CancelInv
        <5> QED
          BY <3>1, <3>2, <5>2 DEF CancelCheck, CancelInv
      <4> QED
        BY <4>1, <4>2, <4>3
    <3>3. CASE BeginChunk
      <4>1. since = 0 /\ pc'[Worker] = "chunk" /\ accepted' = accepted
            /\ since' = IF accepted THEN since + 1 ELSE since
        BY <2>0, <3>3 DEF BeginChunk, WorkerAt, CancelInv, Goto
      <4> QED
        BY <3>1, <4>1 DEF CancelInv
    <3>4. ASSUME \/ Launch \/ StartTranscript \/ NextOp \/ Dispatch \/ ChunkDone \/ Report
                 \/ RunOnce \/ Health \/ Finally
          PROVE  CancelInv'
      BY <2>0, <2>a, <3>1, <3>4
      DEF Launch, StartTranscript, NextOp, Dispatch, ChunkDone, Report, RunOnce, Health, Finally,
        Goto
    <3>5. CASE ProductFails
      BY <2>0, <2>b, <3>1, <3>5 DEF ProductFails
    <3>6. ASSUME NEW place, NEW there \in {"cancelled", "failed"}, Handle(place, there)
          PROVE  CancelInv'
      BY <2>0, <2>a, <2>b, <3>1, <3>6 DEF Handle, Goto
    <3> QED
      BY <2>7, <3>2, <3>3, <3>4, <3>5, <3>6 DEF WorkerStep
  <2>8. ASSUME NEW c \in Clients,
               \/ GetRun(c) \/ WaitRound(c) \/ WaitTimeout(c)
               \/ \E o \in {"cancel", "get", "list", "wait"} : Call(c, o)
        PROVE  CancelInv'
    BY <2>0, <2>8, <2>a, ActorsApart, RunAssumption DEF GetRun, WaitRound, WaitTimeout, Call, Goto
  <2> QED
    BY <2>1, <2>2, <2>3, <2>4, <2>5, <2>6, <2>7, <2>8 DEF Next, Own, Update
<1>3. CancelInv => CancelTakesEffect
  BY DEF CancelInv, CancelTakesEffect
<1> QED
  BY <1>1, <1>2, <1>3, LifeInvariant, PTL DEF Spec

-----------------------------------------------------------------------------
(* What is written.  Whoever holds run.lock is about to write what its     *)
(* mutator makes of the record as it is now, not as it once was: nobody    *)
(* else writes in between, and the first record is written before anyone   *)
(* can hold the lock.                                                      *)

HolderKnowsRecord == \A a \in Actors : stage[a] # "none" => got[a] = Mutate(pc[a], rec)

\* The worker knows every checkpoint of the record, and the record begins blank.
CheckpointsKnown == rec.ckpts \subseteq w.ckpts
BlankFirst == rec.status = "none" => rec = NoRecord

RecordInv == HolderKnowsRecord /\ CheckpointsKnown /\ BlankFirst

\* What each mutator does to the pid, the progress and the summary.
LEMMA MutateRest ==
  ASSUME TypeOK, NEW place \in Updates, NEW r \in Records
  PROVE  /\ r.pid => Mutate(place, r).pid
         /\ place \in {"notePid", "cancel", "noteTranscript", "merge"}
              => Mutate(place, r).progress = r.progress
         /\ place \in {"markStarting", "succeed"} => Mutate(place, r).progress = NoProgress
         /\ place = "announce" => Mutate(place, r).progress = [op |-> w.op, units |-> 0]
         /\ place = "progress" => Mutate(place, r).progress = [op |-> w.op, units |-> w.completed]
         /\ place \in {"cancelled", "failed"} => Mutate(place, r).progress = w.held
         /\ Mutate(place, r).ckpts =
              IF place \in {"noteTranscript", "merge", "succeed", "cancelled", "failed"}
              THEN w.ckpts ELSE r.ckpts
<1>1. r = [status |-> r.status, pid |-> r.pid, ckpts |-> r.ckpts, progress |-> r.progress]
  BY DEF Records
<1> QED
  BY <1>1 DEF Mutate, Updates, WorkerUpdates, RequestCancel, Keep, End

\* The starter's and the clients' updates have nothing to do with the worker's locals.
LEMMA OthersUpdate ==
  ASSUME NEW r
  PROVE  /\ Mutate("notePid", r) = [r EXCEPT !.pid = TRUE]
         /\ Mutate("cancel", r) = RequestCancel(r)
BY DEF Mutate

\* An actor that is not the worker updates at one of two places.
LEMMA OthersHold ==
  ASSUME TypeInv, LifeInv, RunAssumption, NEW a \in Actors \ {Worker}, stage[a] # "none"
  PROVE  pc[a] \in {"notePid", "cancel"}
BY WhoUpdates, ActorsApart DEF TypeInv, UpdateUnderWay, LifeInv

\* While nobody writes, who holds the lock still knows the record.
LEMMA HolderStep ==
  ASSUME TypeInv, LifeInv, RecordInv, RunAssumption, rec' = rec,
         \A a \in Actors : stage'[a] # "none" =>
           stage[a] # "none" /\ got'[a] = got[a] /\ pc'[a] = pc[a],
         w' = w \/ stage'[Worker] = "none"
  PROVE  HolderKnowsRecord'
<1> SUFFICES ASSUME NEW a \in Actors, stage'[a] # "none"
             PROVE  got'[a] = Mutate(pc[a], rec)'
  BY DEF HolderKnowsRecord
<1>1. got'[a] = Mutate(pc[a], rec) /\ pc'[a] = pc[a] /\ stage[a] # "none"
  BY DEF RecordInv, HolderKnowsRecord
<1>2. CASE w' = w
  BY <1>1, <1>2 DEF Mutate, End
<1>3. CASE a # Worker
  <2>1. pc[a] \in {"notePid", "cancel"}
    BY <1>1, <1>3, OthersHold
  <2> QED
    BY <1>1, <2>1 DEF Mutate
<1> QED
  BY <1>2, <1>3

\* What is written is what the mutator makes of the record it replaces.
LEMMA WriteRecord ==
  ASSUME TypeInv, LifeInv, RecordInv, RunAssumption, NEW a \in Actors, Write(a)
  PROVE  /\ pc[a] \in Updates /\ rec \in Records /\ rec.status # "none"
         /\ rec' = Mutate(pc[a], rec) /\ rec'.status = StatusAfter(pc[a], rec.status)
         /\ pc' = [pc EXCEPT ![a] = AfterUpdate(pc[a])]
         /\ \A b \in Actors : stage'[b] = "none"
         /\ UNCHANGED <<w, executed>>
         /\ a # Worker => pc'[Worker] = pc[Worker] /\ pc[a] \in {"notePid", "cancel"}
<1>1. stage[a] = "cut" /\ rec' = got[a] /\ UNCHANGED <<w, executed>>
  BY DEF Write
<1>2. rec' = Mutate(pc[a], rec)
  BY <1>1 DEF RecordInv, HolderKnowsRecord
<1>3. a # Worker => pc[a] \in {"notePid", "cancel"}
  BY <1>1, OthersHold
<1> QED
  BY <1>1, <1>2, <1>3, WriteStatus, ActorsApart DEF TypeInv, TypeOK

\* Writing keeps the invariant of the record.
LEMMA WriteKeepsRecord ==
  ASSUME TypeInv, LifeInv, RecordInv, RunAssumption, NEW a \in Actors, Write(a)
  PROVE  RecordInv' /\ rec.ckpts \subseteq rec'.ckpts /\ (rec.pid => rec'.pid)
<1>1. /\ pc[a] \in Updates /\ rec \in Records /\ rec' = Mutate(pc[a], rec) /\ w' = w
      /\ \A b \in Actors : stage'[b] = "none"
      /\ rec'.status = StatusAfter(pc[a], rec.status) /\ rec.status # "none"
  BY WriteRecord
<1>2. HolderKnowsRecord'
  BY <1>1 DEF HolderKnowsRecord
<1>3. (rec.pid => rec'.pid) /\ rec'.ckpts \in {rec.ckpts, w.ckpts}
  BY <1>1, MutateRest DEF TypeInv
<1>4. BlankFirst'
  BY <1>1 DEF BlankFirst, StatusAfter, Terminal, Updates, WorkerUpdates
<1> QED
  BY <1>1, <1>2, <1>3, <1>4 DEF RecordInv, CheckpointsKnown

\* A step that is no write leaves the record alone and takes nothing from what the
\* worker knows.
LEMMA QuietStep ==
  ASSUME TypeInv, RunAssumption, [Next]_vars, ~CreateWrite, \A a \in Actors : ~Write(a)
  PROVE  /\ rec' = rec /\ w.ckpts \subseteq w'.ckpts
         /\ w' = w \/ (stage'[Worker] = "none" /\ UNCHANGED <<stage, got>>)
<1> USE DEF fileVars
<1>0. rec' = rec
  BY StatusWriters
<1>1. CASE UNCHANGED vars
  BY <1>0, <1>1 DEF vars
<1>2. ASSUME NEW a \in Actors, Update(a) \/ LockTimeout(a) \/ Crash(a) PROVE w' = w
  BY <1>2 DEF Update, ReadLocked, ReadLockedTorn, Truncate, LockTimeout, Crash
<1>3. CASE WorkerStep
  <2>1. UNCHANGED <<stage, got>> /\ pc[Worker] \notin Updates
    BY <1>3 DEF WorkerStep, CancelCheck, Launch, StartTranscript, NextOp, Dispatch, BeginChunk,
                ChunkDone, Report, RunOnce, Health, ProductFails, Handle, Finally, WorkerAt,
                Updates, WorkerUpdates
  <2>2. stage[Worker] = "none"
    BY <2>1, ActorsApart DEF TypeInv, TypeOK, UpdateUnderWay
  <2>3. w \in [op : Nat \ {0}, completed : Nat, chunks : Nat, ckpts : SUBSET (Nat \X Nat),
               held : [op : Nat, units : Nat]]
    BY DEF TypeInv, TypeOK
  <2>4. \/ NextOp \/ ChunkDone \/ Report \/ \E place, there : Handle(place, there)
        \/ w' = w
    BY <1>3 DEF WorkerStep, CancelCheck, Launch, StartTranscript, Dispatch, BeginChunk, RunOnce,
                Health, ProductFails, Finally
  <2>5. w.ckpts \subseteq w'.ckpts
    <3>1. NextOp \/ ChunkDone => w'.ckpts = w.ckpts
      BY <2>3 DEF NextOp, ChunkDone
    <3>2. Report => w.ckpts \subseteq w'.ckpts
      BY <2>3 DEF Report
    <3>3. ASSUME NEW place, NEW there, Handle(place, there) PROVE w'.ckpts = w.ckpts
      BY <2>3, <3>3 DEF Handle
    <3> QED
      BY <2>4, <3>1, <3>2, <3>3
  <2> QED
    BY <1>0, <2>1, <2>2, <2>5
<1>4. CASE Create \/ Spawn \/ SpawnFailed
  BY <1>0, <1>4 DEF Create, Spawn, SpawnFailed
<1>5. ASSUME NEW c \in Clients, GetRun(c) \/ WaitRound(c) \/ WaitTimeout(c) PROVE w' = w
  BY <1>5 DEF GetRun, WaitRound, WaitTimeout
<1>6. ASSUME NEW c \in Clients, NEW o, Call(c, o) PROVE w' = w
  BY <1>6 DEF Call
<1> QED
  BY <1>0, <1>1, <1>2, <1>3, <1>4, <1>5, <1>6 DEF Next, Own

\* Nor does it tell whoever holds the lock anything else.
LEMMA QuietHold ==
  ASSUME TypeInv, LifeInv, RecordInv, RunAssumption, [Next]_vars, ~CreateWrite,
         \A a \in Actors : ~Write(a)
  PROVE  HolderKnowsRecord'
<1> USE DEF fileVars
<1> DEFINE Holding(a) == stage'[a] # "none" =>
                           stage[a] # "none" /\ got'[a] = got[a] /\ pc'[a] = pc[a]
<1>0. /\ rec' = rec
      /\ w' = w \/ stage'[Worker] = "none"
      /\ stage \in [Actors -> {"none", "read", "cut"}] /\ got \in [Actors -> Records]
      /\ pc \in [Actors -> Places]
  BY QuietStep DEF TypeInv, TypeOK
<1>1. ASSUME NEW a \in Actors, ReadLocked(a) PROVE HolderKnowsRecord'
  <2>1. \A b \in Actors \ {a} : stage[b] = "none"
    BY <1>1, ActorsApart DEF ReadLocked, LifeInv, HolderKnowsStatus
  <2>2. stage'[a] = "read" /\ \A b \in Actors \ {a} : stage'[b] = "none"
    BY <1>0, <1>1, <2>1 DEF ReadLocked
  <2>3. got'[a] = Mutate(pc[a], rec) /\ UNCHANGED <<rec, pc, w>>
    BY <1>0, <1>1 DEF ReadLocked
  <2>4. Mutate(pc[a], rec)' = Mutate(pc[a], rec)
    BY <2>3 DEF Mutate, End
  <2> QED
    BY <2>2, <2>3, <2>4 DEF HolderKnowsRecord
<1>2. ASSUME NEW a \in Actors, \/ ReadLockedTorn(a) \/ LockTimeout(a) \/ Truncate(a) \/ Crash(a)
                               \/ a = Worker /\ WorkerStep
                               \/ a = Starter /\ (Create \/ Spawn \/ SpawnFailed)
                               \/ a \in Clients /\ (GetRun(a) \/ WaitRound(a) \/ WaitTimeout(a))
                               \/ a \in Clients /\ \E o : Call(a, o)
      PROVE  \A b \in Actors : Holding(b)
  <2>1. CASE ReadLockedTorn(a) \/ LockTimeout(a)
    BY <1>0, <2>1 DEF ReadLockedTorn, LockTimeout, Unwind, Goto
  <2>2. CASE Truncate(a)
    BY <1>0, <2>2 DEF Truncate
  <2>3. CASE Crash(a)
    BY <1>0, <2>3 DEF Crash, Goto
  <2>4. CASE a = Worker /\ WorkerStep
    <3>1. \A b \in Actors \ {Worker} : pc'[b] = pc[b]
      BY <1>0, <2>4
      DEF WorkerStep, CancelCheck, Launch, StartTranscript, NextOp, Dispatch, BeginChunk,
        ChunkDone,
          Report, RunOnce, Health, ProductFails, Handle, Finally, Unwind, Goto
    <3>2. UNCHANGED <<stage, got>> /\ pc[Worker] \notin Updates
      BY <2>4 DEF WorkerStep, CancelCheck, Launch, StartTranscript, NextOp, Dispatch, BeginChunk,
                  ChunkDone, Report, RunOnce, Health, ProductFails, Handle, Finally, WorkerAt,
                  Updates, WorkerUpdates
    <3> QED
      BY <3>1, <3>2, ActorsApart DEF TypeInv, UpdateUnderWay
  <2>5. CASE a = Starter /\ (Create \/ Spawn \/ SpawnFailed)
    <3>1. /\ UNCHANGED <<stage, got>> /\ pc[Starter] \notin Updates
          /\ \A b \in Actors \ {Starter, Worker} : pc'[b] = pc[b]
          /\ pc'[Worker] = pc[Worker] \/ pc[Starter] = "spawn"
      BY <1>0, <2>5, ActorsApart DEF Create, Spawn, SpawnFailed, Goto, Updates, WorkerUpdates
    <3>2. pc[Starter] = "spawn" => pc[Worker] \notin Updates
      BY DEF LifeInv, RecordComesFirst, Updates, WorkerUpdates
    <3> QED
      BY <3>1, <3>2 DEF TypeInv, UpdateUnderWay
  <2>6. CASE a \in Clients
    BY <1>0, <1>2, <2>6, <2>1, <2>2, <2>3, ActorsApart
    DEF GetRun, WaitRound, WaitTimeout, Call, Goto, TypeInv, UpdateUnderWay, Updates,
      WorkerUpdates
  <2> QED
    BY <1>2, <2>1, <2>2, <2>3, <2>4, <2>5, <2>6
<1>3. CASE \A b \in Actors : Holding(b)
  BY <1>0, <1>3, HolderStep
<1>4. CASE UNCHANGED vars
  BY <1>3, <1>4 DEF vars
<1> HIDE DEF Holding
<1> QED
  BY <1>1, <1>2, <1>3, <1>4, ActorsApart DEF Next, Own, Update

\* The record is what its writers meant it to be.
LEMMA RecordInvariant == Spec => []RecordInv
<1>1. Init => RecordInv
  BY DEF Init, RecordInv, HolderKnowsRecord, CheckpointsKnown, BlankFirst, NoRecord
<1>2. TypeInv /\ LifeInv /\ RecordInv /\ [Next]_vars => RecordInv'
  <2> SUFFICES ASSUME TypeInv, LifeInv, RecordInv, [Next]_vars PROVE RecordInv'
    OBVIOUS
  <2>1. ASSUME NEW a \in Actors, Write(a) PROVE RecordInv'
    BY <2>1, WriteKeepsRecord, RunAssumption
  <2>2. CASE CreateWrite
    <3>1. \A a \in Actors : stage[a] = "none"
      BY <2>2, OthersHold, WhoUpdates, ActorsApart, RunAssumption
      DEF CreateWrite, LifeInv, RecordComesFirst, TypeInv, TypeOK, UpdateUnderWay, Updates,
          WorkerUpdates
    <3>2. rec' = [NoRecord EXCEPT !.status = "queued"] /\ stage' = stage
      BY <2>2 DEF CreateWrite
    <3> QED
      BY <3>1, <3>2 DEF RecordInv, HolderKnowsRecord, CheckpointsKnown, BlankFirst, NoRecord
  <2>3. CASE ~CreateWrite /\ \A a \in Actors : ~Write(a)
    BY <2>3, QuietStep, QuietHold, RunAssumption DEF RecordInv, CheckpointsKnown, BlankFirst
  <2> QED
    BY <2>1, <2>2, <2>3
<1> QED
  BY <1>1, <1>2, LifeInvariant, PTL DEF Spec

\* Starter, worker and clients never undo each other's updates, whatever their order.
THEOREM UpdatesKept == Spec => NothingLost
<1>1. TypeInv /\ LifeInv /\ RecordInv /\ [Next]_vars
        => [rec.ckpts \subseteq rec'.ckpts /\ (rec.pid => rec'.pid)]_vars
  <2> SUFFICES ASSUME TypeInv, LifeInv, RecordInv, [Next]_vars
               PROVE  rec.ckpts \subseteq rec'.ckpts /\ (rec.pid => rec'.pid)
    OBVIOUS
  <2>1. ASSUME NEW a \in Actors, Write(a)
        PROVE  rec.ckpts \subseteq rec'.ckpts /\ (rec.pid => rec'.pid)
    BY <2>1, WriteKeepsRecord, RunAssumption
  <2>2. CASE CreateWrite
    BY <2>2 DEF CreateWrite, LifeInv, RecordComesFirst, RecordInv, BlankFirst, NoRecord
  <2>3. CASE ~CreateWrite /\ \A a \in Actors : ~Write(a)
    BY <2>3, QuietStep, RunAssumption
  <2> QED
    BY <2>1, <2>2, <2>3
<1> QED
  BY <1>1, LifeInvariant, RecordInvariant, PTL DEF Spec, NothingLost

-----------------------------------------------------------------------------
(* What is done.  Every operation before the one in hand was done in full, *)
(* none after it was begun; of a chunked one as many units as the worker   *)
(* counts, in chunks that are full except the last; and the checkpoints    *)
(* the worker knows are those due so far.                                  *)

Working == {"none", "markStarting"} \cup Body
OnceAt == {"announce", "run", "health"}
ChunkedAt == {"check", "begin", "chunk", "report", "progress"}
OnceDoneAt == {"health", "merge", "nextOp"}

Size(o) == IF o.chunk = 0 THEN o.total ELSE o.chunk
Whole(o) == IF o.mode = "once" THEN 1 ELSE o.total
Due(o, k) == o.mode = "chunked" /\ o.every > 0 /\ k % o.every = 0

EachDone ==
  \A i \in DOMAIN Program : /\ i < w.op => executed[i] = Whole(Program[i])
                            /\ i > w.op => executed[i] = 0

\* The operation in hand, if it is done at once.
OnceDone ==
  w.op \in DOMAIN Program /\ Program[w.op].mode = "once" =>
    /\ w.completed = 0 /\ w.chunks = 0
    /\ pc[Worker] \in Working => executed[w.op] = IF pc[Worker] \in OnceDoneAt THEN 1 ELSE 0
    /\ pc[Worker] \notin ChunkedAt

\* And if it is done in chunks.
ChunksDone ==
  w.op \in DOMAIN Program /\ Program[w.op].mode = "chunked" =>
    LET o == Program[w.op]
    IN /\ executed[w.op] = w.completed /\ w.completed <= o.total
       /\ w.completed = o.total => o.total <= w.chunks * Size(o)
       /\ w.completed < o.total => w.completed = w.chunks * Size(o)
       /\ w.chunks > 0 => (w.chunks - 1) * Size(o) < o.total
       /\ pc[Worker] \notin OnceAt
       /\ pc[Worker] = "nextOp" => w.completed = o.total
       /\ pc[Worker] = "report" => w.chunks > 0

\* The chunk in hand is checkpointed by the step that reports it.
Recorded == IF pc[Worker] = "report" THEN w.chunks - 1 ELSE w.chunks

CheckpointsDone ==
  pc[Worker] \in Working =>
    \A i \in Nat, k \in Nat : <<i, k>> \in w.ckpts <=>
      /\ i \in DOMAIN Program /\ k > 0 /\ Due(Program[i], k)
      /\ (i < w.op /\ k <= Chunks(Program[i])) \/ (i = w.op /\ k <= Recorded)

WorkInv == EachDone /\ OnceDone /\ ChunksDone /\ CheckpointsDone

\* Full chunks but for the last: their number is the total over the size, rounded up.
LEMMA ChunkCount ==
  ASSUME NEW t \in Nat, NEW s \in Nat, NEW k \in Nat,
         t <= k * s, k > 0 => (k - 1) * s < t
  PROVE  k = IF t = 0 THEN 0 ELSE (t + s - 1) \div s
<1>1. CASE t = 0
  <2>1. k > 0 => (k - 1) * s >= 0
    OBVIOUS
  <2> QED
    BY <1>1, <2>1
<1>2. CASE t > 0
  <2>1. k > 0 /\ s > 0
    BY <1>2
  <2> QED
    BY <1>2, <2>1
<1> QED
  BY <1>1, <1>2

\* A move of the worker that does no work keeps the invariant.
LEMMA MoveWork ==
  ASSUME TypeInv, WorkInv, UNCHANGED <<w, executed>>,
         \/ pc'[Worker] = pc[Worker]
         \/ pc'[Worker] \notin Working
         \/ /\ pc[Worker] \in Working \ {"report"} /\ pc'[Worker] # "report"
            /\ w.op \in DOMAIN Program /\ Program[w.op].mode = "once" =>
                 /\ pc'[Worker] \notin ChunkedAt
                 /\ pc[Worker] \in OnceDoneAt <=> pc'[Worker] \in OnceDoneAt
            /\ w.op \in DOMAIN Program /\ Program[w.op].mode = "chunked" =>
                 /\ pc'[Worker] \notin OnceAt
                 /\ pc'[Worker] = "nextOp" => w.completed = Program[w.op].total
  PROVE  WorkInv'
<1>1. EachDone'
  BY DEF WorkInv, EachDone
<1>2. OnceDone'
  BY DEF WorkInv, OnceDone, ChunkedAt, Working, Body, InOperation
<1>3. ChunksDone'
  BY DEF WorkInv, ChunksDone, OnceAt, Working, Body, InOperation
<1>4. CheckpointsDone'
  BY DEF WorkInv, CheckpointsDone, Recorded
<1> QED
  BY <1>1, <1>2, <1>3, <1>4 DEF WorkInv

\* What every operation of the program is like.
LEMMA ProgramTypes ==
  ASSUME RunAssumption, NEW i \in DOMAIN Program
  PROVE  /\ i \in Nat \ {0} /\ i <= Len(Program) /\ Program[i] \in Operations
         /\ Program[i].total \in Nat /\ Size(Program[i]) \in Nat
         /\ Program[i].mode \in {"once", "chunked"}
<1>1. i \in Nat \ {0} /\ i <= Len(Program) /\ Program[i] \in Operations
  BY DEF RunAssumption
<1>2. \A o \in Operations : o.total \in Nat /\ Size(o) \in Nat /\ o.mode \in {"once", "chunked"}
  BY DEF Operations, Size
<1> QED
  BY <1>1, <1>2

\* What the types say of the worker, its operations and its work.
LEMMA WorkerTypes ==
  ASSUME TypeInv, RunAssumption
  PROVE  /\ pc \in [Actors -> Places] /\ Worker \in Actors
         /\ executed \in [DOMAIN Program -> Nat] /\ w.ckpts \in SUBSET (Nat \X Nat)
         /\ w.op \in Nat \ {0} /\ w.completed \in Nat /\ w.chunks \in Nat
         /\ pc[Worker] \in InOperation => w.op \in DOMAIN Program
         /\ pc[Worker] \in {"check", "begin", "chunk"} => w.completed < Program[w.op].total
         /\ \A i \in DOMAIN Program :
              /\ i \in Nat /\ Program[i] \in Operations /\ Program[i].total \in Nat
              /\ Size(Program[i]) \in Nat /\ Program[i].mode \in {"once", "chunked"}
<1>1. \A i \in DOMAIN Program :
        /\ i \in Nat /\ Program[i] \in Operations /\ Program[i].total \in Nat
        /\ Size(Program[i]) \in Nat /\ Program[i].mode \in {"once", "chunked"}
  BY ProgramTypes
<1> QED
  BY <1>1, ActorsApart DEF TypeInv, TypeOK, OperationInHand

\* The worker counts a chunk it has done.
LEMMA ChunkWork ==
  ASSUME TypeInv, WorkInv, RunAssumption, ChunkDone
  PROVE  WorkInv'
<1> DEFINE o == Program[w.op]
<1> DEFINE z == ChunkSize(o)
<1>1. /\ w.op \in DOMAIN Program /\ w.op \in Nat /\ w.completed \in Nat /\ w.chunks \in Nat
      /\ w.completed < o.total /\ pc[Worker] = "chunk" /\ o \in Operations
      /\ executed \in [DOMAIN Program -> Nat] /\ pc \in [Actors -> Places] /\ Worker \in Actors
  BY WorkerTypes DEF ChunkDone, WorkerAt, InOperation
<1>2. o.mode = "chunked"
  BY <1>1 DEF WorkInv, OnceDone, ChunkedAt, Operations
<1>3. w.completed = w.chunks * Size(o) /\ executed[w.op] = w.completed
  BY <1>1, <1>2 DEF WorkInv, ChunksDone
<1>4. o.total \in Nat /\ Size(o) \in Nat
  BY <1>1 DEF Operations, Size
<1>5. z = IF Size(o) < o.total - w.completed THEN Size(o) ELSE o.total - w.completed
  BY DEF ChunkSize, Size
<1>6. /\ w' = [w EXCEPT !.completed = w.completed + z, !.chunks = w.chunks + 1]
      /\ executed' = [executed EXCEPT ![w.op] = executed[w.op] + z]
      /\ pc'[Worker] = "report"
  BY <1>1 DEF ChunkDone, Current, Goto
<1> HIDE DEF z
<1>7. /\ z \in Nat /\ w.completed + z <= o.total
      /\ w.completed + z = o.total => o.total <= (w.chunks + 1) * Size(o)
      /\ w.completed + z < o.total => w.completed + z = (w.chunks + 1) * Size(o)
      /\ w.chunks * Size(o) < o.total
  <2> DEFINE s == Size(o)
  <2> DEFINE t == o.total
  <2> DEFINE c == w.completed
  <2> DEFINE k == w.chunks
  <2>1. /\ s \in Nat /\ t \in Nat /\ c \in Nat /\ k \in Nat /\ c < t /\ c = k * s
        /\ z = IF s < t - c THEN s ELSE t - c
    BY <1>1, <1>3, <1>4, <1>5
  <2> HIDE DEF s, t, c, k
  <2>2. (k + 1) * s = k * s + s
    BY <2>1
  <2>3. /\ z \in Nat /\ c + z <= t
        /\ c + z = t => t <= (k + 1) * s
        /\ c + z < t => c + z = (k + 1) * s
        /\ k * s < t
    BY <2>1, <2>2
  <2> QED
    BY <2>3 DEF s, t, c, k
<1>8. /\ w'.op = w.op /\ w'.completed = w.completed + z /\ w'.chunks = w.chunks + 1
      /\ w'.ckpts = w.ckpts
  BY <1>6 DEF TypeInv, TypeOK
<1>9. EachDone'
  BY <1>1, <1>6, <1>8 DEF WorkInv, EachDone
<1>10. OnceDone'
  BY <1>2, <1>8 DEF OnceDone
<1>11. ChunksDone'
  <2>1. executed'[w.op] = w'.completed
    BY <1>1, <1>3, <1>6, <1>8
  <2>2. w'.chunks - 1 = w.chunks /\ w'.chunks > 0 /\ w'.op = w.op
    <3>1. w.chunks \in Nat /\ w'.chunks = w.chunks + 1 /\ w'.op = w.op
      BY <1>1, <1>8
    <3> QED
      BY <3>1
  <2>3. /\ w'.completed <= o.total
        /\ w'.completed = o.total => o.total <= w'.chunks * Size(o)
        /\ w'.completed < o.total => w'.completed = w'.chunks * Size(o)
        /\ w'.chunks > 0 => (w'.chunks - 1) * Size(o) < o.total
    BY <1>7, <1>8, <2>2
  <2> QED
    BY <1>6, <2>1, <2>2, <2>3 DEF ChunksDone, OnceAt
<1>12. CheckpointsDone'
  <2>1. Recorded = w.chunks /\ Recorded' = w.chunks
    BY <1>1, <1>6, <1>8 DEF Recorded
  <2> QED
    BY <1>1, <1>8, <2>1 DEF WorkInv, CheckpointsDone, Working, Body, InOperation
<1> QED
  BY <1>9, <1>10, <1>11, <1>12 DEF WorkInv

\* It reports the chunk, with a checkpoint if one is due.
LEMMA ReportWork ==
  ASSUME TypeInv, WorkInv, RunAssumption, Report
  PROVE  WorkInv'
<1> DEFINE o == Program[w.op]
<1>1. /\ w.op \in DOMAIN Program /\ w.op \in Nat /\ w.chunks \in Nat
      /\ pc[Worker] = "report" /\ o \in Operations
      /\ pc \in [Actors -> Places] /\ Worker \in Actors
      /\ w.ckpts \in SUBSET (Nat \X Nat)
  BY WorkerTypes DEF Report, WorkerAt, InOperation
<1>2. o.mode = "chunked"
  BY <1>1 DEF WorkInv, OnceDone, ChunkedAt, Operations
<1>3. /\ w'.op = w.op /\ w'.completed = w.completed /\ w'.chunks = w.chunks
      /\ w'.ckpts = IF o.every > 0 /\ w.chunks % o.every = 0
                    THEN w.ckpts \cup {<<w.op, w.chunks>>} ELSE w.ckpts
      /\ executed' = executed /\ pc'[Worker] = "merge"
  BY <1>1 DEF Report, CheckpointDue, Current, Goto, TypeInv, TypeOK
<1>4. EachDone' /\ OnceDone' /\ ChunksDone'
  BY <1>2, <1>3 DEF WorkInv, EachDone, OnceDone, ChunksDone, OnceAt
<1>5. w.chunks > 0
  BY <1>1, <1>2 DEF WorkInv, ChunksDone
<1>6. CheckpointsDone'
  <2> SUFFICES ASSUME NEW i \in Nat, NEW k \in Nat
               PROVE  <<i, k>> \in w'.ckpts <=>
                        /\ i \in DOMAIN Program /\ k > 0 /\ Due(Program[i], k)
                        /\ (i < w.op /\ k <= Chunks(Program[i])) \/ (i = w.op /\ k <= w.chunks)
    BY <1>3 DEF CheckpointsDone, Recorded
  <2>1. <<i, k>> \in w.ckpts <=>
          /\ i \in DOMAIN Program /\ k > 0 /\ Due(Program[i], k)
          /\ (i < w.op /\ k <= Chunks(Program[i])) \/ (i = w.op /\ k <= w.chunks - 1)
    BY <1>1 DEF WorkInv, CheckpointsDone, Recorded, Working, Body, InOperation
  <2>2. <<i, k>> = <<w.op, w.chunks>> <=> i = w.op /\ k = w.chunks
    OBVIOUS
  <2>3. CASE i = w.op /\ k = w.chunks
    BY <1>1, <1>2, <1>3, <1>5, <2>1, <2>2, <2>3 DEF Due
  <2>4. CASE ~(i = w.op /\ k = w.chunks)
    BY <1>1, <1>3, <2>1, <2>2, <2>4
  <2> QED
    BY <2>3, <2>4
<1> QED
  BY <1>4, <1>6 DEF WorkInv

\* An operation done at once is done.
LEMMA OnceWork ==
  ASSUME TypeInv, WorkInv, RunAssumption, RunOnce
  PROVE  WorkInv'
<1>1. /\ w.op \in DOMAIN Program /\ w.op \in Nat /\ pc[Worker] = "run"
      /\ Program[w.op] \in Operations /\ pc \in [Actors -> Places] /\ Worker \in Actors
      /\ executed \in [DOMAIN Program -> Nat]
  BY WorkerTypes DEF RunOnce, WorkerAt, InOperation
<1>2. Program[w.op].mode = "once"
  BY <1>1 DEF WorkInv, ChunksDone, OnceAt, Operations
<1>3. w' = w /\ executed' = [executed EXCEPT ![w.op] = 1] /\ pc'[Worker] = "health"
  BY <1>1 DEF RunOnce, Goto
<1>4. EachDone' /\ ChunksDone'
  BY <1>1, <1>2, <1>3 DEF WorkInv, EachDone, ChunksDone
<1>5. OnceDone'
  BY <1>1, <1>2, <1>3 DEF WorkInv, OnceDone, OnceDoneAt, ChunkedAt
<1>6. CheckpointsDone'
  BY <1>1, <1>3 DEF WorkInv, CheckpointsDone, Recorded, Working, Body, InOperation
<1> QED
  BY <1>4, <1>5, <1>6 DEF WorkInv

\* The worker goes on to the next operation when the one in hand is done in full.
LEMMA NextWork ==
  ASSUME TypeInv, WorkInv, RunAssumption, NextOp
  PROVE  WorkInv'
<1> DEFINE o == Program[w.op]
<1>1. /\ w.op \in DOMAIN Program /\ w.op \in Nat /\ w.chunks \in Nat /\ w.completed \in Nat
      /\ pc[Worker] = "nextOp" /\ o \in Operations
      /\ pc \in [Actors -> Places] /\ Worker \in Actors
      /\ executed \in [DOMAIN Program -> Nat]
  BY WorkerTypes DEF NextOp, WorkerAt, InOperation
<1>2. /\ w'.op = w.op + 1 /\ w'.completed = 0 /\ w'.chunks = 0 /\ w'.ckpts = w.ckpts
      /\ executed' = executed /\ pc'[Worker] = "op"
  BY <1>1 DEF NextOp, Goto, TypeInv, TypeOK
<1>3. executed[w.op] = Whole(o)
  <2>1. CASE o.mode = "once"
    BY <1>1, <2>1 DEF WorkInv, OnceDone, OnceDoneAt, Whole, Working, Body, InOperation
  <2>2. CASE o.mode = "chunked"
    BY <1>1, <2>2 DEF WorkInv, ChunksDone, Whole
  <2> QED
    BY <1>1, <2>1, <2>2 DEF Operations
<1>4. o.mode = "chunked" => w.chunks = Chunks(o)
  <2> SUFFICES ASSUME o.mode = "chunked" PROVE w.chunks = Chunks(o)
    OBVIOUS
  <2>1. o.total \in Nat /\ Size(o) \in Nat
    BY <1>1 DEF Operations, Size
  <2>2. o.total <= w.chunks * Size(o) /\ (w.chunks > 0 => (w.chunks - 1) * Size(o) < o.total)
    BY <1>1 DEF WorkInv, ChunksDone
  <2>3. w.chunks = IF o.total = 0 THEN 0 ELSE (o.total + Size(o) - 1) \div Size(o)
    BY <1>1, <2>1, <2>2, ChunkCount
  <2> QED
    BY <2>3 DEF Chunks, Size
<1>5. \A i \in DOMAIN Program : i \in Nat
  BY DEF RunAssumption
<1>6. EachDone'
  BY <1>1, <1>2, <1>3, <1>5 DEF WorkInv, EachDone
<1>7. w.op + 1 \in DOMAIN Program => executed[w.op + 1] = 0
  BY <1>1 DEF WorkInv, EachDone
<1>8. OnceDone'
  BY <1>2, <1>7 DEF OnceDone, OnceDoneAt, ChunkedAt
<1>9. ChunksDone'
  <2>1. w.op + 1 \in DOMAIN Program =>
          Program[w.op + 1].total \in Nat /\ Size(Program[w.op + 1]) \in Nat
    BY WorkerTypes
  <2>2. w.op + 1 \in DOMAIN Program => 0 * Size(Program[w.op + 1]) = 0
    BY <2>1
  <2> QED
    BY <1>2, <1>7, <2>1, <2>2 DEF ChunksDone, OnceAt
<1>10. CheckpointsDone'
  <2> SUFFICES ASSUME NEW i \in Nat, NEW k \in Nat
               PROVE  <<i, k>> \in w.ckpts <=>
                        /\ i \in DOMAIN Program /\ k > 0 /\ Due(Program[i], k)
                        /\ \/ i < w.op + 1 /\ k <= Chunks(Program[i])
                           \/ i = w.op + 1 /\ k <= 0
    BY ZenonT(60), <1>2 DEF CheckpointsDone, Recorded
  <2>1. <<i, k>> \in w.ckpts <=>
          /\ i \in DOMAIN Program /\ k > 0 /\ Due(Program[i], k)
          /\ (i < w.op /\ k <= Chunks(Program[i])) \/ (i = w.op /\ k <= w.chunks)
    BY <1>1 DEF WorkInv, CheckpointsDone, Recorded, Working, Body, InOperation
  <2>2. CASE i = w.op
    BY <1>1, <1>4, <2>1, <2>2 DEF Due
  <2>3. CASE i # w.op
    BY <1>1, <2>1, <2>3
  <2> QED
    BY <2>2, <2>3
<1> QED
  BY <1>6, <1>8, <1>9, <1>10 DEF WorkInv

\* Writing an update moves the worker on and does no work.
LEMMA WriteWork ==
  ASSUME TypeInv, LifeInv, RecordInv, WorkInv, RunAssumption, NEW a \in Actors, Write(a)
  PROVE  WorkInv'
<1>1. /\ UNCHANGED <<w, executed>> /\ pc[a] \in Updates
      /\ pc' = [pc EXCEPT ![a] = AfterUpdate(pc[a])]
      /\ a # Worker => pc'[Worker] = pc[Worker]
  BY WriteRecord
<1>2. CASE a # Worker
  BY <1>1, <1>2, MoveWork
<1>3. CASE a = Worker
  <2>1. pc[Worker] \in WorkerUpdates /\ pc'[Worker] = AfterUpdate(pc[Worker])
    BY <1>1, <1>3, WhoUpdates, WorkerTypes DEF LifeInv
  <2>2. pc[Worker] = "merge" => w.op \in DOMAIN Program
    BY WorkerTypes DEF InOperation
  <2>3. w.op \in DOMAIN Program => /\ Program[w.op].mode = "once" => pc[Worker] \notin ChunkedAt
                                   /\ Program[w.op].mode = "chunked" => pc[Worker] \notin OnceAt
    BY DEF WorkInv, OnceDone, ChunksDone
  <2>4. pc[Worker] \in {"succeed", "cancelled", "failed"} => pc'[Worker] \notin Working
    BY <2>1 DEF AfterUpdate, Working, Body, InOperation
  <2>5. pc[Worker] \in WorkerUpdates \ {"succeed", "cancelled", "failed"} =>
          /\ pc[Worker] \in Working \ {"report"} /\ pc'[Worker] # "report"
          /\ w.op \in DOMAIN Program /\ Program[w.op].mode = "once" =>
               /\ pc'[Worker] \notin ChunkedAt
               /\ pc[Worker] \in OnceDoneAt <=> pc'[Worker] \in OnceDoneAt
          /\ w.op \in DOMAIN Program /\ Program[w.op].mode = "chunked" =>
               pc'[Worker] \notin OnceAt \cup {"nextOp"}
    BY <2>1, <2>2, <2>3
    DEF WorkerUpdates, AfterUpdate, Working, Body, InOperation, ChunkedAt, OnceAt, OnceDoneAt
  <2> QED
    BY <1>1, <2>1, <2>4, <2>5, MoveWork
<1> QED
  BY <1>2, <1>3

\* The worker's other steps do no work either, and lead where the operation says.
LEMMA WorkerWork ==
  ASSUME TypeInv, LifeInv, WorkInv, RunAssumption, WorkerStep
  PROVE  WorkInv'
<1>0. pc \in [Actors -> Places] /\ Worker \in Actors
  BY WorkerTypes
<1>1. ASSUME Unwind(Worker), UNCHANGED <<w, executed>> PROVE WorkInv'
  <2>1. pc'[Worker] \notin Working
    BY <1>0, <1>1 DEF Unwind, Goto, Working, Body, InOperation
  <2> QED
    BY <1>1, <2>1, MoveWork
<1>2. w.op \in DOMAIN Program => /\ Program[w.op].mode = "once" => pc[Worker] \notin ChunkedAt
                                 /\ Program[w.op].mode = "chunked" => pc[Worker] \notin OnceAt
  BY DEF WorkInv, OnceDone, ChunksDone
<1> USE DEF WorkerAt, Goto, Working, Body, InOperation, ChunkedAt, OnceAt, OnceDoneAt
<1>3. ASSUME NEW place, NEW there,
             <<place, there>> \in {<<"firstCheck", "launch">>, <<"check", "begin">>},
             CancelCheck(place, there)
      PROVE  WorkInv'
  <2>1. CASE torn
    BY <1>1, <1>3, <2>1 DEF CancelCheck
  <2>2. CASE ~torn
    <3>1. /\ pc[Worker] = place /\ UNCHANGED <<w, executed>>
          /\ pc'[Worker] \in {"readCancelled", there}
      BY <1>0, <1>3, <2>2 DEF CancelCheck
    <3> QED
      BY <1>2, <1>3, <3>1, MoveWork
  <2> QED
    BY <2>1, <2>2
<1>4. CASE Launch \/ StartTranscript \/ BeginChunk
  <2>1. /\ UNCHANGED <<w, executed>>
        /\ \/ pc[Worker] = "launch" /\ pc'[Worker] \in {"transcript", "op"}
           \/ pc[Worker] = "transcript" /\ pc'[Worker] = "noteTranscript"
           \/ pc[Worker] = "begin" /\ pc'[Worker] = "chunk"
    BY <1>0, <1>4 DEF Launch, StartTranscript, BeginChunk
  <2> QED
    BY <1>2, <2>1, MoveWork
<1>5. CASE Health
  <2>1. UNCHANGED <<w, executed>> /\ pc[Worker] = "health" /\ pc'[Worker] = "merge"
    BY <1>0, <1>5 DEF Health
  <2> QED
    BY <1>2, <2>1, MoveWork
<1>6. CASE Dispatch
  <2>1. UNCHANGED <<w, executed>> /\ pc[Worker] = "op"
    BY <1>6 DEF Dispatch
  <2>2. w.op \in DOMAIN Program => /\ Program[w.op].mode \in {"once", "chunked"}
                                   /\ w.op <= Len(Program)
    BY WorkerTypes, RunAssumption
  <2>3. w.op \in DOMAIN Program /\ Program[w.op].mode = "once" => pc'[Worker] = "announce"
    BY <1>0, <1>6, <2>2, WorkerTypes DEF Dispatch, Current
  <2>4. w.op \in DOMAIN Program /\ Program[w.op].mode = "chunked" =>
          \/ pc'[Worker] = "check"
          \/ pc'[Worker] = "nextOp" /\ ~(w.completed < Program[w.op].total)
    BY <1>0, <1>6, <2>2, WorkerTypes DEF Dispatch, Current
  <2>5. w.op \in DOMAIN Program /\ Program[w.op].mode = "chunked" =>
          w.completed <= Program[w.op].total
    BY DEF WorkInv, ChunksDone
  <2>6. pc'[Worker] # "report"
    BY <1>0, <1>6 DEF Dispatch
  <2>7. w.op \in DOMAIN Program /\ Program[w.op].mode = "chunked" =>
          /\ pc'[Worker] \notin OnceAt
          /\ pc'[Worker] = "nextOp" => w.completed = Program[w.op].total
    BY <2>4, <2>5, WorkerTypes
  <2> QED
    BY <2>1, <2>3, <2>6, <2>7, MoveWork
<1>7. CASE ProductFails
  BY <1>1, <1>7 DEF ProductFails
<1>8. ASSUME NEW place, NEW there \in {"cancelled", "failed"}, Handle(place, there)
      PROVE  WorkInv'
  <2>1. /\ w'.op = w.op /\ w'.completed = w.completed /\ w'.chunks = w.chunks
        /\ w'.ckpts = w.ckpts /\ executed' = executed
    BY <1>8 DEF Handle, TypeInv, TypeOK
  <2>2. pc'[Worker] \notin Working
    BY <1>0, <1>8 DEF Handle, Unwind
  <2> QED
    BY <2>1, <2>2 DEF WorkInv, EachDone, OnceDone, ChunksDone, CheckpointsDone
<1>9. CASE Finally
  <2>1. UNCHANGED <<w, executed>> /\ pc'[Worker] \notin Working
    BY <1>0, <1>9 DEF Finally
  <2> QED
    BY <2>1, MoveWork
<1> QED
  BY <1>3, <1>4, <1>5, <1>6, <1>7, <1>8, <1>9, ChunkWork, ReportWork, OnceWork, NextWork
  DEF WorkerStep

\* Nobody but the worker works.
LEMMA OthersWork ==
  ASSUME TypeInv, LifeInv, RunAssumption, [Next]_vars, ~WorkerStep, \A a \in Actors : ~Write(a)
  PROVE  /\ UNCHANGED <<w, executed>>
         /\ \/ pc'[Worker] = pc[Worker]
            \/ pc'[Worker] \in {"readFailed", "finally", "dead"}
            \/ pc[Worker] = "none" /\ pc'[Worker] = "markStarting"
<1> USE DEF fileVars
<1>0. pc \in [Actors -> Places] /\ Worker \in Actors
  BY WorkerTypes
<1>1. CASE UNCHANGED vars
  BY <1>1 DEF vars
<1>2. ASSUME NEW a \in Actors, ReadLocked(a) \/ Truncate(a)
      PROVE  UNCHANGED <<w, executed>> /\ pc'[Worker] = pc[Worker]
  BY <1>2 DEF ReadLocked, Truncate
<1>3. ASSUME NEW a \in Actors, ReadLockedTorn(a) \/ LockTimeout(a)
      PROVE  UNCHANGED <<w, executed>> /\ pc'[Worker] \in {pc[Worker], "readFailed", "finally"}
  BY <1>0, <1>3, UnwindPlaces DEF ReadLockedTorn, LockTimeout, TypeInv
<1>4. ASSUME NEW a \in Actors, Crash(a)
      PROVE  UNCHANGED <<w, executed>> /\ pc'[Worker] \in {pc[Worker], "dead"}
  BY <1>0, <1>4 DEF Crash, Goto
<1>5. CASE Create \/ CreateWrite \/ SpawnFailed
  BY <1>0, <1>5, ActorsApart DEF Create, CreateWrite, SpawnFailed, Goto
<1>6. CASE Spawn
  BY <1>0, <1>6, ActorsApart DEF Spawn, LifeInv, RecordComesFirst
<1>7. ASSUME NEW c \in Clients, \/ GetRun(c) \/ WaitRound(c) \/ WaitTimeout(c)
                                \/ \E o \in {"cancel", "get", "list", "wait"} : Call(c, o)
      PROVE  UNCHANGED <<w, executed>> /\ pc'[Worker] = pc[Worker]
  BY <1>0, <1>7, ActorsApart DEF GetRun, WaitRound, WaitTimeout, Call, Goto
<1> QED
  BY <1>1, <1>2, <1>3, <1>4, <1>5, <1>6, <1>7 DEF Next, Own, Update

\* At every moment the product has done what the worker has counted.
LEMMA WorkInvariant == Spec => []WorkInv
<1>1. Init => WorkInv
  <2> SUFFICES ASSUME Init PROVE WorkInv
    OBVIOUS
  <2>1. /\ w.op = 1 /\ w.completed = 0 /\ w.chunks = 0 /\ w.ckpts = {} /\ pc[Worker] = "none"
        /\ executed = [i \in DOMAIN Program |-> 0]
    BY ActorsApart, RunAssumption DEF Init
  <2>2. \A i \in DOMAIN Program : /\ i \in Nat \ {0} /\ Program[i].total \in Nat
                                  /\ Size(Program[i]) \in Nat
    BY RunAssumption, ProgramTypes
  <2>3. 1 \in DOMAIN Program => 0 * Size(Program[1]) = 0
    BY <2>2
  <2>4. EachDone /\ OnceDone
    BY <2>1, <2>2 DEF EachDone, OnceDone, ChunkedAt, OnceDoneAt
  <2>5. ChunksDone
    BY <2>1, <2>2, <2>3 DEF ChunksDone, OnceAt
  <2>6. CheckpointsDone
    BY <2>1, <2>2 DEF CheckpointsDone, Recorded
  <2> QED
    BY <2>4, <2>5, <2>6 DEF WorkInv
<1>2. TypeInv /\ LifeInv /\ RecordInv /\ WorkInv /\ [Next]_vars => WorkInv'
  <2> SUFFICES ASSUME TypeInv, LifeInv, RecordInv, WorkInv, [Next]_vars PROVE WorkInv'
    OBVIOUS
  <2>1. CASE WorkerStep
    BY <2>1, WorkerWork, RunAssumption
  <2>2. ASSUME NEW a \in Actors, Write(a) PROVE WorkInv'
    BY <2>2, WriteWork, RunAssumption
  <2>3. CASE ~WorkerStep /\ \A a \in Actors : ~Write(a)
    <3>1. /\ UNCHANGED <<w, executed>>
          /\ \/ pc'[Worker] = pc[Worker]
             \/ pc'[Worker] \in {"readFailed", "finally", "dead"}
             \/ pc[Worker] = "none" /\ pc'[Worker] = "markStarting"
      BY <2>3, OthersWork, RunAssumption
    <3> QED
      BY <3>1, MoveWork DEF Working, Body, InOperation, ChunkedAt, OnceAt, OnceDoneAt
  <2> QED
    BY <2>1, <2>2, <2>3
<1> QED
  BY <1>1, <1>2, LifeInvariant, RecordInvariant, PTL DEF Spec

-----------------------------------------------------------------------------
(* What the record tells.  Between a unit of work and the update that      *)
(* reports it the record lags behind, and no check for a cancellation is   *)
(* made there.  Once ended, the record and the work stay.                  *)

\* The progress p says how far the product got.
Tells(p) ==
  /\ p.op \in Nat /\ (p.op > 0 => p.op \in DOMAIN Program)
  /\ \A i \in DOMAIN Program : i > p.op => executed[i] = 0
  /\ p.op > 0 /\ Program[p.op].mode = "chunked" => executed[p.op] = p.units

ToldAt == (Body \ {"report", "merge", "progress"}) \cup {"readCancelled"}

\* Before the worker begins nothing is done and nothing is told.
NothingYet ==
  pc[Worker] \in {"none", "markStarting"} =>
    w.op = 1 /\ w.ckpts = {} /\ \A i \in DOMAIN Program : executed[i] = 0

ProgressTold ==
  /\ pc[Worker] \in ToldAt => Tells(rec.progress)
  /\ pc[Worker] = "merge" /\ Program[w.op].mode = "once" => Tells(rec.progress)
  /\ pc[Worker] = "run" => rec.progress.op = w.op
  /\ pc[Worker] = "cancelled" => Tells(w.held)

EndTold == /\ rec.status = "cancelled" => Tells(rec.progress)
           /\ SucceededMeansAll
           /\ pc[Worker] = "succeed" => w.op > Len(Program)

ToldInv == NothingYet /\ ProgressTold /\ EndTold

\* An ended run has a worker that has ended.
LEMMA EndedApart ==
  ASSUME LifeInv
  PROVE  rec.status \in {"succeeded", "cancelled"} => pc[Worker] \in Ended
BY DEF LifeInv, WorkerKnowsStatus, EachAtItsPlace, WorkerPlaces, Failing, Live

\* When the worker comes to its end, everything is done and every checkpoint known.
LEMMA AllDone ==
  ASSUME TypeInv, WorkInv, RunAssumption, pc[Worker] = "succeed", w.op > Len(Program)
  PROVE  /\ \A i \in DOMAIN Program :
              executed[i] = IF Program[i].mode = "once" THEN 1 ELSE Program[i].total
         /\ w.ckpts = UNION {{<<i, k>> : k \in {n \in 1..Chunks(Program[i]) :
                                                  /\ Program[i].every > 0
                                                  /\ n % Program[i].every = 0}} :
                             i \in {j \in DOMAIN Program : Program[j].mode = "chunked"}}
<1>1. \A i \in DOMAIN Program : i \in Nat /\ i < w.op
  BY WorkerTypes, ProgramTypes
<1>2. \A i \in DOMAIN Program :
        executed[i] = IF Program[i].mode = "once" THEN 1 ELSE Program[i].total
  BY <1>1 DEF WorkInv, EachDone, Whole
<1>3. \A i \in Nat, k \in Nat : <<i, k>> \in w.ckpts <=>
        i \in DOMAIN Program /\ k > 0 /\ Due(Program[i], k) /\ k <= Chunks(Program[i])
  <2>1. Recorded = w.chunks /\ w.op \notin DOMAIN Program
    BY <1>1, WorkerTypes DEF Recorded
  <2> QED
    BY <1>1, <2>1 DEF WorkInv, CheckpointsDone, Working, Body
<1>4. \A i \in DOMAIN Program : Chunks(Program[i]) \in Nat
  <2> SUFFICES ASSUME NEW i \in DOMAIN Program PROVE Chunks(Program[i]) \in Nat
    OBVIOUS
  <2>1. Program[i].total \in Nat /\ Size(Program[i]) \in Nat
    BY ProgramTypes
  <2>2. Chunks(Program[i]) = IF Program[i].total = 0 THEN 0
                             ELSE (Program[i].total + Size(Program[i]) - 1) \div Size(Program[i])
    BY DEF Chunks, Size
  <2>3. Program[i].total # 0 => Size(Program[i]) > 0
    BY <2>1 DEF Size
  <2>4. CASE Program[i].total = 0
    BY <2>2, <2>4
  <2>5. CASE Program[i].total # 0
    <3> DEFINE x == Program[i].total + Size(Program[i]) - 1
               s == Size(Program[i])
    <3>1. x \in Nat /\ s \in Nat /\ s > 0
      BY <2>1, <2>3, <2>5
    <3>2. Chunks(Program[i]) = x \div s
      BY <2>2, <2>5
    <3> HIDE DEF x, s
    <3>3. x \div s \in Nat
      BY <3>1
    <3> QED
      BY <3>2, <3>3
  <2> QED
    BY <2>4, <2>5
<1> DEFINE Ks(i) == {n \in 1..Chunks(Program[i]) :
                       Program[i].every > 0 /\ n % Program[i].every = 0}
<1> DEFINE All == UNION {{<<i, k>> : k \in Ks(i)} :
                         i \in {j \in DOMAIN Program : Program[j].mode = "chunked"}}
<1>5. \A i \in DOMAIN Program, k \in Nat :
        Program[i].mode = "chunked" =>
          (k \in Ks(i) <=> k > 0 /\ Due(Program[i], k) /\ k <= Chunks(Program[i]))
  BY <1>4 DEF Due
<1>6. \A i \in DOMAIN Program : \A k \in Ks(i) : k \in Nat
  BY <1>4
<1>7. \A z : z \in All <=> \E i \in DOMAIN Program :
                             Program[i].mode = "chunked" /\ \E k \in Ks(i) : z = <<i, k>>
  <2> HIDE DEF Ks
  <2> QED
    OBVIOUS
<1> HIDE DEF Ks, All
<1>8. ASSUME NEW z \in All PROVE z \in w.ckpts
  <2>1. PICK i \in DOMAIN Program : Program[i].mode = "chunked" /\ \E k \in Ks(i) : z = <<i, k>>
    BY <1>7
  <2>2. PICK k \in Ks(i) : z = <<i, k>>
    BY <2>1
  <2>3. i \in Nat /\ k \in Nat
    BY <1>1, <1>6
  <2> QED
    BY <1>3, <1>5, <2>1, <2>2, <2>3
<1>9. ASSUME NEW z \in w.ckpts PROVE z \in All
  <2>1. PICK i \in Nat, k \in Nat : z = <<i, k>>
    BY WorkerTypes
  <2>2. i \in DOMAIN Program /\ k > 0 /\ Due(Program[i], k) /\ k <= Chunks(Program[i])
    BY <1>3, <2>1
  <2>3. Program[i].mode = "chunked" /\ k \in Ks(i)
    BY <1>5, <2>2 DEF Due
  <2> QED
    BY <1>7, <2>1, <2>2, <2>3
<1>10. w.ckpts = All
  BY <1>8, <1>9
<1> QED
  BY <1>2, <1>10 DEF All, Ks

\* An update of the starter's or a client's tells nothing new.
LEMMA OthersTell ==
  ASSUME TypeInv, LifeInv, RecordInv, ToldInv, RunAssumption,
         NEW a \in Actors \ {Worker}, Write(a)
  PROVE  ToldInv'
<1>1. /\ UNCHANGED <<w, executed>> /\ pc'[Worker] = pc[Worker]
      /\ pc[a] \in {"notePid", "cancel"} /\ rec \in Records
      /\ rec' = Mutate(pc[a], rec) /\ rec'.status = StatusAfter(pc[a], rec.status)
  BY WriteRecord
<1>2. rec'.progress = rec.progress /\ rec'.ckpts = rec.ckpts
  BY <1>1, MutateRest DEF TypeInv, Updates
<1>3. rec'.status \in {"cancelled", "succeeded"} => rec'.status = rec.status
  BY <1>1 DEF StatusAfter, Terminal
<1> QED
  BY <1>1, <1>2, <1>3 DEF ToldInv, NothingYet, ProgressTold, Tells, EndTold, SucceededMeansAll

\* The worker's updates tell what it has done.
LEMMA WorkerTells ==
  ASSUME TypeInv, LifeInv, RecordInv, WorkInv, ToldInv, RunAssumption, Write(Worker)
  PROVE  ToldInv'
<1> DEFINE place == pc[Worker]
<1>1. /\ UNCHANGED <<w, executed>> /\ pc' = [pc EXCEPT ![Worker] = AfterUpdate(place)]
      /\ rec' = Mutate(place, rec) /\ rec'.status = StatusAfter(place, rec.status)
      /\ place \in Updates /\ rec \in Records
  BY WriteRecord, WorkerTypes
<1>2. place \in WorkerUpdates /\ pc'[Worker] = AfterUpdate(place)
  BY <1>1, WhoUpdates, WorkerTypes DEF LifeInv
<1>3. rec.status \notin {"succeeded", "cancelled"}
  BY <1>2, EndedApart DEF Ended, WorkerUpdates
<1>4. /\ place \in {"noteTranscript", "merge"} => rec'.progress = rec.progress
      /\ place \in {"markStarting", "succeed"} => rec'.progress = NoProgress
      /\ place = "announce" => rec'.progress = [op |-> w.op, units |-> 0]
      /\ place = "progress" => rec'.progress = [op |-> w.op, units |-> w.completed]
      /\ place \in {"cancelled", "failed"} => rec'.progress = w.held
      /\ place = "succeed" => rec'.ckpts = w.ckpts
  BY <1>1, MutateRest DEF TypeInv
<1>5. rec'.status \in {"succeeded", "cancelled"} =>
        rec'.status = place \/ (rec'.status = "succeeded" /\ place = "succeed")
  BY <1>2, <1>3, <1>1 DEF StatusAfter, WorkerUpdates
<1>6. \A i \in DOMAIN Program : i > w.op => executed[i] = 0
  BY DEF WorkInv, EachDone
<1>7. place \in {"announce", "progress", "merge"} => w.op \in DOMAIN Program
  BY WorkerTypes DEF InOperation
<1>8. CASE place = "markStarting"
  <2>1. pc'[Worker] = "firstCheck" /\ rec'.status \notin {"succeeded", "cancelled"}
    BY <1>2, <1>5, <1>8 DEF AfterUpdate
  <2>2. Tells(rec.progress)'
    BY <1>1, <1>4, <1>8 DEF ToldInv, NothingYet, NoProgress, Tells
  <2> QED
    BY <2>1, <2>2 DEF ToldInv, NothingYet, ProgressTold, EndTold, SucceededMeansAll
<1>9. CASE place = "noteTranscript"
  <2>1. pc'[Worker] = "op" /\ rec'.status \notin {"succeeded", "cancelled"}
    BY <1>2, <1>5, <1>9 DEF AfterUpdate
  <2>2. Tells(rec.progress)'
    BY <1>1, <1>4, <1>9 DEF ToldInv, ProgressTold, ToldAt, Body, Tells
  <2> QED
    BY <2>1, <2>2 DEF ToldInv, NothingYet, ProgressTold, EndTold, SucceededMeansAll
<1>10. CASE place = "announce"
  <2>1. pc'[Worker] = "run" /\ rec'.status \notin {"succeeded", "cancelled"}
    BY <1>2, <1>5, <1>10 DEF AfterUpdate
  <2>2. w.op \in DOMAIN Program /\ Program[w.op].mode # "chunked"
    BY <1>7, <1>10 DEF WorkInv, ChunksDone, OnceAt
  <2>3. Tells(rec.progress)' /\ rec'.progress.op = w'.op
    BY <1>1, <1>4, <1>6, <1>10, <2>2, WorkerTypes DEF Tells
  <2> QED
    BY <2>1, <2>3 DEF ToldInv, NothingYet, ProgressTold, EndTold, SucceededMeansAll
<1>11. CASE place = "progress"
  <2>1. pc'[Worker] = "op" /\ rec'.status \notin {"succeeded", "cancelled"}
    BY <1>2, <1>5, <1>11 DEF AfterUpdate
  <2>2. w.op \in DOMAIN Program
          /\ (Program[w.op].mode = "chunked" => executed[w.op] = w.completed)
    BY <1>7, <1>11 DEF WorkInv, ChunksDone
  <2>3. Tells(rec.progress)'
    BY <1>1, <1>4, <1>6, <1>11, <2>2, WorkerTypes DEF Tells
  <2> QED
    BY <2>1, <2>3 DEF ToldInv, NothingYet, ProgressTold, EndTold, SucceededMeansAll
<1>12. CASE place = "merge"
  <2>1. /\ pc'[Worker] = IF Program[w.op].mode = "once" THEN "nextOp" ELSE "progress"
        /\ rec'.status \notin {"succeeded", "cancelled"}
    BY <1>2, <1>5, <1>12 DEF AfterUpdate
  <2>2. Program[w.op].mode = "once" => Tells(rec.progress)'
    BY <1>1, <1>4, <1>12 DEF ToldInv, ProgressTold, Tells
  <2> QED
    BY <2>1, <2>2 DEF ToldInv, NothingYet, ProgressTold, EndTold, SucceededMeansAll, ToldAt, Body,
                      InOperation
<1>13. CASE place = "succeed"
  <2>1. pc'[Worker] = "finally" /\ rec'.status = "succeeded"
    BY <1>1, <1>2, <1>13 DEF AfterUpdate, StatusAfter
  <2>2. SucceededMeansAll'
    BY <1>1, <1>4, <1>13, AllDone DEF ToldInv, EndTold, SucceededMeansAll, Chunks
  <2> QED
    BY <2>1, <2>2 DEF ToldInv, NothingYet, ProgressTold, EndTold, ToldAt, Body, InOperation
<1>14. CASE place = "cancelled"
  <2>1. pc'[Worker] = "finally" /\ rec'.status = "cancelled"
    BY <1>1, <1>2, <1>14 DEF AfterUpdate, StatusAfter
  <2>2. Tells(rec.progress)'
    BY <1>1, <1>4, <1>14 DEF ToldInv, ProgressTold, Tells
  <2> QED
    BY <2>1, <2>2 DEF ToldInv, NothingYet, ProgressTold, EndTold, SucceededMeansAll, ToldAt, Body,
                      InOperation
<1>15. CASE place = "failed"
  <2>1. pc'[Worker] = "finally" /\ rec'.status \notin {"succeeded", "cancelled"}
    BY <1>1, <1>2, <1>15 DEF AfterUpdate, StatusAfter
  <2> QED
    BY <2>1 DEF ToldInv, NothingYet, ProgressTold, EndTold, SucceededMeansAll, ToldAt, Body,
                InOperation
<1> QED
  BY <1>2, <1>8, <1>9, <1>10, <1>11, <1>12, <1>13, <1>14, <1>15 DEF WorkerUpdates

\* While the record stays, a move of the worker that does no work tells nothing new.
LEMMA MoveTells ==
  ASSUME ToldInv, UNCHANGED <<rec, w, executed>>,
         \/ pc'[Worker] = pc[Worker]
         \/ pc'[Worker] \in {"readFailed", "failed", "finally", "dead"}
         \/ pc[Worker] = "none" /\ pc'[Worker] = "markStarting"
         \/ /\ Tells(rec.progress)
            /\ pc'[Worker] \in (Body \ {"run", "succeed"}) \cup {"readCancelled"}
         \/ /\ Tells(rec.progress)
            /\ pc'[Worker] = "succeed" /\ w.op > Len(Program)
  PROVE  ToldInv'
BY DEF ToldInv, NothingYet, ProgressTold, EndTold, Tells, SucceededMeansAll, ToldAt, Body,
     InOperation

\* The worker's own steps keep what the record tells true, or are about to tell it.
LEMMA WorkTells ==
  ASSUME TypeInv, LifeInv, WorkInv, ToldInv, RunAssumption, WorkerStep
  PROVE  ToldInv'
<1>0. pc \in [Actors -> Places] /\ Worker \in Actors /\ rec' = rec
  BY WorkerTypes
  DEF WorkerStep, CancelCheck, Launch, StartTranscript, NextOp, Dispatch, BeginChunk, ChunkDone,
      Report, RunOnce, Health, ProductFails, Handle, Finally, WorkerAt, fileVars
<1>1. ASSUME Unwind(Worker), UNCHANGED <<w, executed>> PROVE ToldInv'
  <2>1. pc'[Worker] \in {"readFailed", "finally"}
    BY <1>0, <1>1 DEF Unwind, Goto
  <2> QED
    BY <1>0, <1>1, <2>1, MoveTells
<1>2. pc[Worker] \in ToldAt => Tells(rec.progress)
  BY DEF ToldInv, ProgressTold
<1>3. pc[Worker] \notin Ended => rec.status \notin {"succeeded", "cancelled"}
  BY EndedApart
<1> USE DEF WorkerAt, Goto
<1>4. ASSUME NEW place \in {"firstCheck", "check"}, NEW there \in {"launch", "begin"},
             CancelCheck(place, there)
      PROVE  ToldInv'
  <2>1. CASE torn
    BY <1>1, <1>4, <2>1 DEF CancelCheck
  <2>2. CASE ~torn
    <3>1. /\ pc[Worker] = place /\ UNCHANGED <<w, executed>>
          /\ pc'[Worker] \in {"readCancelled", there}
      BY <1>0, <1>4, <2>2 DEF CancelCheck
    <3> QED
      BY <1>0, <1>2, <3>1, MoveTells DEF ToldAt, Body, InOperation
  <2> QED
    BY <2>1, <2>2
<1>5. CASE Launch \/ StartTranscript \/ BeginChunk
  <2>1. /\ UNCHANGED <<w, executed>> /\ pc[Worker] \in {"launch", "transcript", "begin"}
        /\ pc'[Worker] \in {"transcript", "op", "noteTranscript", "chunk"}
    BY <1>0, <1>5 DEF Launch, StartTranscript, BeginChunk
  <2> QED
    BY <1>0, <1>2, <2>1, MoveTells DEF ToldAt, Body, InOperation
<1>6. CASE Health
  <2>1. UNCHANGED <<w, executed>> /\ pc[Worker] = "health" /\ pc'[Worker] = "merge"
    BY <1>0, <1>6 DEF Health
  <2> QED
    BY <1>0, <1>2, <2>1, MoveTells DEF ToldAt, Body, InOperation
<1>7. CASE Dispatch
  <2>1. /\ UNCHANGED <<w, executed>> /\ pc[Worker] = "op"
        /\ \/ pc'[Worker] \in {"announce", "check", "nextOp"}
           \/ pc'[Worker] = "succeed" /\ w.op > Len(Program)
    BY <1>0, <1>7 DEF Dispatch
  <2> QED
    BY <1>0, <1>2, <2>1, MoveTells DEF ToldAt, Body, InOperation
<1>8. CASE NextOp
  <2>1. executed' = executed /\ pc[Worker] = "nextOp" /\ pc'[Worker] = "op"
    BY <1>0, <1>8 DEF NextOp
  <2>2. Tells(rec.progress)'
    BY <1>0, <1>2, <2>1 DEF ToldAt, Body, InOperation, Tells
  <2> QED
    BY <1>0, <1>3, <2>1, <2>2
    DEF ToldInv, NothingYet, ProgressTold, EndTold, SucceededMeansAll, Ended
<1>9. CASE ChunkDone \/ Report
  <2>1. /\ pc[Worker] \in {"chunk", "report"} /\ pc'[Worker] \in {"report", "merge"}
        /\ w'.op = w.op
    BY <1>0, <1>9 DEF ChunkDone, Report, TypeInv, TypeOK
  <2>2. w.op \in DOMAIN Program /\ Program[w.op].mode # "once"
    BY <2>1, WorkerTypes DEF InOperation, WorkInv, OnceDone, ChunkedAt
  <2> QED
    BY <1>0, <1>3, <2>1, <2>2
    DEF ToldInv, NothingYet, ProgressTold, EndTold, SucceededMeansAll, Ended, ToldAt, Body,
      InOperation
<1>10. CASE RunOnce
  <2>1. /\ w' = w /\ executed' = [executed EXCEPT ![w.op] = 1] /\ pc[Worker] = "run"
        /\ pc'[Worker] = "health"
    BY <1>0, <1>10 DEF RunOnce
  <2>2. w.op \in DOMAIN Program /\ Program[w.op].mode # "chunked" /\ rec.progress.op = w.op
    BY <2>1, WorkerTypes DEF InOperation, WorkInv, ChunksDone, OnceAt, ToldInv, ProgressTold
  <2>3. Tells(rec.progress)
    BY <1>2, <2>1 DEF ToldAt, Body, InOperation
  <2>4. \A i \in DOMAIN Program : i > w.op => executed'[i] = executed[i]
    BY <2>1, WorkerTypes
  <2>5. Tells(rec.progress)'
    BY <1>0, <2>2, <2>3, <2>4 DEF Tells
  <2> QED
    BY <1>0, <1>3, <2>1, <2>5
    DEF ToldInv, NothingYet, ProgressTold, EndTold, SucceededMeansAll, Ended
<1>11. CASE ProductFails
  BY <1>1, <1>11 DEF ProductFails
<1>12. ASSUME NEW place, NEW there,
              <<place, there>> \in {<<"readCancelled", "cancelled">>, <<"readFailed", "failed">>},
              Handle(place, there)
       PROVE  ToldInv'
  <2>1. CASE torn
    BY <1>1, <1>12, <2>1 DEF Handle
  <2>2. CASE ~torn
    <3>1. /\ pc[Worker] = place /\ pc'[Worker] = there /\ executed' = executed
          /\ w' = [w EXCEPT !.held = rec.progress]
      BY <1>0, <1>12, <2>2 DEF Handle
    <3>2. w'.held = rec.progress /\ w'.op = w.op
      BY <3>1 DEF TypeInv, TypeOK
    <3>3. there = "cancelled" => Tells(w.held)'
      BY <1>2, <1>12, <3>1, <3>2 DEF ToldAt, Tells
    <3> QED
      BY <1>0, <1>3, <1>12, <3>1, <3>3
      DEF ToldInv, NothingYet, ProgressTold, EndTold, SucceededMeansAll, Ended, ToldAt, Body,
          InOperation
  <2> QED
    BY <2>1, <2>2
<1>13. CASE Finally
  <2>1. UNCHANGED <<w, executed>> /\ pc[Worker] = "finally" /\ pc'[Worker] = "done"
    BY <1>0, <1>13 DEF Finally
  <2> QED
    BY <1>0, <2>1
    DEF ToldInv, NothingYet, ProgressTold, EndTold, Tells, SucceededMeansAll, ToldAt, Body,
      InOperation
<1> QED
  BY <1>4, <1>5, <1>6, <1>7, <1>8, <1>9, <1>10, <1>11, <1>12, <1>13 DEF WorkerStep

\* What the record tells of the work is true whenever somebody may rely on it.
LEMMA ToldInvariant == Spec => []ToldInv
<1>1. Init => ToldInv
  BY ActorsApart, RunAssumption
  DEF Init, ToldInv, NothingYet, ProgressTold, EndTold, SucceededMeansAll, NoRecord, ToldAt, Body,
      InOperation
<1>2. TypeInv /\ LifeInv /\ RecordInv /\ WorkInv /\ ToldInv /\ [Next]_vars => ToldInv'
  <2> SUFFICES ASSUME TypeInv, LifeInv, RecordInv, WorkInv, ToldInv, [Next]_vars PROVE ToldInv'
    OBVIOUS
  <2>1. CASE WorkerStep
    BY <2>1, WorkTells, RunAssumption
  <2>2. ASSUME NEW a \in Actors, Write(a) PROVE ToldInv'
    BY <2>2, OthersTell, WorkerTells, RunAssumption
  <2>3. CASE ~WorkerStep /\ ~CreateWrite /\ \A a \in Actors : ~Write(a)
    <3>1. /\ UNCHANGED <<rec, w, executed>>
          /\ \/ pc'[Worker] = pc[Worker]
             \/ pc'[Worker] \in {"readFailed", "finally", "dead"}
             \/ pc[Worker] = "none" /\ pc'[Worker] = "markStarting"
      BY <2>3, OthersWork, StatusWriters, RunAssumption
    <3> QED
      BY <3>1, MoveTells
  <2>4. CASE CreateWrite
    <3>1. /\ pc[Worker] = "none" /\ pc'[Worker] = "none" /\ UNCHANGED <<w, executed>>
          /\ rec'.status = "queued"
      BY <2>4, WorkerTypes, ActorsApart, RunAssumption
      DEF CreateWrite, LifeInv, RecordComesFirst, Goto, NoRecord
    <3> QED
      BY <3>1
      DEF ToldInv, NothingYet, ProgressTold, EndTold, SucceededMeansAll, ToldAt, Body, InOperation
  <2> QED
    BY <2>1, <2>2, <2>3, <2>4
<1> QED
  BY <1>1, <1>2, LifeInvariant, RecordInvariant, WorkInvariant, PTL DEF Spec

\* A run says "succeeded" only when every unit of every operation is done and the
\* summary holds exactly the checkpoints asked for: for any program and chunk sizes.
THEOREM SuccessIsWhole == Spec => []SucceededMeansAll
<1>1. ToldInv => SucceededMeansAll
  BY DEF ToldInv, EndTold
<1> QED
  BY <1>1, ToldInvariant, PTL

\* A cancelled run reports how far the product really got.
THEOREM CancelledIsTrue == Spec => []CancelledTellsTruth
<1>1. ToldInv => CancelledTellsTruth
  BY DEF ToldInv, EndTold, Tells, CancelledTellsTruth
<1> QED
  BY <1>1, ToldInvariant, PTL
=============================================================================
