--------------------------- MODULE FileLockProofs ---------------------------
(***************************************************************************)
(* Proofs about FileLock for any callers and processes.                    *)
(*                                                                         *)
(* On Windows exclusion rests on the operating system alone: an open       *)
(* handle pins the file, so whatever a breaker believes it cannot take it. *)
(* On POSIX nothing pins the file, and exclusion rests on nobody ever      *)
(* reaching the `break` branch.                                            *)
(***************************************************************************)
EXTENDS FileLock, TLAPS

\* Every reachable state is well typed (all variables of exclusive_file_lock).
THEOREM TypeCorrect == Spec => []TypeOK
<1>1. Init => TypeOK
  BY DEF Init, TypeOK, File, Waiting
<1>2. TypeOK /\ [Next]_vars => TypeOK'
  <2> SUFFICES ASSUME TypeOK, [Next]_vars PROVE TypeOK'
    OBVIOUS
  <2> USE PidAssumption, NoFileAssumption DEF TypeOK, File, Waiting, Goto
  <2>1. ASSUME NEW t \in Threads, Begin(t) PROVE TypeOK'
    BY <2>1 DEF Begin
  <2>2. ASSUME NEW t \in Threads, Create(t) PROVE TypeOK'
    BY <2>2 DEF Create
  <2>3. ASSUME NEW t \in Threads, Exists(t) PROVE TypeOK'
    BY <2>3 DEF Exists
  <2>4. ASSUME NEW t \in Threads, WritePid(t) PROVE TypeOK'
    BY <2>4 DEF WritePid
  <2>5. ASSUME NEW t \in Threads, WriteError(t) PROVE TypeOK'
    BY <2>5 DEF WriteError
  <2>6. ASSUME NEW t \in Threads, ReadOwner(t) PROVE TypeOK'
    BY <2>6 DEF ReadOwner, ReadMetadata
  <2>7. ASSUME NEW t \in Threads, CloseOwner(t) PROVE TypeOK'
    BY <2>7 DEF CloseOwner
  <2>8. ASSUME NEW t \in Threads, ReadAgain(t) PROVE TypeOK'
    BY <2>8 DEF ReadAgain, ReadMetadata
  <2>9. ASSUME NEW t \in Threads, CloseAgain(t) PROVE TypeOK'
    BY <2>9 DEF CloseAgain
  <2>10. ASSUME NEW t \in Threads, Probe(t) PROVE TypeOK'
    BY <2>10 DEF Probe
  <2>11. ASSUME NEW t \in Threads, Break(t) PROVE TypeOK'
    BY <2>11 DEF Break
  <2>12. ASSUME NEW t \in Threads, Deadline(t) PROVE TypeOK'
    BY <2>12 DEF Deadline
  <2>13. ASSUME NEW t \in Threads, CloseFd(t) PROVE TypeOK'
    BY <2>13 DEF CloseFd
  <2>14. ASSUME NEW t \in Threads, UnlinkOwn(t) PROVE TypeOK'
    BY <2>14 DEF UnlinkOwn
  <2>15. ASSUME NEW t \in Threads, Tick(t) PROVE TypeOK'
    BY <2>15 DEF Tick
  <2>16. CASE Age
    BY <2>16 DEF Age
  <2>17. ASSUME NEW p \in Pids, Crash(p) PROVE TypeOK'
    BY <2>17 DEF Crash, ThreadsOf
  <2>18. CASE UNCHANGED vars
    BY <2>18 DEF vars
  <2> QED
    BY <2>1, <2>2, <2>3, <2>4, <2>5, <2>6, <2>7, <2>8, <2>9, <2>10, <2>11,
       <2>12, <2>13, <2>14, <2>15, <2>16, <2>17, <2>18 DEF Next, Step
<1> QED
  BY <1>1, <1>2, PTL DEF Spec

-----------------------------------------------------------------------------
(***************************************************************************)
(* Windows.  An open creating handle means the file at the path is its     *)
(* own: nobody else could have put one there, since nobody could remove it *)
(* first.  Mutual exclusion alone is not inductive: the handle, not the    *)
(* place in the program, is what keeps breakers out.                       *)
(***************************************************************************)
HandlePinsPath == \A t \in fd : path # NoFile /\ path.by = t
InsideHasHandle == \A t \in Threads : pc[t] \in {"write", "held"} => t \in fd
PinnedInv == TypeOK /\ HandlePinsPath /\ InsideHasHandle

\* The pinned-handle invariant holds on Windows whatever else goes wrong.
LEMMA PinnedInvariant == ASSUME Windows PROVE Spec => []PinnedInv
<1> USE DEF HandlePinsPath, InsideHasHandle
<1>1. Init => PinnedInv
  BY DEF Init, PinnedInv, TypeOK, File, Waiting
<1>2. PinnedInv /\ TypeOK' /\ [Next]_vars => PinnedInv'
  <2> SUFFICES ASSUME PinnedInv, TypeOK', [Next]_vars
               PROVE HandlePinsPath' /\ InsideHasHandle'
    BY DEF PinnedInv
  <2> USE Windows, PidAssumption, NoFileAssumption DEF PinnedInv, TypeOK, Goto
  <2>1. ASSUME NEW t \in Threads, Begin(t) PROVE HandlePinsPath' /\ InsideHasHandle'
    BY <2>1 DEF Begin
  <2>2. ASSUME NEW t \in Threads, Create(t) PROVE HandlePinsPath' /\ InsideHasHandle'
    <3>1. path' \in File /\ path'.by = t
      BY <2>2 DEF Create, File
    <3>2. fd' = {t}
      BY <2>2 DEF Create
    <3> QED
      BY <2>2, <3>1, <3>2 DEF Create
  <2>3. ASSUME NEW t \in Threads, Exists(t) PROVE HandlePinsPath' /\ InsideHasHandle'
    BY <2>3 DEF Exists
  <2>4. ASSUME NEW t \in Threads, WritePid(t) PROVE HandlePinsPath' /\ InsideHasHandle'
    BY <2>4 DEF WritePid, File
  <2>5. ASSUME NEW t \in Threads, WriteError(t) PROVE HandlePinsPath' /\ InsideHasHandle'
    BY <2>5 DEF WriteError
  <2>6. ASSUME NEW t \in Threads, ReadOwner(t) PROVE HandlePinsPath' /\ InsideHasHandle'
    BY <2>6 DEF ReadOwner, ReadMetadata
  <2>7. ASSUME NEW t \in Threads, CloseOwner(t) PROVE HandlePinsPath' /\ InsideHasHandle'
    BY <2>7 DEF CloseOwner
  <2>8. ASSUME NEW t \in Threads, ReadAgain(t) PROVE HandlePinsPath' /\ InsideHasHandle'
    BY <2>8 DEF ReadAgain, ReadMetadata
  <2>9. ASSUME NEW t \in Threads, CloseAgain(t) PROVE HandlePinsPath' /\ InsideHasHandle'
    BY <2>9 DEF CloseAgain
  <2>10. ASSUME NEW t \in Threads, Probe(t) PROVE HandlePinsPath' /\ InsideHasHandle'
    BY <2>10 DEF Probe
  <2>11. ASSUME NEW t \in Threads, Break(t) PROVE HandlePinsPath' /\ InsideHasHandle'
    BY <2>11 DEF Break, Pinned
  <2>12. ASSUME NEW t \in Threads, Deadline(t) PROVE HandlePinsPath' /\ InsideHasHandle'
    BY <2>12 DEF Deadline
  <2>13. ASSUME NEW t \in Threads, CloseFd(t) PROVE HandlePinsPath' /\ InsideHasHandle'
    BY <2>13 DEF CloseFd
  <2>14. ASSUME NEW t \in Threads, UnlinkOwn(t) PROVE HandlePinsPath' /\ InsideHasHandle'
    BY <2>14 DEF UnlinkOwn, Pinned
  <2>15. ASSUME NEW t \in Threads, Tick(t) PROVE HandlePinsPath' /\ InsideHasHandle'
    BY <2>15 DEF Tick
  <2>16. CASE Age
    BY <2>16 DEF Age, File
  <2>17. ASSUME NEW p \in Pids, Crash(p) PROVE HandlePinsPath' /\ InsideHasHandle'
    BY <2>17 DEF Crash, ThreadsOf
  <2>18. CASE UNCHANGED vars
    BY <2>18 DEF vars
  <2> QED
    BY <2>1, <2>2, <2>3, <2>4, <2>5, <2>6, <2>7, <2>8, <2>9, <2>10, <2>11,
       <2>12, <2>13, <2>14, <2>15, <2>16, <2>17, <2>18 DEF Next, Step
<1> QED
  BY <1>1, <1>2, TypeCorrect, PTL DEF Spec

\* On Windows two callers are never inside the block together: crashes, wrong
\* liveness probes, refused unlinks and failed writes included.
THEOREM WindowsExclusion == ASSUME Windows PROVE Spec => []MutualExclusion
<1>1. PinnedInv => MutualExclusion
  BY DEF PinnedInv, TypeOK, HandlePinsPath, InsideHasHandle, MutualExclusion, holders
<1> QED
  BY <1>1, PinnedInvariant, PTL

\* On Windows every step of the file protocol is a step of the abstract mutex
\* or leaves its holder alone: entering is writing the pid, leaving is closing
\* the handle or dying.
THEOREM WindowsRefinement == ASSUME Windows PROVE Spec => ImplementsMutex
<1>1. Init => Lock!Init
  BY DEF Init, Lock!Init, holders
<1>2. PinnedInv /\ [Next]_vars => [Lock!Next]_holders
  <2> SUFFICES ASSUME PinnedInv, [Next]_vars PROVE [Lock!Next]_holders
    OBVIOUS
  <2> USE DEF PinnedInv, TypeOK, holders, Goto
  <2>1. ASSUME NEW t \in Threads, WritePid(t) PROVE Lock!Acquire(t)
    BY <2>1 DEF WritePid, Lock!Acquire, HandlePinsPath, InsideHasHandle
  <2>2. ASSUME NEW t \in Threads, CloseFd(t) PROVE Lock!Release(t)
    BY <2>2 DEF CloseFd, Lock!Release
  <2>3. ASSUME NEW p \in Pids, Crash(p) PROVE [Lock!Next]_holders
    <3>1. CASE \E t \in holders : PidOf[t] = p
      <4>1. PICK t \in holders : PidOf[t] = p
        BY <3>1
      <4>2. holders = {t}
        BY <4>1 DEF HandlePinsPath, InsideHasHandle
      <4>3. Lock!Release(t)
        BY <2>3, <4>1, <4>2 DEF Crash, Lock!Release
      <4> QED
        BY <4>1, <4>3 DEF Lock!Next
    <3>2. CASE \A t \in holders : PidOf[t] # p
      BY <2>3, <3>2 DEF Crash
    <3> QED
      BY <3>1, <3>2
  <2>4. ASSUME NEW t \in Threads,
               \/ Begin(t) \/ Create(t) \/ Exists(t) \/ WriteError(t)
               \/ ReadOwner(t) \/ ReadAgain(t)
        PROVE holders' = holders
    BY <2>4 DEF Begin, Create, Exists, WriteError, ReadOwner, ReadAgain, ReadMetadata
  <2>5. ASSUME NEW t \in Threads,
               \/ CloseOwner(t) \/ CloseAgain(t) \/ Probe(t) \/ Break(t)
               \/ Deadline(t) \/ UnlinkOwn(t) \/ Tick(t)
        PROVE holders' = holders
    BY <2>5 DEF CloseOwner, CloseAgain, Probe, Break, Deadline, UnlinkOwn, Tick
  <2>6. CASE Age
    BY <2>6 DEF Age
  <2>7. CASE UNCHANGED vars
    BY <2>7 DEF vars
  <2> QED
    BY <2>1, <2>2, <2>3, <2>4, <2>5, <2>6, <2>7 DEF Next, Step, Lock!Next
<1> QED
  BY <1>1, <1>2, PinnedInvariant, PTL DEF Spec, ImplementsMutex, Lock!Spec

-----------------------------------------------------------------------------
(***************************************************************************)
(* POSIX, until a process dies.  The file at the path belongs to its thread*)
(* between its creation and its removal, carries its pid by the time it is *)
(* inside, and is never old; so no reader ever concludes that it is stale. *)
(***************************************************************************)
Calm == ~ProbeMisses /\ ~WriteFails /\ ~Stalls

OwnerHasPath ==
  \A t \in Threads : pc[t] \in {"write", "held", "unlink"} => path # NoFile /\ path.by = t
FileIsNamed ==
  path # NoFile => /\ pc[path.by] \in {"write", "held", "unlink"}
                   /\ ~path.old
                   /\ path.pid = NoPid => pc[path.by] = "write"
NobodyBreaks == \A t \in Threads : pc[t] # "break"
CalmInv == alive = Pids => OwnerHasPath /\ FileIsNamed /\ NobodyBreaks

\* The calm invariant: until a process dies, nobody is ever at the line that
\* unlinks a stale lock.
LEMMA CalmInvariant == ASSUME Calm, ~Windows PROVE Spec => []CalmInv
<1> DEFINE Parts == OwnerHasPath /\ FileIsNamed /\ NobodyBreaks
<1>1. Init => CalmInv
  BY DEF Init, CalmInv, OwnerHasPath, FileIsNamed, NobodyBreaks
<1>2. TypeOK /\ CalmInv /\ TypeOK' /\ [Next]_vars => CalmInv'
  <2> SUFFICES ASSUME TypeOK, CalmInv, TypeOK', [Next]_vars, alive' = Pids PROVE Parts'
    BY DEF CalmInv
  <2>0. alive = Pids
    BY DEF TypeOK, Next, Step, vars, Begin, Create, Exists, WritePid, WriteError, ReadOwner,
           ReadAgain, ReadMetadata, CloseOwner, CloseAgain, Probe, Break, Deadline, CloseFd,
           UnlinkOwn, Tick, Age, Crash
  <2> USE <2>0
  <2> USE Calm, ~Windows, PidAssumption, NoFileAssumption
      DEF Calm, CalmInv, TypeOK, Goto, OwnerHasPath, FileIsNamed, NobodyBreaks
  <2>1. ASSUME NEW t \in Threads, Begin(t) PROVE Parts'
    BY <2>1 DEF Begin, File
  <2>2. ASSUME NEW t \in Threads, Create(t) PROVE Parts'
    <3>1. path' \in File /\ path'.by = t /\ ~path'.old
      BY <2>2 DEF Create, File
    <3>2. \A u \in Threads : pc[u] \notin {"write", "held", "unlink"}
      BY <2>2 DEF Create
    <3> QED
      BY <2>2, <3>1, <3>2 DEF Create
  <2>3. ASSUME NEW t \in Threads, Exists(t) PROVE Parts'
    BY <2>3 DEF Exists, File
  <2>4. ASSUME NEW t \in Threads, WritePid(t) PROVE Parts'
    BY <2>4 DEF WritePid, File
  <2>5. ASSUME NEW t \in Threads, WriteError(t) PROVE Parts'
    BY <2>5 DEF WriteError
  <2>6. ASSUME NEW t \in Threads, ReadOwner(t) PROVE Parts'
    BY <2>6 DEF ReadOwner, ReadMetadata, File
  <2>7. ASSUME NEW t \in Threads, CloseOwner(t) PROVE Parts'
    BY <2>7 DEF CloseOwner, File
  <2>8. ASSUME NEW t \in Threads, ReadAgain(t) PROVE Parts'
    BY <2>8 DEF ReadAgain, ReadMetadata, File
  <2>9. ASSUME NEW t \in Threads, CloseAgain(t) PROVE Parts'
    BY <2>9 DEF CloseAgain, File
  <2>10. ASSUME NEW t \in Threads, Probe(t) PROVE Parts'
    <3>1. ~Stale(t)
      BY <2>10 DEF Stale, SeemsDead, AgedFile, File
    <3> QED
      BY <2>10, <3>1 DEF Probe, File
  <2>11. ASSUME NEW t \in Threads, Break(t) PROVE Parts'
    BY <2>11 DEF Break
  <2>12. ASSUME NEW t \in Threads, Deadline(t) PROVE Parts'
    BY <2>12 DEF Deadline, File
  <2>13. ASSUME NEW t \in Threads, CloseFd(t) PROVE Parts'
    BY <2>13 DEF CloseFd, File
  <2>14. ASSUME NEW t \in Threads, UnlinkOwn(t) PROVE Parts'
    BY <2>14 DEF UnlinkOwn, Pinned, File
  <2>15. ASSUME NEW t \in Threads, Tick(t) PROVE Parts'
    BY <2>15 DEF Tick, File
  <2>16. CASE Age
    BY <2>16 DEF Age, File
  <2>17. ASSUME NEW p \in Pids, Crash(p) PROVE Parts'
    BY <2>17 DEF Crash
  <2>18. CASE UNCHANGED vars
    BY <2>18 DEF vars, File
  <2> QED
    BY <2>1, <2>2, <2>3, <2>4, <2>5, <2>6, <2>7, <2>8, <2>9, <2>10, <2>11,
       <2>12, <2>13, <2>14, <2>15, <2>16, <2>17, <2>18 DEF Next, Step
<1> QED
  BY <1>1, <1>2, TypeCorrect, PTL DEF Spec

\* On POSIX, where no probe errs and no write fails or stalls, two callers are
\* never inside the block together until a process dies.
THEOREM CalmExclusion == ASSUME Calm, ~Windows PROVE Spec => []ExclusionUntilDeath
<1>1. CalmInv => ExclusionUntilDeath
  BY DEF CalmInv, OwnerHasPath, ExclusionUntilDeath, MutualExclusion, holders
<1> QED
  BY <1>1, CalmInvariant, PTL

\* Under the same conditions the file is gone once its owner has left, again
\* until a process dies.
THEOREM CalmRelease == ASSUME Calm, ~Windows PROVE Spec => []ReleaseRemovesFile
<1>1. CalmInv => ReleaseRemovesFile
  BY DEF CalmInv, FileIsNamed, ReleaseRemovesFile
<1> QED
  BY <1>1, CalmInvariant, PTL
=============================================================================
