------------------------- MODULE SessionStoreProofs -------------------------
(***************************************************************************)
(* Proofs about SessionStore for any processes, threads, sessions, limits  *)
(* and environment: crashes, lock timeouts, failing closes, slow launches  *)
(* and callers that name any id are all allowed.                           *)
(***************************************************************************)
EXTENDS SessionStore, TLAPS

-----------------------------------------------------------------------------
(* The helpers keep the variables they write in range.                     *)

\* The first block of every operation is a place of the program.
LEMMA FirstStepPlace == \A o \in Operations : FirstStep(o) \in Places
BY DEF FirstStep, Operations, Places, Blocks

\* Moving to a place keeps pc in range.
LEMMA GotoType ==
  ASSUME TypeOK, NEW t \in Threads, NEW there \in Places, Goto(t, there)
  PROVE  pc' \in [Threads -> Places]
BY DEF TypeOK, Goto

\* Releasing what a thread holds keeps every managed.lock in range.
LEMMA ReleaseType ==
  ASSUME TypeOK, NEW t \in Threads, Release(t)
  PROVE  mlock' \in [Sids -> Threads \cup {NoOne}]
BY DEF TypeOK, Release

\* Leaving a call (or going on with close_all) keeps pc and the locks in range.
LEMMA ReturnType ==
  ASSUME TypeOK, NEW t \in Threads, Return(t)
  PROVE  pc' \in [Threads -> Places] /\ mlock' \in [Sids -> Threads \cup {NoOne}]
<1>1. pc' \in [Threads -> Places]
  BY DEF TypeOK, Return, Goto, Places, Blocks
<1>2. mlock' \in [Sids -> Threads \cup {NoOne}]
  BY ReleaseType DEF Return
<1> QED
  BY <1>1, <1>2

\* Going on to the next of expired_ids keeps what it writes in range.
LEMMA NextExpiredType ==
  ASSUME TypeOK, NEW t \in Threads, NextExpired(t)
  PROVE  /\ pc' \in [Threads -> Places] /\ mlock' \in [Sids -> Threads \cup {NoOne}]
         /\ cur' \in [Threads -> Sids \cup {NoOne}]
<1>1. pc' \in [Threads -> Places]
  <2>1. FirstStep(op[t]) \in Places /\ "expire" \in Places
    BY FirstStepPlace DEF TypeOK, Places, Blocks
  <2> QED
    BY <2>1 DEF TypeOK, NextExpired, Goto
<1>2. mlock' \in [Sids -> Threads \cup {NoOne}]
  BY ReleaseType DEF NextExpired
<1>3. cur' \in [Threads -> Sids \cup {NoOne}]
  BY DEF TypeOK, NextExpired
<1> QED
  BY <1>1, <1>2, <1>3

\* A listed record is seen with one of the statuses the code knows.
LEMMA StatusAtType ==
  ASSUME TypeOK, NEW p \in Procs, NEW s \in Listed(p)
  PROVE  StatusAt(p, s) \in Statuses
BY DEF TypeOK, Listed, StatusAt, Local, Statuses

\* _persist_state_locked writes statuses the code knows, and no others.
LEMMA PersistType ==
  ASSUME TypeOK, NEW p \in Procs, NEW m, NEW st \in [Sids -> Statuses], Persist(p, m, st)
  PROVE  disk' \in [Sids -> Statuses \cup {"none"}]
BY StatusAtType DEF Persist

\* _remove_metadata leaves the memory and the file in range.
LEMMA RemoveType ==
  ASSUME TypeOK, NEW p \in Procs, NEW s, Remove(p, s)
  PROVE  mem' \subseteq Sids /\ disk' \in [Sids -> Statuses \cup {"none"}]
<1>1. disk' \in [Sids -> Statuses \cup {"none"}]
  BY StatusAtType DEF Remove
<1>2. mem' \subseteq Sids
  BY DEF Remove, TypeOK
<1> QED
  BY <1>1, <1>2

\* _mark_close_failure touches only the status, the expiry and the file, in range.
LEMMA MarkType ==
  ASSUME TypeOK, NEW t \in Threads, NEW s, MarkCloseFailure(t, s)
  PROVE  /\ mem' = mem /\ handle' = handle /\ due' \subseteq Sids
         /\ status' \in [Sids -> Statuses]
         /\ disk' \in [Sids -> Statuses \cup {"none"}]
<1>1. CASE Local(ProcOf[t], s)
  <2>1. status' \in [Sids -> Statuses] /\ due' \subseteq Sids
    BY <1>1 DEF TypeOK, MarkCloseFailure, Statuses
  <2>2. disk' \in [Sids -> Statuses \cup {"none"}]
    BY <1>1, <2>1, PersistType, StoreAssumption DEF MarkCloseFailure
  <2> QED
    BY <1>1, <2>1, <2>2 DEF MarkCloseFailure
<1>2. CASE ~Local(ProcOf[t], s)
  BY <1>2 DEF MarkCloseFailure, recordVars, TypeOK
<1> QED
  BY <1>1, <1>2

-----------------------------------------------------------------------------
(***************************************************************************)
(* A thread is at a place of the call it is in, and such a call names a    *)
(* session: what makes the types inductive.                                *)
(***************************************************************************)
OpenPlaces == {"reserve", "launch", "register", "unregister"}
ExecutePlaces == {"lookup", "execLock", "running", "execEnd"}
ClosePlaces == {"closeLook", "purge", "closeLock", "shut", "closing", "closeMark", "closeRemove"}
Outside == {"idle", "dead", "closeAll", "nextClose"}

PlaceFitsCall ==
  \A t \in Threads : /\ pc[t] \in OpenPlaces => op[t] = "open"
                     /\ pc[t] \in ExecutePlaces => op[t] = "execute"
                     /\ pc[t] \in ClosePlaces => op[t] \in {"close", "closeAll"}
                     /\ pc[t] \in {"closeAll", "nextClose"} => op[t] = "closeAll"
ArgNamed ==
  \A t \in Threads : pc[t] \notin Outside /\ op[t] # "list" => arg[t] \in Sids

TypeInv == TypeOK /\ PlaceFitsCall /\ ArgNamed

\* A thread stays at the places of the call it is in, and its call keeps its id.
LEMMA PlacesStep ==
  ASSUME TypeInv, [Next]_vars
  PROVE  PlaceFitsCall' /\ ArgNamed'
<1> DEFINE Goal == PlaceFitsCall' /\ ArgNamed'
<1> USE DEF TypeInv, TypeOK, PlaceFitsCall, ArgNamed, OpenPlaces, ExecutePlaces, ClosePlaces,
            Outside, Goto, callVars
<1>0. \A o \in Operations :
        FirstStep(o) = IF o = "open" THEN "reserve" ELSE IF o = "execute" THEN "lookup"
                       ELSE IF o = "list" THEN "listing" ELSE "closeLook"
  BY DEF FirstStep, Operations
<1>1. ASSUME NEW t \in Threads, CallSomething(t) PROVE Goal
  BY <1>1 DEF CallSomething, CallOpen, CallOn, CallList, CallCloseAll, Call
<1>2. ASSUME NEW t \in Threads, Return(t), pc[t] \notin {"idle", "dead"} PROVE Goal
  BY <1>2 DEF Return
<1> DEFINE ToOperation(t) == /\ \/ Goto(t, FirstStep(op[t]))
                                \/ Goto(t, "expire") \/ Goto(t, "expireLock")
                             /\ UNCHANGED <<op, arg>>
                             /\ pc[t] \notin Outside
<1>2a. ASSUME NEW t \in Threads, ToOperation(t) PROVE Goal
  <2>1. PICK there : /\ pc' = [pc EXCEPT ![t] = there]
                     /\ there \in {FirstStep(op[t]), "expire", "expireLock"}
    BY <1>2a
  <2>2. /\ there \in OpenPlaces => op[t] = "open"
        /\ there \in ExecutePlaces => op[t] = "execute"
        /\ there \in ClosePlaces => op[t] \in {"close", "closeAll"}
        /\ there \notin Outside
    BY <1>0, <2>1 DEF Operations
  <2>3. op' = op /\ arg' = arg /\ pc[t] \notin Outside
    BY <1>2a
  <2> QED
    BY <2>1, <2>2, <2>3
<1>3. ASSUME NEW t \in Threads, NextExpired(t), pc[t] \in {"expireMark", "expireRemove"}
      PROVE Goal
  <2>1. ToOperation(t)
    BY <1>3 DEF NextExpired
  <2> QED
    BY <2>1, <1>2a
<1>4. ASSUME NEW t \in Threads, Cleanup(t) PROVE Goal
  <2>1. ToOperation(t)
    BY <1>4 DEF Cleanup
  <2> QED
    BY <2>1, <1>2a
<1>5. ASSUME NEW t \in Threads, NEW s \in Sids, Expire(t, s) PROVE Goal
  <2>1. ToOperation(t)
    BY <1>5 DEF Expire
  <2> QED
    BY <2>1, <1>2a
<1>6. ASSUME NEW t \in Threads, ExpireLock(t) \/ ExpireClosed(t) \/ ExpireFailed(t) PROVE Goal
  BY <1>6 DEF ExpireLock, ExpireClosed, ExpireFailed, ShutDown
<1>7. ASSUME NEW t \in Threads, ExpireMark(t) \/ ExpireRemove(t) PROVE Goal
  BY <1>3, <1>7 DEF ExpireMark, ExpireRemove
<1>8. ASSUME NEW t \in Threads, \/ ReserveRefused(t) \/ Unregister(t) \/ Register(t)
                                \/ Listing(t) \/ ExecEnd(t) \/ Purge(t)
                                \/ CloseMark(t) \/ CloseRemove(t)
      PROVE Goal
  BY <1>2, <1>8 DEF ReserveRefused, Unregister, Register, Listing, ExecEnd, Purge,
                    CloseMark, CloseRemove
<1>9. ASSUME NEW t \in Threads, Reserve(t) \/ LaunchOk(t) \/ LaunchFailed(t) PROVE Goal
  BY <1>9 DEF Reserve, LaunchOk, LaunchFailed
<1>10. ASSUME NEW t \in Threads, Lookup(t) \/ ExecLock(t) \/ ExecDone(t) PROVE Goal
  BY <1>10, <1>2 DEF Lookup, ExecLock, ExecDone
<1>11. ASSUME NEW t \in Threads, CloseLook(t) \/ CloseLock(t) PROVE Goal
  BY <1>11, <1>2 DEF CloseLook, CloseLock
<1>12. ASSUME NEW t \in Threads, CloseShut(t) \/ Closed(t) \/ CloseFailed(t) PROVE Goal
  BY <1>12 DEF CloseShut, Closed, CloseFailed, ShutDown
<1>13. ASSUME NEW t \in Threads, CloseAll(t) \/ NextClose(t) PROVE Goal
  BY <1>13 DEF CloseAll, NextClose
<1>14. ASSUME NEW t \in Threads, LockTimeout(t) PROVE Goal
  <2>1. CASE pc[t] \in Blocks /\ Return(t)
    BY <2>1, <1>2 DEF Blocks
  <2>2. CASE pc[t] = "closeAll" /\ Goto(t, "idle") /\ UNCHANGED <<mlock, callVars>>
    BY <2>2
  <2> QED
    BY <1>14, <2>1, <2>2 DEF LockTimeout
<1>15. ASSUME NEW s \in Sids, TimePasses(s) PROVE Goal
  BY <1>15 DEF TimePasses
<1>16. ASSUME NEW p \in Procs, Crash(p) PROVE Goal
  BY <1>16 DEF Crash
<1>17. CASE UNCHANGED vars
  BY <1>17 DEF vars
<1>18. CASE FileLost
  BY <1>18 DEF FileLost
<1> QED
  BY <1>1, <1>4, <1>5, <1>6, <1>7, <1>8, <1>9, <1>10, <1>11, <1>12, <1>13, <1>14,
     <1>15, <1>16, <1>17, <1>18 DEF Next, Step

-----------------------------------------------------------------------------
\* The types with what makes them inductive.
LEMMA TypeInvariant == Spec => []TypeInv
<1> USE StoreAssumption
<1>1. Init => TypeOK
  BY DEF Init, TypeOK, Statuses, Operations, Places, Blocks
<1>2. TypeInv /\ [Next]_vars => TypeInv'
  <2> SUFFICES ASSUME TypeInv, [Next]_vars PROVE TypeOK'
    BY PlacesStep DEF TypeInv
  <2>0. TypeOK /\ \A t \in Threads : pc[t] \in OpenPlaces \cup ExecutePlaces \cup ClosePlaces
                                        => arg[t] \in Sids
    BY DEF TypeInv, PlaceFitsCall, ArgNamed, OpenPlaces, ExecutePlaces, ClosePlaces, Outside
  <2> USE <2>0 DEF recordVars, callVars, history
  <2>1. ASSUME NEW t \in Threads, CallSomething(t) PROVE TypeOK'
    <3>1. ASSUME NEW o \in Operations, NEW s \in Sids \cup {NoOne}, Call(t, o, s),
                 NEW there \in {"cleanup", "closeAll"}, Goto(t, there),
                 owner' \in [Sids -> Procs \cup {NoOne}]
          PROVE TypeOK'
      <4>1. pc' \in [Threads -> Places]
        BY <3>1, GotoType DEF Places, Blocks
      <4>2. calls' \in [Threads -> Nat]
        BY <3>1 DEF TypeOK, Call
      <4>3. op' \in [Threads -> Operations] /\ arg' \in [Threads -> Sids \cup {NoOne}]
        BY <3>1 DEF TypeOK, Call
      <4> QED
        BY <3>1, <4>1, <4>2, <4>3 DEF TypeOK, Call
    <3>2. ASSUME NEW s \in Sids, CallOpen(t, s) PROVE TypeOK'
      <4>1. owner' \in [Sids -> Procs \cup {NoOne}]
        BY <3>2 DEF CallOpen, TypeOK
      <4> QED
        BY <3>1, <3>2, <4>1 DEF CallOpen, Operations
    <3>3. ASSUME NEW s \in Sids, NEW o \in {"execute", "close"}, CallOn(t, o, s) PROVE TypeOK'
      BY <3>1, <3>3 DEF CallOn, Operations, TypeOK
    <3>4. CASE CallList(t)
      BY <3>1, <3>4 DEF CallList, Operations, TypeOK
    <3>5. CASE CallCloseAll(t)
      BY <3>1, <3>5 DEF CallCloseAll, Operations, TypeOK
    <3> QED
      BY <2>1, <3>2, <3>3, <3>4, <3>5 DEF CallSomething
  <2>2. ASSUME NEW t \in Threads, Cleanup(t) PROVE TypeOK'
    <3>1. FirstStep(op[t]) \in Places /\ "expire" \in Places
      BY FirstStepPlace DEF TypeOK, Places, Blocks
    <3>2. Listed(ProcOf[t]) \subseteq Sids
      BY DEF Listed
    <3> QED
      BY <2>2, <3>1, <3>2 DEF TypeOK, Cleanup, Goto
  <2>3. ASSUME NEW t \in Threads, NEW s \in Sids, Expire(t, s) PROVE TypeOK'
    <3>1. {FirstStep(op[t]), "expire", "expireLock"} \subseteq Places
      BY FirstStepPlace DEF TypeOK, Places, Blocks
    <3>2. pc' \in [Threads -> Places] /\ cur' \in [Threads -> Sids \cup {NoOne}]
      <4>1. PICK there \in {FirstStep(op[t]), "expire", "expireLock"} : Goto(t, there)
        BY <2>3 DEF Expire
      <4>2. cur' = cur \/ cur' = [cur EXCEPT ![t] = s]
        BY <2>3 DEF Expire
      <4> QED
        BY <3>1, <4>1, <4>2, GotoType DEF TypeOK
    <3>3. todo' \in [Threads -> SUBSET Sids]
      BY <2>3 DEF TypeOK, Expire
    <3>4. /\ mem' \subseteq Sids /\ handle' \subseteq Sids /\ due' \subseteq Sids
          /\ status' \in [Sids -> Statuses]
          /\ disk' \in [Sids -> Statuses \cup {"none"}]
      <4>1. CASE UNCHANGED recordVars
        BY <4>1 DEF TypeOK
      <4>2. CASE Remove(ProcOf[t], s) /\ UNCHANGED <<status, handle, due>>
        BY <4>2, RemoveType DEF TypeOK
      <4>3. CASE /\ status' = [status EXCEPT ![s] = "expired"]
                 /\ Persist(ProcOf[t], mem, status')
                 /\ UNCHANGED <<mem, handle, due>>
        <5>1. status' \in [Sids -> Statuses]
          BY <4>3 DEF TypeOK, Statuses
        <5> QED
          BY <4>3, <5>1, PersistType DEF TypeOK
      <4> QED
        BY <2>3, <4>1, <4>2, <4>3 DEF Expire
    <3> QED
      BY <2>3, <3>2, <3>3, <3>4 DEF TypeOK, Expire
  <2>4. ASSUME NEW t \in Threads, ExpireLock(t) PROVE TypeOK'
    <3>1. pc' \in [Threads -> Places]
      BY <2>4 DEF TypeOK, ExpireLock, Goto, Places, Blocks
    <3>2. mlock' \in [Sids -> Threads \cup {NoOne}] /\ status' \in [Sids -> Statuses]
      BY <2>4 DEF TypeOK, ExpireLock, Statuses
    <3> QED
      BY <2>4, <3>1, <3>2 DEF TypeOK, ExpireLock
  <2>5. ASSUME NEW t \in Threads, NEW s, NEW ok, ShutDown(t, s, ok),
               pc' \in [Threads -> Places], mlock' \in [Sids -> Threads \cup {NoOne}]
        PROVE TypeOK'
    BY <2>5 DEF TypeOK, ShutDown, Statuses
  <2>6. ASSUME NEW t \in Threads, ExpireClosed(t) PROVE TypeOK'
    BY <2>6, <2>5, GotoType, ReleaseType DEF TypeOK, ExpireClosed, Places, Blocks
  <2>7. ASSUME NEW t \in Threads, ExpireFailed(t) PROVE TypeOK'
    BY <2>7, <2>5, GotoType DEF TypeOK, ExpireFailed, Places, Blocks
  <2>8. ASSUME NEW t \in Threads, Closed(t) PROVE TypeOK'
    BY <2>8, <2>5, GotoType DEF TypeOK, Closed, Places, Blocks
  <2>9. ASSUME NEW t \in Threads, CloseFailed(t) PROVE TypeOK'
    BY <2>9, <2>5, GotoType DEF TypeOK, CloseFailed, Places, Blocks
  <2>10. ASSUME NEW t \in Threads, ExpireMark(t) PROVE TypeOK'
    BY <2>10, MarkType, NextExpiredType DEF TypeOK, ExpireMark, NextExpired
  <2>11. ASSUME NEW t \in Threads, CloseMark(t) PROVE TypeOK'
    BY <2>11, MarkType, ReturnType DEF TypeOK, CloseMark, Return
  <2>12. ASSUME NEW t \in Threads, NEW s, RemoveOwn(t, s)
         PROVE  /\ mem' \subseteq Sids /\ disk' \in [Sids -> Statuses \cup {"none"}]
                /\ UNCHANGED <<status, handle, due>>
    BY <2>12, RemoveType DEF RemoveOwn, TypeOK
  <2>13. ASSUME NEW t \in Threads, ExpireRemove(t) PROVE TypeOK'
    BY <2>13, <2>12, NextExpiredType DEF TypeOK, ExpireRemove, NextExpired
  <2>14. ASSUME NEW t \in Threads, Unregister(t) PROVE TypeOK'
    BY <2>14, <2>12, ReturnType DEF TypeOK, Unregister, Return
  <2>15. ASSUME NEW t \in Threads, CloseRemove(t) PROVE TypeOK'
    <3>1. arg[t] \in Sids
      BY <2>15 DEF CloseRemove, ClosePlaces
    <3> QED
      BY <2>15, <3>1, <2>12, ReturnType DEF TypeOK, CloseRemove, Return
  <2>16. ASSUME NEW t \in Threads, ReserveRefused(t) \/ Listing(t) PROVE TypeOK'
    BY <2>16, ReturnType DEF TypeOK, ReserveRefused, Listing, Return
  <2>17. ASSUME NEW t \in Threads, Reserve(t) PROVE TypeOK'
    <3>1. arg[t] \in Sids /\ pc' \in [Threads -> Places]
      BY <2>17, GotoType DEF Reserve, OpenPlaces, Places
    <3>2. status' \in [Sids -> Statuses]
      BY <2>17 DEF Reserve, TypeOK, Statuses
    <3>3. disk' \in [Sids -> Statuses \cup {"none"}]
      BY <2>17, <3>2, PersistType DEF Reserve
    <3> QED
      BY <2>17, <3>1, <3>2, <3>3 DEF TypeOK, Reserve
  <2>18. ASSUME NEW t \in Threads, LaunchOk(t) \/ LaunchFailed(t) PROVE TypeOK'
    <3>1. pc' \in [Threads -> Places]
      BY <2>18, GotoType DEF LaunchOk, LaunchFailed, Places, Blocks
    <3> QED
      BY <2>18, <3>1 DEF TypeOK, LaunchOk, LaunchFailed
  <2>19. ASSUME NEW t \in Threads, Register(t) PROVE TypeOK'
    <3>1. arg[t] \in Sids
      BY <2>19 DEF Register, OpenPlaces
    <3>2. status' \in [Sids -> Statuses]
      BY <2>19 DEF Register, TypeOK, Statuses
    <3>3. disk' \in [Sids -> Statuses \cup {"none"}]
      BY <2>19, <3>2, PersistType DEF Register
    <3> QED
      BY <2>19, <3>1, <3>2, <3>3, ReturnType DEF TypeOK, Register, Return
  <2>20. ASSUME NEW t \in Threads, Lookup(t) \/ CloseLook(t) PROVE TypeOK'
    <3>1. pc' \in [Threads -> Places] /\ mlock' \in [Sids -> Threads \cup {NoOne}]
      BY <2>20, ReturnType, GotoType DEF Lookup, CloseLook, TypeOK, Places, Blocks
    <3> QED
      BY <2>20, <3>1 DEF TypeOK, Lookup, CloseLook, Return
  <2>21. ASSUME NEW t \in Threads, NEW s \in Statuses, NEW st,
                status' = [status EXCEPT ![st] = s], Persist(ProcOf[t], mem, status')
         PROVE  status' \in [Sids -> Statuses] /\ disk' \in [Sids -> Statuses \cup {"none"}]
    <3>1. status' \in [Sids -> Statuses]
      BY <2>21 DEF TypeOK
    <3> QED
      BY <2>21, <3>1, PersistType
  <2>22. ASSUME NEW t \in Threads, ExecLock(t) PROVE TypeOK'
    <3>1. CASE CanExecute(ProcOf[t], arg[t])
      <4>1. pc' \in [Threads -> Places] /\ mlock' \in [Sids -> Threads \cup {NoOne}]
        BY <2>22, <3>1, GotoType DEF ExecLock, TypeOK, Places
      <4>2. status' \in [Sids -> Statuses] /\ disk' \in [Sids -> Statuses \cup {"none"}]
        BY <2>22, <3>1, <2>21 DEF ExecLock, Statuses
      <4> QED
        BY <2>22, <3>1, <4>1, <4>2 DEF TypeOK, ExecLock
    <3>2. CASE ~CanExecute(ProcOf[t], arg[t])
      BY <2>22, <3>2, ReturnType DEF TypeOK, ExecLock, Return
    <3> QED
      BY <3>1, <3>2
  <2>23. ASSUME NEW t \in Threads, ExecDone(t) PROVE TypeOK'
    BY <2>23, GotoType DEF TypeOK, ExecDone, Places, Blocks
  <2>24. ASSUME NEW t \in Threads, ExecEnd(t) PROVE TypeOK'
    <3>1. pc' \in [Threads -> Places] /\ mlock' \in [Sids -> Threads \cup {NoOne}]
      BY <2>24, ReturnType DEF ExecEnd
    <3>2. CASE Local(ProcOf[t], arg[t])
      <4>1. status' \in [Sids -> Statuses] /\ disk' \in [Sids -> Statuses \cup {"none"}]
        BY <2>24, <3>2, <2>21 DEF ExecEnd, Statuses
      <4> QED
        BY <2>24, <3>1, <3>2, <4>1 DEF TypeOK, ExecEnd, Return
    <3>3. CASE ~Local(ProcOf[t], arg[t])
      BY <2>24, <3>1, <3>3 DEF TypeOK, ExecEnd, Return
    <3> QED
      BY <3>2, <3>3
  <2>25. ASSUME NEW t \in Threads, Purge(t) PROVE TypeOK'
    <3>1. arg[t] \in Sids
      BY <2>25 DEF Purge, ClosePlaces
    <3>2. /\ mem' \subseteq Sids /\ status' \in [Sids -> Statuses]
          /\ disk' \in [Sids -> Statuses \cup {"none"}] /\ closedOK' \subseteq Sids
          /\ UNCHANGED <<handle, due>>
      BY <2>25, <3>1, RemoveType DEF TypeOK, Purge, Statuses
    <3> QED
      BY <2>25, <3>2, ReturnType DEF TypeOK, Purge, Return
  <2>26. ASSUME NEW t \in Threads, CloseLock(t) PROVE TypeOK'
    <3>1. CASE Return(t) /\ UNCHANGED recordVars
      BY <2>26, <3>1, ReturnType DEF TypeOK, CloseLock, Return
    <3>2. CASE /\ mlock' = [mlock EXCEPT ![arg[t]] = t]
               /\ Goto(t, "purge") /\ UNCHANGED <<recordVars, callVars>>
      BY <2>26, <3>2, GotoType DEF TypeOK, CloseLock, Places, Blocks
    <3>3. CASE /\ mlock' = [mlock EXCEPT ![arg[t]] = t]
               /\ status' = [status EXCEPT ![arg[t]] = "closing"]
               /\ Persist(ProcOf[t], mem, status')
               /\ Goto(t, "shut") /\ UNCHANGED <<mem, handle, due, callVars>>
      <4>1. status' \in [Sids -> Statuses] /\ disk' \in [Sids -> Statuses \cup {"none"}]
        BY <3>3, <2>21 DEF Statuses
      <4>2. pc' \in [Threads -> Places]
        BY <3>3, GotoType DEF Places
      <4> QED
        BY <2>26, <3>3, <4>1, <4>2 DEF TypeOK, CloseLock
    <3> QED
      BY <2>26, <3>1, <3>2, <3>3 DEF CloseLock
  <2>27. ASSUME NEW t \in Threads, CloseShut(t) PROVE TypeOK'
    <3>1. pc' \in [Threads -> Places] /\ status' \in [Sids -> Statuses]
      BY <2>27, GotoType DEF TypeOK, CloseShut, Places, Statuses
    <3> QED
      BY <2>27, <3>1 DEF TypeOK, CloseShut
  <2>28. ASSUME NEW t \in Threads, CloseAll(t) PROVE TypeOK'
    <3>1. Listed(ProcOf[t]) \subseteq Sids /\ pc' \in [Threads -> Places]
      BY <2>28, GotoType DEF CloseAll, Listed, Places
    <3> QED
      BY <2>28, <3>1 DEF TypeOK, CloseAll
  <2>29. ASSUME NEW t \in Threads, NextClose(t) PROVE TypeOK'
    <3>1. pc' \in [Threads -> Places]
      BY <2>29, GotoType DEF NextClose, Places, Blocks
    <3>2. arg' \in [Threads -> Sids \cup {NoOne}] /\ rest' \in [Threads -> SUBSET Sids]
      BY <2>29 DEF TypeOK, NextClose
    <3> QED
      BY <2>29, <3>1, <3>2 DEF TypeOK, NextClose
  <2>30. ASSUME NEW t \in Threads, LockTimeout(t) PROVE TypeOK'
    <3>1. CASE Return(t)
      BY <2>30, <3>1, ReturnType DEF TypeOK, LockTimeout, Return
    <3>2. CASE Goto(t, "idle") /\ UNCHANGED <<mlock, callVars>>
      BY <2>30, <3>2, GotoType DEF TypeOK, LockTimeout, Places
    <3> QED
      BY <2>30, <3>1, <3>2 DEF LockTimeout
  <2>31. ASSUME NEW s \in Sids, TimePasses(s) PROVE TypeOK'
    BY <2>31 DEF TypeOK, TimePasses
  <2>32. ASSUME NEW p \in Procs, Crash(p) PROVE TypeOK'
    <3>1. pc' \in [Threads -> Places] /\ mlock' \in [Sids -> Threads \cup {NoOne}]
      BY <2>32 DEF TypeOK, Crash, Places
    <3> QED
      BY <2>32, <3>1 DEF TypeOK, Crash
  <2>33. CASE UNCHANGED vars
    BY <2>33 DEF TypeOK, vars
  <2>34. CASE FileLost
    BY <2>34 DEF TypeOK, FileLost
  <2> QED
    BY <2>1, <2>2, <2>3, <2>4, <2>6, <2>7, <2>8, <2>9, <2>10, <2>11, <2>13, <2>14, <2>15,
       <2>16, <2>17, <2>18, <2>19, <2>20, <2>22, <2>23, <2>24, <2>25, <2>26, <2>27, <2>28,
       <2>29, <2>30, <2>31, <2>32, <2>33, <2>34 DEF Next, Step
<1>3. Init => TypeInv
  BY <1>1 DEF Init, TypeInv, PlaceFitsCall, ArgNamed, OpenPlaces, ExecutePlaces, ClosePlaces,
       Outside
<1> QED
  BY <1>2, <1>3, PTL DEF Spec

\* Every reachable state of the store is well typed.
THEOREM TypeCorrect == Spec => []TypeOK
<1>1. TypeInv => TypeOK
  BY DEF TypeInv
<1> QED
  BY <1>1, TypeInvariant, PTL

-----------------------------------------------------------------------------
(***************************************************************************)
(* One user at a time.  A thread in a call to a product holds that         *)
(* session's managed.lock, runs in its owner's process and finds the       *)
(* handle; a handle always leads to a product that runs.  Only Register    *)
(* makes a handle, and there is one open per session: until it registers   *)
(* there is none.                                                          *)
(***************************************************************************)
Claims(t, s) == \/ pc[t] \in {"running", "shut", "closing"} /\ arg[t] = s
                \/ pc[t] = "expireClosing" /\ cur[t] = s
Opening(t) == op[t] = "open" /\ pc[t] \notin {"idle", "dead"}

ClaimsHold ==
  \A s \in Sids : \A t \in Threads :
    Claims(t, s) => mlock[s] = t /\ owner[s] = ProcOf[t] /\ s \in handle
ExpiresOwn ==
  \A t \in Threads : pc[t] \in {"expireLock", "expireClosing"} =>
    cur[t] \in Sids /\ owner[cur[t]] = ProcOf[t]
HandleLive == \A s \in handle : product[s] = "live" /\ owner[s] # NoOne
OpenerAlone ==
  \A t \in Threads : Opening(t) =>
    /\ owner[arg[t]] = ProcOf[t] /\ arg[t] \notin handle
    /\ pc[t] = "register" => product[arg[t]] = "live"
    /\ \A u \in Threads : Opening(u) /\ arg[u] = arg[t] => u = t

UseInv == ClaimsHold /\ ExpiresOwn /\ HandleLive /\ OpenerAlone

\* A step that moves one thread to a place without a claim, and frees at most
\* the lock it holds, keeps the invariant.
LEMMA Unclaimed ==
  ASSUME TypeInv, UseInv, NEW t \in Threads, NEW there,
         pc[t] \notin {"idle", "dead"},
         there \notin {"running", "shut", "closing", "expireClosing", "expireLock", "register"},
         Goto(t, there),
         Release(t) \/ UNCHANGED mlock,
         UNCHANGED <<owner, handle, product, op>>,
         arg' = arg \/ (op[t] # "open" /\ \A u \in Threads \ {t} : arg'[u] = arg[u]),
         \A u \in Threads \ {t} : cur'[u] = cur[u]
  PROVE  UseInv'
<1> USE DEF TypeInv, TypeOK, Goto, Claims, Opening
<1>1. \A u \in Threads \ {t} : pc'[u] = pc[u] /\ arg'[u] = arg[u] /\ cur'[u] = cur[u]
  OBVIOUS
<1>2. pc'[t] = there
  OBVIOUS
<1>3. ClaimsHold'
  <2>1. \A s \in Sids : mlock[s] # t => mlock'[s] = mlock[s]
    BY DEF Release
  <2> QED
    BY <1>1, <1>2, <2>1 DEF UseInv, ClaimsHold
<1>4. ExpiresOwn' /\ HandleLive'
  BY <1>1, <1>2 DEF UseInv, ExpiresOwn, HandleLive
<1>5. OpenerAlone'
  BY <1>1, <1>2 DEF UseInv, OpenerAlone
<1> QED
  BY <1>3, <1>4, <1>5 DEF UseInv

\* Every step keeps what makes a product exclusively used.
LEMMA UseStep ==
  ASSUME TypeInv, TypeInv', UseInv, [Next]_vars
  PROVE  UseInv'
<1> USE StoreAssumption DEF callVars, recordVars, history
<1>0. /\ \A o \in Operations : FirstStep(o) \in {"reserve", "lookup", "listing", "closeLook"}
      /\ \A t \in Threads : op[t] \in Operations /\ ProcOf[t] \in Procs
  BY DEF FirstStep, Operations, TypeInv, TypeOK
<1>1. ASSUME NEW t \in Threads, CallSomething(t) PROVE UseInv'
  <2> USE DEF TypeInv, TypeOK, UseInv, Goto, Claims, Opening
  <2>1. ASSUME NEW s \in Sids, CallOpen(t, s) PROVE UseInv'
    <3>1. owner[s] = NoOne /\ \A r \in Sids \ {s} : owner'[r] = owner[r]
      BY <2>1 DEF CallOpen
    <3>2. ClaimsHold'
      BY <2>1, <3>1 DEF CallOpen, Call, ClaimsHold
    <3>3. ExpiresOwn'
      <4>1. ASSUME NEW u \in Threads, pc'[u] \in {"expireLock", "expireClosing"}
            PROVE  cur'[u] \in Sids /\ owner'[cur'[u]] = ProcOf[u]
        <5>1. u # t /\ pc[u] = pc'[u] /\ cur' = cur
          BY <2>1, <4>1 DEF CallOpen, Call
        <5>2. cur[u] \in Sids /\ owner[cur[u]] = ProcOf[u]
          BY <4>1, <5>1 DEF ExpiresOwn
        <5>3. cur[u] # s
          BY <5>2, <3>1
        <5> QED
          BY <2>1, <5>1, <5>2, <5>3 DEF CallOpen
      <4> QED
        BY <4>1 DEF ExpiresOwn
    <3>4. HandleLive'
      BY <2>1, <3>1 DEF CallOpen, Call, HandleLive
    <3>5. OpenerAlone'
      BY <2>1, <3>1, <3>4 DEF CallOpen, Call, OpenerAlone, HandleLive, ArgNamed, Outside
    <3> QED
      BY <3>2, <3>3, <3>4, <3>5
  <2>2. ASSUME NEW o \in Calls \ {"open"}, NEW s, Call(t, o, s), UNCHANGED owner,
               Goto(t, "cleanup") \/ Goto(t, "closeAll")
        PROVE UseInv'
    BY <2>2 DEF Call, ClaimsHold, ExpiresOwn, HandleLive, OpenerAlone
  <2> QED
    BY <1>1, <2>1, <2>2 DEF CallSomething, CallOn, CallList, CallCloseAll, Call
<1>2. ASSUME NEW t \in Threads, Return(t), pc[t] \notin {"idle", "dead"},
             UNCHANGED <<owner, handle, product>>
      PROVE UseInv'
  BY <1>2, Unclaimed DEF Return, TypeInv, TypeOK, PlaceFitsCall
<1>3. ASSUME NEW t \in Threads, Cleanup(t) PROVE UseInv'
  BY <1>0, <1>3, Unclaimed DEF Cleanup
<1>4. ASSUME NEW t \in Threads, NEW s \in Sids, Expire(t, s) PROVE UseInv'
  <2>1. CASE \E there \in {FirstStep(op[t]), "expire"} : Goto(t, there) /\ UNCHANGED cur
    BY <1>0, <1>4, <2>1, Unclaimed DEF Expire
  <2>2. CASE HasHandle(ProcOf[t], s) /\ cur' = [cur EXCEPT ![t] = s] /\ Goto(t, "expireLock")
    BY <1>4, <2>2 DEF Expire, HasHandle, Local, TypeInv, TypeOK, UseInv, Goto, Claims, Opening,
       ClaimsHold, ExpiresOwn, HandleLive, OpenerAlone
  <2> QED
    BY <1>4, <2>1, <2>2 DEF Expire
<1>5. ASSUME NEW t \in Threads, ExpireLock(t) PROVE UseInv'
  <2>1. CASE cur[t] \in handle
    <3>0. /\ pc' = [pc EXCEPT ![t] = "expireClosing"] /\ pc[t] = "expireLock"
          /\ pc \in [Threads -> Places]
          /\ UNCHANGED <<owner, handle, product, op, arg, cur>>
      BY <1>5, <2>1 DEF ExpireLock, TypeInv, TypeOK, Goto, callVars
    <3>3. OpenerAlone'
      BY <3>0 DEF UseInv, OpenerAlone, Opening
    <3> USE <1>5, <2>1 DEF ExpireLock, TypeInv, TypeOK, UseInv, Goto, Claims, Opening
    <3>1. ClaimsHold'
      BY DEF ClaimsHold, ExpiresOwn
    <3>2. ExpiresOwn' /\ HandleLive'
      BY DEF ExpiresOwn, HandleLive
    <3> QED
      BY <3>1, <3>2, <3>3
  <2>2. CASE cur[t] \notin handle
    BY <1>5, <2>2, Unclaimed DEF ExpireLock
  <2> QED
    BY <2>1, <2>2
<1>6. ASSUME NEW t \in Threads, NEW s \in Sids, NEW ok, Claims(t, s), ShutDown(t, s, ok),
             NEW there \in {"expireRemove", "expireMark", "closeRemove", "closeMark"},
             Goto(t, there), Release(t) \/ UNCHANGED mlock
      PROVE UseInv'
  <2> USE DEF TypeInv, TypeOK, UseInv, Goto, Claims, Opening, ShutDown
  <2>1. ClaimsHold'
    BY <1>6 DEF ClaimsHold, Release
  <2>2. ExpiresOwn' /\ HandleLive'
    BY <1>6 DEF ExpiresOwn, HandleLive
  <2>3. OpenerAlone'
    BY <1>6 DEF ClaimsHold, OpenerAlone
  <2> QED
    BY <2>1, <2>2, <2>3
<1>7. ASSUME NEW t \in Threads,
             ExpireClosed(t) \/ ExpireFailed(t) \/ Closed(t) \/ CloseFailed(t)
      PROVE UseInv'
  <2>1. /\ pc[t] \in ClosePlaces => arg[t] \in Sids
        /\ pc[t] = "expireClosing" => cur[t] \in Sids
    BY DEF TypeInv, ArgNamed, PlaceFitsCall, ClosePlaces, Outside, UseInv, ExpiresOwn
  <2> QED
    BY <1>6, <1>7, <2>1 DEF ExpireClosed, ExpireFailed, Closed, CloseFailed, Claims, ClosePlaces
<1>8. ASSUME NEW t \in Threads, ExpireMark(t) \/ ExpireRemove(t) PROVE UseInv'
  <2>1. PICK there \in {FirstStep(op[t]), "expire"} : Goto(t, there)
    BY <1>8 DEF ExpireMark, ExpireRemove, NextExpired
  <2>2. /\ Release(t) /\ UNCHANGED <<owner, handle, product, op, arg>>
        /\ \A u \in Threads \ {t} : cur'[u] = cur[u]
    BY <1>8 DEF ExpireMark, ExpireRemove, MarkCloseFailure, RemoveOwn, NextExpired, TypeInv,
         TypeOK
  <2>3. pc[t] \notin {"idle", "dead"}
    BY <1>8 DEF ExpireMark, ExpireRemove
  <2>4. there \in {"reserve", "lookup", "listing", "closeLook", "expire"}
    BY <1>0, <2>1
  <2> QED
    BY <2>1, <2>2, <2>3, <2>4, Unclaimed
<1>9. ASSUME NEW t \in Threads, \/ ReserveRefused(t) \/ Unregister(t) \/ Listing(t)
                                \/ ExecEnd(t) \/ Purge(t) \/ CloseMark(t) \/ CloseRemove(t)
      PROVE UseInv'
  BY <1>2, <1>9 DEF ReserveRefused, Unregister, Listing, ExecEnd, Purge, CloseMark,
     CloseRemove, MarkCloseFailure, RemoveOwn
<1>10. ASSUME NEW t \in Threads, Reserve(t) \/ LaunchFailed(t) PROVE UseInv'
  BY <1>10, Unclaimed DEF Reserve, LaunchFailed
<1>11. ASSUME NEW t \in Threads, LaunchOk(t) PROVE UseInv'
  <2>1. arg[t] \in Sids /\ op[t] = "open"
    BY <1>11 DEF LaunchOk, TypeInv, ArgNamed, PlaceFitsCall, OpenPlaces, Outside
  <2> USE <1>11, <2>1 DEF LaunchOk, TypeInv, TypeOK, UseInv, Goto, Claims, Opening
  <2>2. ClaimsHold' /\ ExpiresOwn'
    BY DEF ClaimsHold, ExpiresOwn
  <2>3. HandleLive'
    BY DEF HandleLive
  <2>4. OpenerAlone'
    BY DEF OpenerAlone
  <2> QED
    BY <2>2, <2>3, <2>4
<1>12. ASSUME NEW t \in Threads, Register(t) PROVE UseInv'
  <2>1. arg[t] \in Sids /\ op[t] = "open"
    BY <1>12 DEF Register, TypeInv, ArgNamed, PlaceFitsCall, OpenPlaces, Outside
  <2>2. /\ owner[arg[t]] = ProcOf[t] /\ product[arg[t]] = "live"
        /\ \A u \in Threads \ {t} : Opening(u) => arg[u] # arg[t]
    BY <1>12, <2>1 DEF Register, UseInv, OpenerAlone, Opening
  <2>3. pc'[t] = "idle" /\ \A u \in Threads \ {t} : pc'[u] = pc[u]
    BY <1>12, <2>1 DEF Register, Return, Goto, TypeInv, TypeOK
  <2>4. \A s \in Sids : mlock[s] # t => mlock'[s] = mlock[s]
    BY <1>12 DEF Register, Return, Release
  <2> USE <1>12, <2>1, <2>2, <2>3, <2>4
      DEF Register, Return, TypeInv, TypeOK, UseInv, Claims, Opening
  <2>5. ClaimsHold'
    BY DEF ClaimsHold
  <2>6. ExpiresOwn' /\ HandleLive'
    BY DEF ExpiresOwn, HandleLive
  <2>7. OpenerAlone'
    BY SMTT(60) DEF OpenerAlone
  <2> QED
    BY <2>5, <2>6, <2>7
<1>13. ASSUME NEW t \in Threads, Lookup(t) \/ CloseLook(t) PROVE UseInv'
  <2>1. CASE Return(t)
    BY <1>2, <1>13, <2>1 DEF Lookup, CloseLook
  <2>2. CASE \E there \in {"execLock", "closeLock", "purge"} :
               Goto(t, there) /\ UNCHANGED <<mlock, callVars>>
    BY <1>13, <2>2, Unclaimed DEF Lookup, CloseLook
  <2> QED
    BY <1>13, <2>1, <2>2 DEF Lookup, CloseLook
<1>14. ASSUME NEW t \in Threads, NEW s \in Sids, NEW there \in {"running", "shut"},
              s = arg[t], op[t] # "open", mlock[s] = NoOne, HasHandle(ProcOf[t], s),
              mlock' = [mlock EXCEPT ![s] = t], Goto(t, there),
              UNCHANGED <<owner, handle, product, callVars>>
       PROVE UseInv'
  <2> USE <1>14 DEF HasHandle, Local, TypeInv, TypeOK, UseInv, Goto, Claims, Opening
  <2>1. ClaimsHold'
    BY DEF ClaimsHold
  <2>2. ExpiresOwn' /\ HandleLive'
    BY DEF ExpiresOwn, HandleLive
  <2>3. OpenerAlone'
    BY DEF OpenerAlone
  <2> QED
    BY <2>1, <2>2, <2>3
<1>15. ASSUME NEW t \in Threads, ExecLock(t) PROVE UseInv'
  <2>1. arg[t] \in Sids /\ op[t] # "open"
    BY <1>15 DEF ExecLock, TypeInv, ArgNamed, PlaceFitsCall, ExecutePlaces, Outside
  <2>2. CASE CanExecute(ProcOf[t], arg[t])
    BY <1>14, <1>15, <2>1, <2>2 DEF ExecLock, CanExecute, LockFree, HasHandle
  <2>3. CASE ~CanExecute(ProcOf[t], arg[t])
    BY <1>2, <1>15, <2>3 DEF ExecLock
  <2> QED
    BY <2>2, <2>3
<1>16. ASSUME NEW t \in Threads, ExecDone(t) PROVE UseInv'
  BY <1>16, Unclaimed DEF ExecDone
<1>17. ASSUME NEW t \in Threads, CloseLock(t) PROVE UseInv'
  <2>1. arg[t] \in Sids /\ op[t] # "open"
    BY <1>17 DEF CloseLock, TypeInv, ArgNamed, PlaceFitsCall, ClosePlaces, Outside
  <2>2. CASE Return(t)
    BY <1>2, <1>17, <2>2 DEF CloseLock
  <2>3. CASE /\ mlock' = [mlock EXCEPT ![arg[t]] = t]
             /\ Goto(t, "purge") /\ UNCHANGED <<recordVars, callVars>>
    <3> USE <1>17, <2>1, <2>3 DEF CloseLock, TypeInv, TypeOK, UseInv, Goto, Claims, Opening
    <3>1. ClaimsHold'
      BY DEF ClaimsHold
    <3>2. ExpiresOwn' /\ HandleLive'
      BY DEF ExpiresOwn, HandleLive
    <3>3. OpenerAlone'
      BY DEF OpenerAlone
    <3> QED
      BY <3>1, <3>2, <3>3
  <2>4. CASE HasHandle(ProcOf[t], arg[t]) /\ Goto(t, "shut")
             /\ mlock' = [mlock EXCEPT ![arg[t]] = t] /\ UNCHANGED <<handle, callVars>>
    BY <1>14, <1>17, <2>1, <2>4 DEF CloseLock
  <2> QED
    BY <1>17, <2>2, <2>3, <2>4 DEF CloseLock
<1>18. ASSUME NEW t \in Threads, CloseShut(t) PROVE UseInv'
  <2> USE <1>18 DEF CloseShut, TypeInv, TypeOK, UseInv, Goto, Claims, Opening
  <2>1. ClaimsHold' /\ ExpiresOwn' /\ HandleLive'
    BY DEF ClaimsHold, ExpiresOwn, HandleLive
  <2>2. OpenerAlone'
    BY DEF OpenerAlone
  <2> QED
    BY <2>1, <2>2
<1>19. ASSUME NEW t \in Threads, CloseAll(t) \/ NextClose(t) PROVE UseInv'
  <2>1. op[t] # "open"
    BY <1>19 DEF CloseAll, NextClose, TypeInv, PlaceFitsCall
  <2>2. /\ \E there \in {"nextClose", "idle", "cleanup"} : Goto(t, there)
        /\ pc[t] \notin {"idle", "dead"}
        /\ UNCHANGED <<owner, handle, product, op, mlock, cur>>
        /\ \A u \in Threads \ {t} : arg'[u] = arg[u]
    BY <1>19 DEF CloseAll, NextClose, TypeInv, TypeOK
  <2> QED
    BY <2>1, <2>2, Unclaimed
<1>20. ASSUME NEW t \in Threads, LockTimeout(t) PROVE UseInv'
  <2>1. pc[t] \notin {"idle", "dead"}
    BY <1>20 DEF LockTimeout, Blocks
  <2>2. CASE Return(t)
    BY <1>2, <1>20, <2>1, <2>2 DEF LockTimeout
  <2>3. CASE Goto(t, "idle") /\ UNCHANGED <<mlock, callVars>>
    BY <1>20, <2>1, <2>3, Unclaimed DEF LockTimeout
  <2> QED
    BY <1>20, <2>2, <2>3 DEF LockTimeout
<1>21. ASSUME NEW s \in Sids, TimePasses(s) PROVE UseInv'
  BY <1>21 DEF TimePasses, UseInv, ClaimsHold, ExpiresOwn, HandleLive, OpenerAlone, Claims,
       Opening
<1>22. ASSUME NEW p \in Procs, Crash(p) PROVE UseInv'
  <2>1. \A t \in Threads : pc'[t] = IF ProcOf[t] = p THEN "dead" ELSE pc[t]
    BY <1>22 DEF Crash
  <2>2. UNCHANGED <<owner, product, op, arg, cur>>
          /\ handle' = {s \in handle : s \notin Sids \/ owner[s] # p}
    BY <1>22 DEF Crash
  <2>3. \A s \in Sids, t \in Threads : ProcOf[t] # p /\ mlock[s] = t => mlock'[s] = t
    BY <1>22 DEF Crash
  <2> USE <2>1, <2>2, <2>3 DEF TypeInv, TypeOK, UseInv, Claims, Opening
  <2>4. ClaimsHold'
    BY DEF ClaimsHold
  <2>5. ExpiresOwn' /\ HandleLive'
    BY DEF ExpiresOwn, HandleLive
  <2>6. OpenerAlone'
    BY DEF OpenerAlone
  <2> QED
    BY <2>4, <2>5, <2>6
<1>23. CASE UNCHANGED vars
  BY <1>23 DEF vars, UseInv, ClaimsHold, ExpiresOwn, HandleLive, OpenerAlone, Claims, Opening
<1>24. CASE FileLost
  BY <1>24 DEF FileLost, UseInv, ClaimsHold, ExpiresOwn, HandleLive, OpenerAlone, Claims, Opening
<1> QED
  BY <1>1, <1>3, <1>4, <1>5, <1>7, <1>8, <1>9, <1>10, <1>11, <1>12, <1>13, <1>15, <1>16,
     <1>17, <1>18, <1>19, <1>20, <1>21, <1>22, <1>23, <1>24 DEF Next, Step

\* The usage invariant holds in every environment.
LEMMA UseInvariant == Spec => []UseInv
<1>1. Init => UseInv
  BY DEF Init, UseInv, ClaimsHold, ExpiresOwn, HandleLive, OpenerAlone, Claims, Opening
<1>2. TypeInv /\ TypeInv' /\ UseInv /\ [Next]_vars => UseInv'
  BY UseStep
<1> QED
  BY <1>1, <1>2, TypeInvariant, PTL DEF Spec

\* A product never has two users at once: executions are serial, and neither
\* close nor expiry shuts a product down under an execution.
THEOREM OneUser == Spec => []OneUserAtATime
<1>1. UseInv => OneUserAtATime
  BY DEF UseInv, ClaimsHold, OneUserAtATime, Using, Claims
<1> QED
  BY <1>1, UseInvariant, PTL

\* A product in use was launched, and nobody has closed it or dropped its handle.
THEOREM LiveUse == Spec => []UsesLiveProduct
<1>1. UseInv => UsesLiveProduct
  BY DEF UseInv, ClaimsHold, HandleLive, UsesLiveProduct, Using, Claims
<1> QED
  BY <1>1, UseInvariant, PTL
=============================================================================
