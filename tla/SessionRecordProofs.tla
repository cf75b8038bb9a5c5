------------------------ MODULE SessionRecordProofs ------------------------
(***************************************************************************)
(* More about SessionStore, for any processes, threads, sessions and       *)
(* limits: memory and sessions.json agree, the limits are kept, no product *)
(* is lost, a closed session is closed.  Where a flag of the environment   *)
(* matters the theorem names it; the others stay free.                     *)
(***************************************************************************)
EXTENDS SessionStoreProofs, FiniteSetTheorems

-----------------------------------------------------------------------------
(***************************************************************************)
(* Who is past what.  A session is in `returned` from the moment its open  *)
(* registers it, and its opener is inside its call no longer: whoever      *)
(* executes, closes or expires a session with a handle meets no opener.    *)
(***************************************************************************)
\* The places of an expiry and of a call that have a session in hand.
ExpiryPlaces == {"expireLock", "expireClosing", "expireMark", "expireRemove"}
UsePlaces == {"running", "execEnd", "shut", "closing", "closeMark", "closeRemove"}

\* Threads run, and records are in memory, only in processes that live.
OnlyTheLiving ==
  /\ \A t \in Threads : pc[t] # "dead" => ProcOf[t] \in alive
  /\ \A s \in mem \cup handle : owner[s] \in alive

\* Nothing is known of an id that was never drawn.
OnlyTheDrawn ==
  \A s \in Sids : owner[s] = NoOne => disk[s] = "none" /\ s \notin returned /\ product[s] = "none"

\* What has a handle was returned, and so was what an expiry, an execution or a
\* close has in hand, which is its own process's; what is being opened was not yet.
Registered ==
  /\ handle \subseteq returned
  /\ \A t \in Threads : /\ Opening(t) => arg[t] \notin returned
                        /\ pc[t] \in ExpiryPlaces =>
                             cur[t] \in returned /\ owner[cur[t]] = ProcOf[t]
                        /\ pc[t] \in UsePlaces => arg[t] \in returned /\ owner[arg[t]] = ProcOf[t]

\* Once a shutdown was tried, the handle is gone for good.
HandleDropped ==
  \A t \in Threads : /\ pc[t] \in {"expireMark", "expireRemove"} => cur[t] \notin handle
                     /\ pc[t] \in {"closeMark", "closeRemove"} => arg[t] \notin handle

\* All of the above.
PastInv == OnlyTheLiving /\ OnlyTheDrawn /\ Registered /\ HandleDropped

-----------------------------------------------------------------------------
(***************************************************************************)
(* What the file says of a session in use is what its owner says.          *)
(***************************************************************************)
\* Thread t is executing on s, or about to shut s down.
Executing(t, s) == pc[t] \in {"running", "execEnd"} /\ arg[t] = s
Ending(t, s) == \/ pc[t] \in {"shut", "closing"} /\ arg[t] = s
                \/ pc[t] \in {"expireLock", "expireClosing"} /\ cur[t] = s

\* An execution keeps its session busy, under managed.lock, as long as it is listed.
ExecutingIsBusy ==
  \A t \in Threads, s \in Sids : Executing(t, s) /\ s \in mem =>
    status[s] = "busy" /\ mlock[s] = t /\ s \in handle

\* Who is to shut a session down has announced it, in memory and on disk.
EndingIsKnown ==
  \A t \in Threads, s \in Sids : Ending(t, s) =>
    status[s] \notin ActiveStatuses /\ disk[s] \notin ActiveStatuses

\* A session that may be executed on has its handle.
OpenHasHandle == \A s \in mem : status[s] \in {"open", "busy"} => s \in handle

\* The file says only what the owner in its memory says too.
DiskFromMemory ==
  \A s \in Sids : disk[s] \in ActiveStatuses /\ owner[s] \in alive =>
    s \in mem /\ disk[s] = status[s]

\* All of the above.
FileInv == ExecutingIsBusy /\ EndingIsKnown /\ OpenHasHandle /\ DiskFromMemory

\* And all of that, unless it is lost.
ActiveOnDisk == \A s \in Active : disk[s] = status[s]

-----------------------------------------------------------------------------
(***************************************************************************)
(* Callers that name only what an open has returned.                       *)
(***************************************************************************)
\* A close names a session an open has returned, and nobody closes all sessions of a
\* process that is opening one.
Orderly ==
  \A t \in Threads : pc[t] \notin {"idle", "dead"} =>
    /\ op[t] = "close" => arg[t] \in returned
    /\ op[t] = "closeAll" => \A u \in Threads : Opening(u) => ProcOf[u] # ProcOf[t]

\* A pending record stays as it was reserved until its open is over.
PendingKept ==
  \A t \in Threads : pc[t] \in {"launch", "register", "unregister"} =>
    arg[t] \in mem /\ status[arg[t]] = "opening" /\ arg[t] \notin due

\* No limit is worth anything unless what it counts can be counted.
FinitelyMany == IsFiniteSet({s \in Sids : owner[s] # NoOne})

\* The sessions of S are no more than may be open, altogether and of each adapter.
WithinLimits(S) ==
  /\ Cardinality(S) <= MaxSessions
  /\ \A s \in S : Cardinality({r \in S : AdapterOf[r] = AdapterOf[s]}) <= MaxPerAdapter

\* A handle is never dropped with its record: who purges one finds it without.
HandleListed ==
  /\ handle \subseteq mem
  /\ \A t \in Threads : pc[t] = "purge" /\ owner[arg[t]] = ProcOf[t] => arg[t] \notin handle

\* A product that runs has a handle, or is about to get one from its opener.
LiveReachable ==
  \A s \in Sids : product[s] = "live" /\ owner[s] \in alive =>
    s \in handle \/ \E t \in Threads : pc[t] = "register" /\ arg[t] = s

\* One process on its own: a broker, or the command line.
OneProcess == \A p, q \in Procs : p = q

\* What was closed has left memory, its product is gone, and no open brings it back.
ClosedForGood ==
  \A s \in closedOK : /\ s \notin mem /\ owner[s] # NoOne
                      /\ owner[s] \in alive => product[s] # "live"
                      /\ \A t \in Threads : Opening(t) => arg[t] # s

\* What expiry has in hand stays due while no shutdown fails.
DueInHand ==
  \A t \in Threads : /\ pc[t] \notin {"expireMark", "closeMark"}
                     /\ pc[t] \in {"expireLock", "expireClosing", "expireRemove"} =>
                          cur[t] \in due

-----------------------------------------------------------------------------
(***************************************************************************)
(* The steps.                                                              *)
(***************************************************************************)
\* Expiry over, a call begins with one of four places.
LEMMA FirstPlace ==
  ASSUME TypeOK, NEW t \in Threads
  PROVE  FirstStep(op[t]) \in {"reserve", "lookup", "listing", "closeLook"}
<1>1. \A o \in Operations : FirstStep(o) \in {"reserve", "lookup", "listing", "closeLook"}
  BY DEF FirstStep, Operations
<1> QED
  BY <1>1 DEF TypeOK


\* Writing the file names no id that was never drawn, and adds no record.
LEMMA DrawnWritten ==
  ASSUME OnlyTheDrawn, NEW p \in Procs
  PROVE  /\ \A m, st : Persist(p, m, st) => \A s \in Sids : owner[s] = NoOne => disk'[s] = "none"
         /\ \A r : Remove(p, r) =>
              mem' \subseteq mem /\ \A s \in Sids : owner[s] = NoOne => disk'[s] = "none"
BY StoreAssumption DEF OnlyTheDrawn, Persist, Remove, Listed, Local

\* Only processes that live have threads and records, and only drawn ids have a past.
LEMMA LivingStep ==
  ASSUME TypeInv, TypeInv', UseInv, OnlyTheLiving, OnlyTheDrawn, [Next]_vars
  PROVE  OnlyTheLiving' /\ OnlyTheDrawn'
<1> USE StoreAssumption DEF callVars, recordVars, history, TypeInv, TypeOK, Goto, Release,
     Return, NextExpired, OnlyTheLiving, OnlyTheDrawn
<1>1. ASSUME NEW t \in Threads, CallSomething(t) PROVE OnlyTheLiving' /\ OnlyTheDrawn'
  <2>1. ASSUME NEW s \in Sids, CallOpen(t, s) PROVE OnlyTheLiving' /\ OnlyTheDrawn'
    BY <2>1 DEF CallOpen, Call
  <2>2. ASSUME NEW s \in Sids, NEW o \in {"execute", "close"}, CallOn(t, o, s)
        PROVE  OnlyTheLiving' /\ OnlyTheDrawn'
    BY <2>2 DEF CallOn, Call
  <2>3. CASE CallList(t) \/ CallCloseAll(t)
    BY <2>3 DEF CallList, CallCloseAll, Call
  <2> QED
    BY <1>1, <2>1, <2>2, <2>3 DEF CallSomething
<1>2. ASSUME NEW t \in Threads, \/ Cleanup(t) \/ Lookup(t) \/ CloseLook(t)
                                \/ ReserveRefused(t) \/ Listing(t) \/ LaunchFailed(t)
                                \/ ExecDone(t) \/ CloseAll(t) \/ NextClose(t)
      PROVE  OnlyTheLiving' /\ OnlyTheDrawn'
  BY <1>2 DEF Cleanup, Lookup, CloseLook, ReserveRefused, Listing, LaunchFailed, ExecDone,
       CloseAll, NextClose
<1>3. ASSUME NEW t \in Threads, NEW s \in Sids, Expire(t, s) PROVE OnlyTheLiving' /\ OnlyTheDrawn'
  BY DrawnWritten, <1>3 DEF Expire, Local
<1>4. ASSUME NEW t \in Threads, \/ ExpireLock(t) \/ CloseShut(t)
      PROVE  OnlyTheLiving' /\ OnlyTheDrawn'
  BY <1>4 DEF ExpireLock, CloseShut
<1>5. ASSUME NEW t \in Threads, \/ ExpireClosed(t) \/ ExpireFailed(t)
      PROVE  OnlyTheLiving' /\ OnlyTheDrawn'
  BY <1>5 DEF ExpireClosed, ExpireFailed, ShutDown, ExpiresOwn, UseInv
<1>6. ASSUME NEW t \in Threads, \/ Closed(t) \/ CloseFailed(t)
      PROVE  OnlyTheLiving' /\ OnlyTheDrawn'
  BY <1>6 DEF Closed, CloseFailed, ShutDown, UseInv, ClaimsHold, Claims, PlaceFitsCall,
       OpenPlaces, ClosePlaces, ExecutePlaces, ArgNamed, Outside
<1>7. ASSUME NEW t \in Threads, \/ ExpireMark(t) \/ ExpireRemove(t)
      PROVE  OnlyTheLiving' /\ OnlyTheDrawn'
  BY DrawnWritten, <1>7 DEF ExpireMark, MarkCloseFailure, ExpireRemove, RemoveOwn, Local
<1>8. ASSUME NEW t \in Threads, \/ CloseMark(t) \/ CloseRemove(t) \/ Unregister(t)
      PROVE  OnlyTheLiving' /\ OnlyTheDrawn'
  BY DrawnWritten, <1>8 DEF CloseMark, MarkCloseFailure, CloseRemove, RemoveOwn, Unregister,
       Local
<1>9. ASSUME NEW t \in Threads, \/ ExecLock(t) \/ ExecEnd(t) \/ CloseLock(t)
      PROVE  OnlyTheLiving' /\ OnlyTheDrawn'
  BY DrawnWritten, <1>9 DEF ExecLock, CanExecute, HasHandle, ExecEnd, CloseLock
<1>10. ASSUME NEW t \in Threads, Purge(t) PROVE OnlyTheLiving' /\ OnlyTheDrawn'
  BY DrawnWritten, <1>10 DEF Purge, Local
<1>11. ASSUME NEW t \in Threads, LaunchOk(t) PROVE OnlyTheLiving' /\ OnlyTheDrawn'
  BY <1>11 DEF LaunchOk, UseInv, OpenerAlone, Opening, PlaceFitsCall, OpenPlaces, ClosePlaces,
       ExecutePlaces, ArgNamed, Outside
<1>12. ASSUME NEW t \in Threads, \/ Reserve(t) \/ Register(t)
       PROVE  OnlyTheLiving' /\ OnlyTheDrawn'
  BY DrawnWritten, <1>12 DEF Reserve, Register, UseInv, OpenerAlone, Opening, PlaceFitsCall,
       OpenPlaces, ClosePlaces, ExecutePlaces, ArgNamed, Outside
<1>13. ASSUME NEW t \in Threads, LockTimeout(t) PROVE OnlyTheLiving' /\ OnlyTheDrawn'
  BY <1>13 DEF LockTimeout, Blocks
<1>14. ASSUME NEW s \in Sids, TimePasses(s) PROVE OnlyTheLiving' /\ OnlyTheDrawn'
  BY <1>14 DEF TimePasses
<1>15. ASSUME NEW p \in Procs, Crash(p) PROVE OnlyTheLiving' /\ OnlyTheDrawn'
  BY <1>15 DEF Crash
<1>16. CASE FileLost
  BY <1>16 DEF FileLost
<1>17. CASE UNCHANGED vars
  BY <1>17 DEF vars
<1> QED
  BY <1>1, <1>2, <1>3, <1>4, <1>5, <1>6, <1>7, <1>8, <1>9, <1>10, <1>11, <1>12, <1>13, <1>14,
       <1>15, <1>16, <1>17 DEF Next, Step

\* Who works on a session whose open is over meets neither its opener nor, once it
\* was shut down, its handle.
LEMMA RegisteredStep ==
  ASSUME TypeInv, TypeInv', UseInv, PastInv, [Next]_vars
  PROVE  Registered' /\ HandleDropped'
<1> USE StoreAssumption DEF callVars, recordVars, history, TypeInv, TypeOK, PlaceFitsCall,
     OpenPlaces, ClosePlaces, ExecutePlaces, ArgNamed, Outside, Goto, Return, NextExpired,
     Registered, HandleDropped, Opening, ExpiryPlaces, UsePlaces, PastInv
<1>1. ASSUME NEW t \in Threads, CallSomething(t) PROVE Registered' /\ HandleDropped'
  <2>1. ASSUME NEW s \in Sids, CallOpen(t, s) PROVE Registered' /\ HandleDropped'
    BY <2>1 DEF CallOpen, Call, OnlyTheDrawn, UseInv, OpenerAlone, OnlyTheLiving
  <2>2. ASSUME NEW s \in Sids, NEW o \in {"execute", "close"}, CallOn(t, o, s)
        PROVE  Registered' /\ HandleDropped'
    BY <2>2 DEF CallOn, Call, OnlyTheDrawn, UseInv, OpenerAlone, OnlyTheLiving
  <2>3. CASE CallList(t) \/ CallCloseAll(t)
    BY <2>3 DEF CallList, CallCloseAll, Call, OnlyTheDrawn, UseInv, OpenerAlone, OnlyTheLiving
  <2> QED
    BY <1>1, <2>1, <2>2, <2>3 DEF CallSomething
<1>2. ASSUME NEW t \in Threads, Cleanup(t) PROVE Registered' /\ HandleDropped'
  BY FirstPlace, <1>2 DEF Cleanup
<1>3. ASSUME NEW t \in Threads, NEW s \in Sids, Expire(t, s) PROVE Registered' /\ HandleDropped'
  BY FirstPlace, <1>3 DEF Expire, HasHandle, Local
<1>4. ASSUME NEW t \in Threads, \/ ExpireLock(t) \/ ExpireClosed(t) \/ ExpireFailed(t)
      PROVE  Registered' /\ HandleDropped'
  BY <1>4 DEF ExpireLock, ExpireClosed, ExpireFailed, ShutDown, UseInv, ExpiresOwn
<1>5. ASSUME NEW t \in Threads, \/ ExpireMark(t) \/ ExpireRemove(t)
      PROVE  Registered' /\ HandleDropped'
  BY SMTT(60), FirstPlace, <1>5 DEF ExpireMark, MarkCloseFailure, ExpireRemove, RemoveOwn
<1>6. ASSUME NEW t \in Threads, \/ Reserve(t) \/ LaunchOk(t) \/ LaunchFailed(t) \/ Lookup(t)
                                \/ CloseLook(t) \/ ReserveRefused(t) \/ Listing(t)
                                \/ ExecDone(t) \/ Unregister(t)
      PROVE  Registered' /\ HandleDropped'
  BY <1>6 DEF Reserve, LaunchOk, LaunchFailed, Lookup, CloseLook, ReserveRefused, Listing,
       ExecDone, Unregister, RemoveOwn
<1>7. ASSUME NEW t \in Threads, Register(t) PROVE Registered' /\ HandleDropped'
  BY <1>7 DEF Register, UseInv, OpenerAlone
<1>8. ASSUME NEW t \in Threads, ExecLock(t) PROVE Registered' /\ HandleDropped'
  BY <1>8 DEF ExecLock, CanExecute, HasHandle, Local, UseInv
<1>9. ASSUME NEW t \in Threads, \/ ExecEnd(t) \/ Purge(t)
      PROVE  Registered' /\ HandleDropped'
  BY <1>9 DEF ExecEnd, Purge
<1>10. ASSUME NEW t \in Threads, CloseLock(t) PROVE Registered' /\ HandleDropped'
  BY <1>10 DEF CloseLock, HasHandle, Local
<1>11. ASSUME NEW t \in Threads, CloseShut(t) PROVE Registered' /\ HandleDropped'
  BY <1>11 DEF CloseShut
<1>12. ASSUME NEW t \in Threads, \/ Closed(t) \/ CloseFailed(t)
       PROVE  Registered' /\ HandleDropped'
  BY <1>12 DEF Closed, CloseFailed, ShutDown
<1>13. ASSUME NEW t \in Threads, \/ CloseMark(t) \/ CloseRemove(t)
       PROVE  Registered' /\ HandleDropped'
  BY <1>13 DEF CloseMark, MarkCloseFailure, CloseRemove, RemoveOwn
<1>14. ASSUME NEW t \in Threads, \/ CloseAll(t) \/ NextClose(t)
       PROVE  Registered' /\ HandleDropped'
  BY <1>14 DEF CloseAll, NextClose
<1>15. ASSUME NEW t \in Threads, LockTimeout(t) PROVE Registered' /\ HandleDropped'
  BY <1>15 DEF LockTimeout, Blocks
<1>16. ASSUME NEW s \in Sids, TimePasses(s) PROVE Registered' /\ HandleDropped'
  BY <1>16 DEF TimePasses
<1>17. ASSUME NEW p \in Procs, Crash(p) PROVE Registered' /\ HandleDropped'
  BY <1>17 DEF Crash
<1>18. CASE FileLost
  BY <1>18 DEF FileLost
<1>19. CASE UNCHANGED vars
  BY <1>19 DEF vars
<1> QED
  BY <1>1, <1>2, <1>3, <1>4, <1>5, <1>6, <1>7, <1>8, <1>9, <1>10, <1>11, <1>12, <1>13, <1>14,
       <1>15, <1>16, <1>17, <1>18, <1>19 DEF Next, Step


\* What a process writes of a session in use is what it has in memory if it owns
\* the session, and what was there before if another process does, that lives.
LEMMA ActiveWritten ==
  ASSUME NEW p \in Procs
  PROVE  LET Kept(s) == owner[s] \in alive \ {p} /\ disk'[s] = disk[s]
         IN /\ \A m, st : Persist(p, m, st) =>
                 \A s \in Sids : disk'[s] \in ActiveStatuses =>
                   Kept(s) \/ (owner[s] = p /\ s \in m /\ disk'[s] = st[s])
            /\ \A r : Remove(p, r) =>
                 /\ mem' = IF Local(p, r) THEN mem \ {r} ELSE mem
                 /\ \A s \in Sids : disk'[s] \in ActiveStatuses =>
                      s # r /\ (Kept(s) \/ (Local(p, s) /\ disk'[s] = status[s]))
BY DEF Persist, Remove, Listed, Local, StatusAt, ActiveStatuses

\* Every step keeps what the file and the memory say of a session in use.
LEMMA FileStep ==
  ASSUME TypeInv, TypeInv', UseInv, PastInv, FileInv, [Next]_vars
  PROVE  FileInv'
<1> USE StoreAssumption DEF callVars, recordVars, history, TypeInv, TypeOK, PlaceFitsCall,
     OpenPlaces, ClosePlaces, ExecutePlaces, ArgNamed, Outside, Goto, Release, Return,
     NextExpired, FileInv, ExecutingIsBusy, EndingIsKnown, OpenHasHandle, DiskFromMemory,
     Executing, Ending, Local
<1>1. ASSUME NEW t \in Threads, CallSomething(t) PROVE FileInv'
  <2>1. ASSUME NEW s \in Sids, CallOpen(t, s) PROVE FileInv'
    BY <2>1 DEF CallOpen, Call, PastInv, OnlyTheDrawn, OnlyTheLiving, UseInv, ClaimsHold,
         Claims, ExpiresOwn, ActiveStatuses, PastInv, Registered, Opening, ExpiryPlaces,
         UsePlaces
  <2>2. ASSUME NEW s \in Sids, NEW o \in {"execute", "close"}, CallOn(t, o, s)
        PROVE  FileInv'
    BY <2>2 DEF CallOn, Call, PastInv, OnlyTheDrawn, OnlyTheLiving, UseInv, ClaimsHold,
         Claims, ExpiresOwn, ActiveStatuses, PastInv, Registered, Opening, ExpiryPlaces,
         UsePlaces
  <2>3. CASE CallList(t) \/ CallCloseAll(t)
    BY <2>3 DEF CallList, CallCloseAll, Call, PastInv, OnlyTheDrawn, OnlyTheLiving, UseInv,
         ClaimsHold, Claims, ExpiresOwn, ActiveStatuses, PastInv, Registered, Opening,
         ExpiryPlaces, UsePlaces
  <2> QED
    BY <1>1, <2>1, <2>2, <2>3 DEF CallSomething
<1>2. ASSUME NEW t \in Threads, \/ Cleanup(t) \/ Lookup(t) \/ CloseLook(t)
                                \/ ReserveRefused(t) \/ Listing(t) \/ LaunchFailed(t)
                                \/ LaunchOk(t) \/ ExecDone(t) \/ CloseAll(t) \/ NextClose(t)
      PROVE  FileInv'
  BY SMTT(60), FirstPlace, <1>2 DEF Cleanup, Lookup, CloseLook, ReserveRefused, Listing,
       LaunchFailed,
       LaunchOk, ExecDone, CloseAll, NextClose, HasHandle
<1>3. ASSUME NEW t \in Threads, NEW s \in Sids, Expire(t, s) PROVE FileInv'
  BY SMTT(60), FirstPlace, ActiveWritten, <1>3 DEF Expire, HasHandle, Expirable, StatusAt,
       ActiveStatuses
<1>4. ASSUME NEW t \in Threads, ExpireLock(t) PROVE FileInv'
  BY <1>4 DEF ExpireLock, PastInv, Registered, Opening, ExpiryPlaces, UsePlaces,
       ActiveStatuses
<1>5. ASSUME NEW t \in Threads, CloseShut(t) PROVE FileInv'
  BY <1>5 DEF CloseShut, PastInv, Registered, Opening, ExpiryPlaces, UsePlaces,
       ActiveStatuses, UseInv, ClaimsHold, Claims
<1>6. ASSUME NEW t \in Threads, \/ ExpireClosed(t) \/ ExpireFailed(t)
      PROVE  FileInv'
  BY SMTT(60), <1>6 DEF ExpireClosed, ExpireFailed, ShutDown, UseInv, ClaimsHold, Claims,
       ExpiresOwn,
       ActiveStatuses, PastInv, Registered, Opening, ExpiryPlaces, UsePlaces
<1>7. ASSUME NEW t \in Threads, \/ Closed(t) \/ CloseFailed(t)
      PROVE  FileInv'
  <2>0. pc[t] = "closing" /\ arg[t] \in Sids
    BY <1>7 DEF Closed, CloseFailed
  <2>1. /\ arg[t] \in Sids /\ owner[arg[t]] = ProcOf[t] /\ mlock[arg[t]] = t
        /\ Ending(t, arg[t]) /\ pc[t] = "closing"
    BY <2>0 DEF UseInv, ClaimsHold, Claims
  <2>2. /\ pc' = [pc EXCEPT ![t] = pc'[t]] /\ pc'[t] \in {"closeRemove", "closeMark"}
        /\ status' = [status EXCEPT ![arg[t]] = "closed"] /\ handle' = handle \ {arg[t]}
        /\ UNCHANGED <<alive, owner, mem, disk, mlock, arg, cur>>
    BY <1>7 DEF Closed, CloseFailed, ShutDown
  <2>3. ExecutingIsBusy' /\ EndingIsKnown'
    BY <2>1, <2>2 DEF ActiveStatuses
  <2>4. OpenHasHandle' /\ DiskFromMemory'
    BY <2>1, <2>2 DEF ActiveStatuses
  <2> QED
    BY <2>3, <2>4
<1>8. ASSUME NEW t \in Threads, ExpireMark(t) PROVE FileInv'
  BY SMTT(60), FirstPlace, ActiveWritten, <1>8 DEF ExpireMark, MarkCloseFailure, HandleDropped,
       ActiveStatuses, PastInv, Registered, Opening, ExpiryPlaces, UsePlaces
<1>9. ASSUME NEW t \in Threads, ExpireRemove(t) PROVE FileInv'
  BY FirstPlace, ActiveWritten, <1>9 DEF ExpireRemove, RemoveOwn, HandleDropped,
       ActiveStatuses, PastInv, Registered, Opening, ExpiryPlaces, UsePlaces
<1>10. ASSUME NEW t \in Threads, CloseMark(t) PROVE FileInv'
  BY ActiveWritten, <1>10 DEF CloseMark, MarkCloseFailure, HandleDropped, ActiveStatuses,
       PastInv, Registered, Opening, ExpiryPlaces, UsePlaces
<1>11. ASSUME NEW t \in Threads, CloseRemove(t) PROVE FileInv'
  BY ActiveWritten, <1>11 DEF CloseRemove, RemoveOwn, HandleDropped, ActiveStatuses, PastInv,
       Registered, Opening, ExpiryPlaces, UsePlaces
<1>12. ASSUME NEW t \in Threads, Unregister(t) PROVE FileInv'
  BY ActiveWritten, <1>12 DEF Unregister, RemoveOwn, ActiveStatuses, PastInv, Registered,
       Opening, ExpiryPlaces, UsePlaces
<1>13. ASSUME NEW t \in Threads, ExecLock(t) PROVE FileInv'
  BY ActiveWritten, <1>13 DEF ExecLock, CanExecute, HasHandle, LockFree, ActiveStatuses,
       PastInv, Registered, Opening, ExpiryPlaces, UsePlaces
<1>14. ASSUME NEW t \in Threads, ExecEnd(t) PROVE FileInv'
  BY ActiveWritten, <1>14 DEF ExecEnd, ActiveStatuses, PastInv, Registered, Opening,
       ExpiryPlaces, UsePlaces
<1>15. ASSUME NEW t \in Threads, CloseLock(t) PROVE FileInv'
  BY ActiveWritten, <1>15 DEF CloseLock, HasHandle, ActiveStatuses, PastInv, Registered,
       Opening, ExpiryPlaces, UsePlaces
<1>16. ASSUME NEW t \in Threads, Purge(t) PROVE FileInv'
  <2> DEFINE p == ProcOf[t]
             s == arg[t]
  <2>1. s \in Sids /\ p \in Procs
    BY <1>16 DEF Purge
  <2>2. CASE UNCHANGED recordVars
    BY <1>16, <2>2 DEF Purge
  <2>3. CASE /\ status' = IF Local(p, s) THEN [status EXCEPT ![s] = "closed"] ELSE status
             /\ Remove(p, s) /\ UNCHANGED <<handle, due>>
    <3>1. ExecutingIsBusy'
      BY <1>16, <2>1, <2>3, ActiveWritten DEF Purge
    <3>2. EndingIsKnown'
      BY <1>16, <2>1, <2>3, ActiveWritten DEF Purge, ActiveStatuses
    <3>3. OpenHasHandle' /\ DiskFromMemory'
      BY <1>16, <2>1, <2>3, ActiveWritten DEF Purge, ActiveStatuses
    <3> QED
      BY <3>1, <3>2, <3>3
  <2> QED
    BY <1>16, <2>2, <2>3 DEF Purge
<1>17. ASSUME NEW t \in Threads, Reserve(t) PROVE FileInv'
  <2>1. /\ arg[t] \in Sids /\ owner[arg[t]] = ProcOf[t] /\ ProcOf[t] \in Procs
        /\ arg[t] \notin handle /\ op[t] = "open"
        /\ \A u \in Threads : ~Executing(u, arg[t]) /\ ~Ending(u, arg[t])
    BY SMTT(60), <1>17 DEF Reserve, UseInv, OpenerAlone, PastInv, Registered, Opening,
         ExpiryPlaces,
         UsePlaces
  <2>2. /\ \A u \in Threads : \A s \in Sids : /\ Executing(u, s)' => Executing(u, s) /\ u # t
                                              /\ Ending(u, s)' => Ending(u, s) /\ u # t
        /\ \A s \in Sids : mlock[s] # t => mlock'[s] = mlock[s]
        /\ \A s \in Sids \ {arg[t]} : /\ status'[s] = status[s]
                                      /\ s \in mem' <=> s \in mem
                                      /\ s \in handle' <=> s \in handle
        /\ arg[t] \in mem' /\ status'[arg[t]] \in {"opening", "open"}
        /\ status'[arg[t]] = "open" => arg[t] \in handle'
        /\ UNCHANGED <<alive, owner>> /\ mem' \subseteq Sids
    BY <1>17, <2>1 DEF Reserve
  <2>3. \A s \in Sids : disk'[s] \in ActiveStatuses =>
          \/ owner[s] \in alive \ {ProcOf[t]} /\ disk'[s] = disk[s]
          \/ owner[s] = ProcOf[t] /\ s \in mem' /\ disk'[s] = status'[s]
    <3>1. Persist(ProcOf[t], mem', status')
      BY <1>17 DEF Reserve
    <3> HIDE DEF FileInv, ExecutingIsBusy, EndingIsKnown, OpenHasHandle, DiskFromMemory
    <3> QED
      BY <2>1, <3>1, ActiveWritten
  <2>4. ExecutingIsBusy'
    BY <2>1, <2>2
  <2>5. EndingIsKnown'
    BY SMTT(60), <2>1, <2>2, <2>3
  <2>6. OpenHasHandle' /\ DiskFromMemory'
    BY SMTT(60), <2>1, <2>2, <2>3
  <2> QED
    BY <2>4, <2>5, <2>6
<1>18. ASSUME NEW t \in Threads, Register(t) PROVE FileInv'
  <2>1. /\ arg[t] \in Sids /\ owner[arg[t]] = ProcOf[t] /\ ProcOf[t] \in Procs
        /\ arg[t] \notin handle /\ op[t] = "open"
        /\ \A u \in Threads : ~Executing(u, arg[t]) /\ ~Ending(u, arg[t])
    BY <1>18 DEF Register, UseInv, OpenerAlone, PastInv, Registered, Opening, ExpiryPlaces,
         UsePlaces
  <2>2. /\ \A u \in Threads : \A s \in Sids : /\ Executing(u, s)' => Executing(u, s) /\ u # t
                                              /\ Ending(u, s)' => Ending(u, s) /\ u # t
        /\ \A s \in Sids : mlock[s] # t => mlock'[s] = mlock[s]
        /\ \A s \in Sids \ {arg[t]} : /\ status'[s] = status[s]
                                      /\ s \in mem' <=> s \in mem
                                      /\ s \in handle' <=> s \in handle
        /\ arg[t] \in mem' /\ status'[arg[t]] \in {"opening", "open"}
        /\ status'[arg[t]] = "open" => arg[t] \in handle'
        /\ UNCHANGED <<alive, owner>> /\ mem' \subseteq Sids
    BY <1>18, <2>1 DEF Register
  <2>3. \A s \in Sids : disk'[s] \in ActiveStatuses =>
          \/ owner[s] \in alive \ {ProcOf[t]} /\ disk'[s] = disk[s]
          \/ owner[s] = ProcOf[t] /\ s \in mem' /\ disk'[s] = status'[s]
    <3>1. Persist(ProcOf[t], mem', status')
      BY <1>18 DEF Register
    <3> HIDE DEF FileInv, ExecutingIsBusy, EndingIsKnown, OpenHasHandle, DiskFromMemory
    <3> QED
      BY <2>1, <3>1, ActiveWritten
  <2>4. ExecutingIsBusy'
    BY <2>1, <2>2
  <2>5. EndingIsKnown'
    BY SMTT(60), <2>1, <2>2, <2>3
  <2>6. OpenHasHandle' /\ DiskFromMemory'
    BY <2>1, <2>2, <2>3
  <2> QED
    BY <2>4, <2>5, <2>6
<1>19. ASSUME NEW t \in Threads, LockTimeout(t) PROVE FileInv'
  BY <1>19 DEF LockTimeout, Blocks
<1>20. ASSUME NEW s \in Sids, TimePasses(s) PROVE FileInv'
  BY <1>20 DEF TimePasses
<1>21. ASSUME NEW p \in Procs, Crash(p) PROVE FileInv'
  BY <1>21 DEF Crash, PastInv, Registered, Opening, ExpiryPlaces, UsePlaces, ActiveStatuses,
       OnlyTheLiving
<1>22. CASE FileLost
  BY <1>22 DEF FileLost, ActiveStatuses
<1>23. CASE UNCHANGED vars
  BY <1>23 DEF vars
<1> QED
  BY <1>1, <1>2, <1>3, <1>4, <1>5, <1>6, <1>7, <1>8, <1>9, <1>10, <1>11, <1>12, <1>13, <1>14,
       <1>15, <1>16, <1>17, <1>18, <1>19, <1>20, <1>21, <1>22, <1>23 DEF Next, Step


\* A process writes all it has in memory, and passes on what it read of the sessions
\* other processes use: those it takes for live, and does not remove.
LEMMA ActivePassedOn ==
  ASSUME TypeOK, ActiveOnDisk, OnlyTheLiving, NEW p \in Procs
  PROVE  /\ \A m, st : Persist(p, m, st) =>
              \A s \in Sids : /\ owner[s] = p /\ s \in m => disk'[s] = st[s]
                              /\ owner[s] # p /\ s \in Active => disk'[s] = status[s]
         /\ \A r : Remove(p, r) =>
              /\ mem' = IF Local(p, r) THEN mem \ {r} ELSE mem
              /\ \A s \in Active \ {r} : disk'[s] = status[s]
         /\ \A s \in Active : owner[s] # p => RemoteOwnedLive(p, s)
<1>1. \A s \in Active : /\ s \in Sids /\ owner[s] \in alive /\ disk[s] = status[s]
                        /\ status[s] \in ActiveStatuses
  BY DEF TypeOK, ActiveOnDisk, OnlyTheLiving, Active
<1>2. \A s \in Active : owner[s] # p => s \in Listed(p) /\ StatusAt(p, s) = status[s]
  BY <1>1 DEF Listed, StatusAt, Local, ActiveStatuses
<1>3. \A s \in Active : owner[s] # p => RemoteOwnedLive(p, s)
  BY <1>1, <1>2 DEF RemoteOwnedLive, ActiveStatuses, Terminal
<1>4. \A s \in mem : s \in Sids /\ owner[s] = p => s \in Listed(p) /\ StatusAt(p, s) = status[s]
  BY DEF Listed, StatusAt, Local
<1>5. \A s \in Active : s \in mem /\ s \in Sids
  BY <1>1 DEF Active
<1> QED
  BY <1>2, <1>3, <1>4, <1>5 DEF Persist, Remove, Local

\* Every step but a loss of the file keeps every session in use on it.
LEMMA ActiveStep ==
  ASSUME ~FileMayBeLost, TypeInv, TypeInv', UseInv, PastInv, ActiveOnDisk, [Next]_vars
  PROVE  ActiveOnDisk'
<1> USE StoreAssumption DEF callVars, recordVars, history, TypeInv, TypeOK, PlaceFitsCall,
     OpenPlaces, ClosePlaces, ExecutePlaces, ArgNamed, Outside, Goto, Release, Return,
     NextExpired, Active, Local
<1>0. OnlyTheLiving /\ TypeOK /\ ActiveOnDisk
  BY DEF PastInv
<1>1. ASSUME NEW t \in Threads, CallSomething(t) PROVE ActiveOnDisk'
  <2>1. ASSUME NEW s \in Sids, CallOpen(t, s) PROVE ActiveOnDisk'
    BY <2>1 DEF CallOpen, Call, PastInv, OnlyTheDrawn, OnlyTheLiving, ActiveOnDisk
  <2>2. ASSUME NEW s \in Sids, NEW o \in {"execute", "close"}, CallOn(t, o, s)
        PROVE  ActiveOnDisk'
    BY <2>2 DEF CallOn, Call, PastInv, OnlyTheDrawn, OnlyTheLiving, ActiveOnDisk
  <2>3. CASE CallList(t) \/ CallCloseAll(t)
    BY <2>3 DEF CallList, CallCloseAll, Call, PastInv, OnlyTheDrawn, OnlyTheLiving,
         ActiveOnDisk
  <2> QED
    BY <1>1, <2>1, <2>2, <2>3 DEF CallSomething
<1>2. ASSUME NEW t \in Threads, \/ Cleanup(t) \/ Lookup(t) \/ CloseLook(t)
                                \/ ReserveRefused(t) \/ Listing(t) \/ LaunchFailed(t)
                                \/ LaunchOk(t) \/ ExecDone(t) \/ CloseAll(t) \/ NextClose(t)
                                \/ LockTimeout(t)
      PROVE  ActiveOnDisk'
  BY <1>2 DEF Cleanup, Lookup, CloseLook, ReserveRefused, Listing, LaunchFailed, LaunchOk,
       ExecDone, CloseAll, NextClose, LockTimeout, ActiveOnDisk
<1>3. ASSUME NEW t \in Threads, NEW s \in Sids, Expire(t, s) PROVE ActiveOnDisk'
  BY <1>0, ActivePassedOn, <1>3 DEF Expire, HasHandle, Expirable, ActiveOnDisk, ActiveStatuses
<1>4. ASSUME NEW t \in Threads, \/ ExpireLock(t) \/ CloseShut(t)
      PROVE  ActiveOnDisk'
  BY <1>4 DEF ExpireLock, CloseShut, ActiveOnDisk, ActiveStatuses
<1>5. ASSUME NEW t \in Threads, \/ ExpireClosed(t) \/ ExpireFailed(t) \/ Closed(t)
                                \/ CloseFailed(t)
      PROVE  ActiveOnDisk'
  BY <1>5 DEF ExpireClosed, ExpireFailed, Closed, CloseFailed, ShutDown, ActiveOnDisk,
       ActiveStatuses
<1>6. ASSUME NEW t \in Threads, ExpireMark(t) PROVE ActiveOnDisk'
  BY ActivePassedOn, <1>0, <1>6 DEF ExpireMark, MarkCloseFailure, PastInv, Registered,
       Opening, ExpiryPlaces, UsePlaces, ActiveStatuses, ActiveOnDisk
<1>7. ASSUME NEW t \in Threads, CloseMark(t) PROVE ActiveOnDisk'
  BY ActivePassedOn, <1>0, <1>7 DEF CloseMark, MarkCloseFailure, PastInv, Registered, Opening,
       ExpiryPlaces, UsePlaces, ActiveStatuses, ActiveOnDisk
<1>8. ASSUME NEW t \in Threads, ExpireRemove(t) PROVE ActiveOnDisk'
  BY ActivePassedOn, <1>0, <1>8 DEF ExpireRemove, RemoveOwn, PastInv, Registered, Opening,
       ExpiryPlaces, UsePlaces, ActiveStatuses, ActiveOnDisk
<1>9. ASSUME NEW t \in Threads, CloseRemove(t) PROVE ActiveOnDisk'
  BY ActivePassedOn, <1>0, <1>9 DEF CloseRemove, RemoveOwn, PastInv, Registered, Opening,
       ExpiryPlaces, UsePlaces, ActiveStatuses, ActiveOnDisk
<1>10. ASSUME NEW t \in Threads, Unregister(t) PROVE ActiveOnDisk'
  BY ActivePassedOn, <1>0, <1>10 DEF Unregister, RemoveOwn, ActiveStatuses, ActiveOnDisk,
       UseInv, OpenerAlone, Opening
<1>11. ASSUME NEW t \in Threads, ExecLock(t) PROVE ActiveOnDisk'
  BY ActivePassedOn, <1>0, <1>11 DEF ExecLock, CanExecute, HasHandle, ActiveStatuses,
       ActiveOnDisk
<1>12. ASSUME NEW t \in Threads, ExecEnd(t) PROVE ActiveOnDisk'
  BY ActivePassedOn, <1>0, <1>12 DEF ExecEnd, ActiveStatuses, ActiveOnDisk
<1>13. ASSUME NEW t \in Threads, CloseLock(t) PROVE ActiveOnDisk'
  BY ActivePassedOn, <1>0, <1>13 DEF CloseLock, HasHandle, ActiveOnDisk, ActiveStatuses
<1>14. ASSUME NEW t \in Threads, Purge(t) PROVE ActiveOnDisk'
  BY ActivePassedOn, <1>0, <1>14 DEF Purge, ActiveStatuses, ActiveOnDisk
<1>15. ASSUME NEW t \in Threads, Reserve(t) PROVE ActiveOnDisk'
  <2>1. arg[t] \in Sids /\ owner[arg[t]] = ProcOf[t] /\ ProcOf[t] \in Procs
    BY <1>15 DEF Reserve, UseInv, OpenerAlone, Opening
  <2>2. /\ \A s \in Sids \ {arg[t]} : /\ status'[s] = status[s]
                                      /\ s \in mem' <=> s \in mem
        /\ mem' \subseteq Sids /\ owner' = owner
    BY <1>15, <2>1 DEF Reserve
  <2>3. \A s \in Sids : /\ owner[s] = ProcOf[t] /\ s \in mem' => disk'[s] = status'[s]
                        /\ owner[s] # ProcOf[t] /\ s \in Active => disk'[s] = status[s]
    <3>1. Persist(ProcOf[t], mem', status')
      BY <1>15 DEF Reserve
    <3> HIDE DEF Active, TypeInv
    <3> QED
      BY <1>0, <2>1, <3>1, ActivePassedOn
  <2> QED
    BY <2>1, <2>2, <2>3 DEF ActiveOnDisk, ActiveStatuses
<1>16. ASSUME NEW t \in Threads, Register(t) PROVE ActiveOnDisk'
  <2>1. arg[t] \in Sids /\ owner[arg[t]] = ProcOf[t] /\ ProcOf[t] \in Procs
    BY <1>16 DEF Register, UseInv, OpenerAlone, Opening
  <2>2. /\ \A s \in Sids \ {arg[t]} : /\ status'[s] = status[s]
                                      /\ s \in mem' <=> s \in mem
        /\ mem' \subseteq Sids /\ owner' = owner
    BY <1>16, <2>1 DEF Register
  <2>3. \A s \in Sids : /\ owner[s] = ProcOf[t] /\ s \in mem' => disk'[s] = status'[s]
                        /\ owner[s] # ProcOf[t] /\ s \in Active => disk'[s] = status[s]
    <3>1. Persist(ProcOf[t], mem', status')
      BY <1>16 DEF Register
    <3> HIDE DEF Active, TypeInv
    <3> QED
      BY <1>0, <2>1, <3>1, ActivePassedOn
  <2> QED
    BY <2>1, <2>2, <2>3 DEF ActiveOnDisk, ActiveStatuses
<1>17. ASSUME NEW s \in Sids, TimePasses(s) PROVE ActiveOnDisk'
  BY <1>17 DEF TimePasses, ActiveOnDisk
<1>18. ASSUME NEW p \in Procs, Crash(p) PROVE ActiveOnDisk'
  BY <1>18 DEF Crash, ActiveOnDisk
<1>19. CASE FileLost
  BY <1>19 DEF FileLost
<1>20. CASE UNCHANGED vars
  BY <1>20 DEF vars, ActiveOnDisk
<1> QED
  BY <1>1, <1>2, <1>3, <1>4, <1>5, <1>6, <1>7, <1>8, <1>9, <1>10, <1>11, <1>12, <1>13, <1>14,
       <1>15, <1>16, <1>17, <1>18, <1>19, <1>20 DEF Next, Step


\* Orderly callers close what was opened, and nothing while they open.
LEMMA OrderlyStep ==
  ASSUME OrderlyCallers, TypeInv, Orderly, [Next]_vars
  PROVE  Orderly'
<1> USE StoreAssumption DEF callVars, recordVars, history, TypeInv, TypeOK, Goto, Release,
     Return, NextExpired, Orderly, Opening
<1>1. ASSUME NEW t \in Threads, CallSomething(t) PROVE Orderly'
  <2>1. ASSUME NEW s \in Sids, CallOpen(t, s) PROVE Orderly'
    BY <2>1 DEF CallOpen, Call, InCall, Nameable
  <2>2. ASSUME NEW s \in Sids, NEW o \in {"execute", "close"}, CallOn(t, o, s)
        PROVE  Orderly'
    BY <2>2 DEF CallOn, Call, InCall, Nameable
  <2>3. CASE CallList(t) \/ CallCloseAll(t)
    BY <2>3 DEF CallList, CallCloseAll, Call, InCall, Nameable
  <2> QED
    BY <1>1, <2>1, <2>2, <2>3 DEF CallSomething
<1>2. ASSUME NEW t \in Threads, \/ Cleanup(t) \/ Lookup(t) \/ CloseLook(t)
                                \/ ReserveRefused(t) \/ Listing(t) \/ LaunchFailed(t)
                                \/ LaunchOk(t) \/ ExecDone(t) \/ CloseAll(t) \/ NextClose(t)
                                \/ Reserve(t) \/ Unregister(t) \/ Purge(t) \/ CloseShut(t)
                                \/ ExecEnd(t) \/ CloseMark(t) \/ CloseRemove(t)
      PROVE  Orderly'
  BY FirstPlace, <1>2 DEF Cleanup, Lookup, CloseLook, ReserveRefused, Listing, LaunchFailed,
       LaunchOk, ExecDone, CloseAll, NextClose, Reserve, Unregister, RemoveOwn, Purge,
       CloseShut, ExecEnd, CloseMark, MarkCloseFailure, CloseRemove, PlaceFitsCall,
       OpenPlaces, ClosePlaces, ExecutePlaces, ArgNamed, Outside
<1>3. ASSUME NEW t \in Threads, Register(t) PROVE Orderly'
  BY <1>3 DEF Register
<1>4. ASSUME NEW t \in Threads, NEW s \in Sids, Expire(t, s) PROVE Orderly'
  BY FirstPlace, <1>4 DEF Expire
<1>5. ASSUME NEW t \in Threads, \/ ExecLock(t) \/ CloseLock(t)
      PROVE  Orderly'
  BY <1>5 DEF ExecLock, CanExecute, HasHandle, CloseLock
<1>6. ASSUME NEW t \in Threads, \/ ExpireLock(t) \/ ExpireClosed(t) \/ ExpireFailed(t)
                                \/ ExpireMark(t) \/ ExpireRemove(t) \/ Closed(t)
                                \/ CloseFailed(t)
      PROVE  Orderly'
  BY FirstPlace, <1>6 DEF ExpireLock, ExpireClosed, ExpireFailed, ExpireMark,
       MarkCloseFailure, ExpireRemove, RemoveOwn, Closed, CloseFailed, ShutDown,
       PlaceFitsCall, OpenPlaces, ClosePlaces, ExecutePlaces, ArgNamed, Outside
<1>7. ASSUME NEW t \in Threads, LockTimeout(t) PROVE Orderly'
  BY <1>7 DEF LockTimeout, Blocks
<1>8. ASSUME NEW s \in Sids, TimePasses(s) PROVE Orderly'
  BY <1>8 DEF TimePasses
<1>9. ASSUME NEW p \in Procs, Crash(p) PROVE Orderly'
  BY <1>9 DEF Crash
<1>10. CASE FileLost
  BY <1>10 DEF FileLost
<1>11. CASE UNCHANGED vars
  BY <1>11 DEF vars
<1> QED
  BY <1>1, <1>2, <1>3, <1>4, <1>5, <1>6, <1>7, <1>8, <1>9, <1>10, <1>11 DEF Next, Step

\* Whoever closes a session of its own process meets nobody who opens it.
LEMMA NoOpenerAtClose ==
  ASSUME TypeInv, UseInv, PastInv, Orderly, NEW t \in Threads,
         pc[t] \in ClosePlaces, owner[arg[t]] = ProcOf[t]
  PROVE  arg[t] \in Sids /\ \A u \in Threads : Opening(u) => arg[u] # arg[t]
BY DEF TypeInv, PlaceFitsCall, ArgNamed, ClosePlaces, Outside, UseInv, OpenerAlone, PastInv,
   Registered, Orderly

\* A pending record is nobody else's, as long as it is not due and nobody closes it.
LEMMA PendingStep ==
  ASSUME LaunchWithinTTL, TypeInv, TypeInv', UseInv, PastInv, Orderly, PendingKept, [Next]_vars
  PROVE  PendingKept'
<1> USE StoreAssumption DEF callVars, recordVars, history, TypeInv, TypeOK, PlaceFitsCall,
     OpenPlaces, ClosePlaces, ExecutePlaces, ArgNamed, Outside, Goto, Release, Return,
     NextExpired, PendingKept, Opening, UseInv, OpenerAlone, Local
<1>1. ASSUME NEW t \in Threads, CallSomething(t) PROVE PendingKept'
  <2>1. ASSUME NEW s \in Sids, CallOpen(t, s) PROVE PendingKept'
    BY <2>1 DEF CallOpen, Call
  <2>2. ASSUME NEW s \in Sids, NEW o \in {"execute", "close"}, CallOn(t, o, s)
        PROVE  PendingKept'
    BY <2>2 DEF CallOn, Call
  <2>3. CASE CallList(t) \/ CallCloseAll(t)
    BY <2>3 DEF CallList, CallCloseAll, Call
  <2> QED
    BY <1>1, <2>1, <2>2, <2>3 DEF CallSomething
<1>2. ASSUME NEW t \in Threads, \/ Cleanup(t) \/ Lookup(t) \/ CloseLook(t)
                                \/ ReserveRefused(t) \/ Listing(t) \/ LaunchFailed(t)
                                \/ LaunchOk(t) \/ ExecDone(t) \/ CloseAll(t) \/ NextClose(t)
      PROVE  PendingKept'
  BY FirstPlace, <1>2 DEF Cleanup, Lookup, CloseLook, ReserveRefused, Listing, LaunchFailed,
       LaunchOk, ExecDone, CloseAll, NextClose
<1>3. ASSUME NEW t \in Threads, NEW s \in Sids, Expire(t, s) PROVE PendingKept'
  BY SMTT(60), FirstPlace, <1>3 DEF Expire, Remove, Expirable
<1>4. ASSUME NEW t \in Threads, \/ ExpireLock(t) \/ ExpireClosed(t) \/ ExpireFailed(t)
      PROVE  PendingKept'
  BY SMTT(60), FirstPlace, <1>4 DEF ExpireLock, ExpireClosed, ExpireFailed, ShutDown, PastInv,
       Registered, ExpiryPlaces, UsePlaces
<1>5. ASSUME NEW t \in Threads, \/ ExpireMark(t) \/ ExpireRemove(t)
      PROVE  PendingKept'
  BY FirstPlace, <1>5 DEF ExpireMark, MarkCloseFailure, ExpireRemove, RemoveOwn, Remove,
       PastInv, Registered, ExpiryPlaces, UsePlaces
<1>6. ASSUME NEW t \in Threads, \/ Reserve(t) \/ Register(t)
      PROVE  PendingKept'
  BY <1>6 DEF Reserve, Register
<1>7. ASSUME NEW t \in Threads, Unregister(t) PROVE PendingKept'
  BY <1>7 DEF Unregister, RemoveOwn, Remove
<1>8. ASSUME NEW t \in Threads, \/ ExecLock(t) \/ ExecEnd(t)
      PROVE  PendingKept'
  BY <1>8 DEF ExecLock, CanExecute, HasHandle, ExecEnd, ClaimsHold, Claims, LockFree, PastInv,
       Registered, ExpiryPlaces, UsePlaces
<1>9. ASSUME NEW t \in Threads, Purge(t) PROVE PendingKept'
  BY NoOpenerAtClose, <1>9 DEF Purge, Remove
<1>10. ASSUME NEW t \in Threads, CloseLock(t) PROVE PendingKept'
  BY SMTT(60), <1>10 DEF CloseLock, HasHandle
<1>11. ASSUME NEW t \in Threads, CloseShut(t) PROVE PendingKept'
  BY SMTT(60), NoOpenerAtClose, <1>11 DEF CloseShut, PastInv, Registered, ExpiryPlaces, UsePlaces
<1>12. ASSUME NEW t \in Threads, \/ Closed(t) \/ CloseFailed(t)
       PROVE  PendingKept'
  BY <1>12 DEF Closed, CloseFailed, ShutDown, PastInv, Registered, ExpiryPlaces, UsePlaces
<1>13. ASSUME NEW t \in Threads, \/ CloseMark(t) \/ CloseRemove(t)
       PROVE  PendingKept'
  BY <1>13 DEF CloseMark, MarkCloseFailure, CloseRemove, RemoveOwn, Remove, PastInv,
       Registered, ExpiryPlaces, UsePlaces
<1>14. ASSUME NEW t \in Threads, LockTimeout(t) PROVE PendingKept'
  BY <1>14 DEF LockTimeout, Blocks
<1>15. ASSUME NEW s \in Sids, TimePasses(s) PROVE PendingKept'
  BY <1>15 DEF TimePasses, BeingOpened
<1>16. ASSUME NEW p \in Procs, Crash(p) PROVE PendingKept'
  BY <1>16 DEF Crash
<1>17. CASE FileLost
  BY <1>17 DEF FileLost
<1>18. CASE UNCHANGED vars
  BY <1>18 DEF vars
<1> QED
  BY <1>1, <1>2, <1>3, <1>4, <1>5, <1>6, <1>7, <1>8, <1>9, <1>10, <1>11, <1>12, <1>13, <1>14,
       <1>15, <1>16, <1>17, <1>18 DEF Next, Step


\* No record goes before its handle.
LEMMA HandleStep ==
  ASSUME TypeInv, TypeInv', UseInv, PastInv, Orderly, HandleListed, [Next]_vars
  PROVE  HandleListed'
<1> USE StoreAssumption DEF callVars, recordVars, history, TypeInv, TypeOK, Goto, Release,
     Return, NextExpired, HandleListed, Local
<1>1. ASSUME NEW t \in Threads, CallSomething(t) PROVE HandleListed'
  <2>1. ASSUME NEW s \in Sids, CallOpen(t, s) PROVE HandleListed'
    BY <2>1 DEF CallOpen, Call, PastInv, OnlyTheDrawn, OnlyTheLiving, PlaceFitsCall,
         OpenPlaces, ClosePlaces, ExecutePlaces, ArgNamed, Outside
  <2>2. ASSUME NEW s \in Sids, NEW o \in {"execute", "close"}, CallOn(t, o, s)
        PROVE  HandleListed'
    BY <2>2 DEF CallOn, Call, PastInv, OnlyTheDrawn, OnlyTheLiving, PlaceFitsCall, OpenPlaces,
         ClosePlaces, ExecutePlaces, ArgNamed, Outside
  <2>3. CASE CallList(t) \/ CallCloseAll(t)
    BY <2>3 DEF CallList, CallCloseAll, Call, PastInv, OnlyTheDrawn, OnlyTheLiving,
         PlaceFitsCall, OpenPlaces, ClosePlaces, ExecutePlaces, ArgNamed, Outside
  <2> QED
    BY <1>1, <2>1, <2>2, <2>3 DEF CallSomething
<1>2. ASSUME NEW t \in Threads, \/ Cleanup(t) \/ Lookup(t) \/ CloseLook(t)
                                \/ ReserveRefused(t) \/ Listing(t) \/ LaunchFailed(t)
                                \/ LaunchOk(t) \/ ExecDone(t) \/ CloseAll(t) \/ NextClose(t)
      PROVE  HandleListed'
  BY FirstPlace, <1>2 DEF Cleanup, Lookup, CloseLook, ReserveRefused, Listing, LaunchFailed,
       LaunchOk, ExecDone, CloseAll, NextClose, HasHandle, PlaceFitsCall, OpenPlaces,
       ClosePlaces, ExecutePlaces, ArgNamed, Outside
<1>3. ASSUME NEW t \in Threads, NEW s \in Sids, Expire(t, s) PROVE HandleListed'
  BY SMTT(60), FirstPlace, <1>3 DEF Expire, Remove, HasHandle
<1>4. ASSUME NEW t \in Threads, \/ ExpireLock(t) \/ ExpireClosed(t) \/ ExpireFailed(t)
      PROVE  HandleListed'
  BY FirstPlace, <1>4 DEF ExpireLock, ExpireClosed, ExpireFailed, ShutDown
<1>5. ASSUME NEW t \in Threads, \/ ExpireMark(t) \/ ExpireRemove(t)
      PROVE  HandleListed'
  BY SMTT(60), FirstPlace, <1>5 DEF ExpireMark, MarkCloseFailure, ExpireRemove, RemoveOwn, Remove,
       PastInv, HandleDropped
<1>6. ASSUME NEW t \in Threads, Reserve(t) PROVE HandleListed'
  BY <1>6 DEF Reserve
<1>7. ASSUME NEW t \in Threads, Register(t) PROVE HandleListed'
  BY NoOpenerAtClose, <1>7 DEF Register, UseInv, OpenerAlone, Opening, PlaceFitsCall,
       OpenPlaces, ClosePlaces, ExecutePlaces, ArgNamed, Outside
<1>8. ASSUME NEW t \in Threads, Unregister(t) PROVE HandleListed'
  BY <1>8 DEF Unregister, RemoveOwn, Remove, UseInv, OpenerAlone, Opening, PlaceFitsCall,
       OpenPlaces, ClosePlaces, ExecutePlaces, ArgNamed, Outside
<1>9. ASSUME NEW t \in Threads, \/ ExecLock(t) \/ ExecEnd(t)
      PROVE  HandleListed'
  BY <1>9 DEF ExecLock, CanExecute, HasHandle, ExecEnd
<1>10. ASSUME NEW t \in Threads, Purge(t) PROVE HandleListed'
  BY <1>10 DEF Purge, Remove
<1>11. ASSUME NEW t \in Threads, CloseLock(t) PROVE HandleListed'
  BY <1>11 DEF CloseLock, HasHandle
<1>12. ASSUME NEW t \in Threads, CloseShut(t) PROVE HandleListed'
  BY <1>12 DEF CloseShut
<1>13. ASSUME NEW t \in Threads, \/ Closed(t) \/ CloseFailed(t)
       PROVE  HandleListed'
  BY <1>13 DEF Closed, CloseFailed, ShutDown
<1>14. ASSUME NEW t \in Threads, \/ CloseMark(t) \/ CloseRemove(t)
       PROVE  HandleListed'
  BY <1>14 DEF CloseMark, MarkCloseFailure, CloseRemove, RemoveOwn, Remove, PastInv,
       HandleDropped
<1>15. ASSUME NEW t \in Threads, LockTimeout(t) PROVE HandleListed'
  BY <1>15 DEF LockTimeout, Blocks
<1>16. ASSUME NEW s \in Sids, TimePasses(s) PROVE HandleListed'
  BY <1>16 DEF TimePasses
<1>17. ASSUME NEW p \in Procs, Crash(p) PROVE HandleListed'
  BY <1>17 DEF Crash, PastInv, OnlyTheLiving
<1>18. CASE FileLost
  BY <1>18 DEF FileLost
<1>19. CASE UNCHANGED vars
  BY <1>19 DEF vars
<1> QED
  BY <1>1, <1>2, <1>3, <1>4, <1>5, <1>6, <1>7, <1>8, <1>9, <1>10, <1>11, <1>12, <1>13, <1>14,
       <1>15, <1>16, <1>17, <1>18, <1>19 DEF Next, Step

\* What a launch has started is handed on, unless the lock times out, until it is shut down.
LEMMA ReachableStep ==
  ASSUME ~LockTimeouts, TypeInv, TypeInv', UseInv, PastInv, LiveReachable, [Next]_vars
  PROVE  LiveReachable'
<1> USE StoreAssumption DEF callVars, recordVars, history, TypeInv, TypeOK, Goto, Release,
     Return, NextExpired, LiveReachable
<1>1. ASSUME NEW t \in Threads, CallSomething(t) PROVE LiveReachable'
  <2>1. ASSUME NEW s \in Sids, CallOpen(t, s) PROVE LiveReachable'
    BY <2>1 DEF CallOpen, Call, PastInv, OnlyTheDrawn, OnlyTheLiving, PlaceFitsCall,
         OpenPlaces, ClosePlaces, ExecutePlaces, ArgNamed, Outside
  <2>2. ASSUME NEW s \in Sids, NEW o \in {"execute", "close"}, CallOn(t, o, s)
        PROVE  LiveReachable'
    BY <2>2 DEF CallOn, Call, PastInv, OnlyTheDrawn, OnlyTheLiving, PlaceFitsCall, OpenPlaces,
         ClosePlaces, ExecutePlaces, ArgNamed, Outside
  <2>3. CASE CallList(t) \/ CallCloseAll(t)
    BY <2>3 DEF CallList, CallCloseAll, Call, PastInv, OnlyTheDrawn, OnlyTheLiving,
         PlaceFitsCall, OpenPlaces, ClosePlaces, ExecutePlaces, ArgNamed, Outside
  <2> QED
    BY <1>1, <2>1, <2>2, <2>3 DEF CallSomething
<1>2. ASSUME NEW t \in Threads, \/ Cleanup(t) \/ Lookup(t) \/ CloseLook(t)
                                \/ ReserveRefused(t) \/ Listing(t) \/ LaunchFailed(t)
                                \/ ExecDone(t) \/ CloseAll(t) \/ NextClose(t) \/ Reserve(t)
                                \/ Unregister(t) \/ Purge(t) \/ ExecLock(t) \/ ExecEnd(t)
                                \/ CloseLock(t) \/ CloseShut(t) \/ CloseMark(t)
                                \/ CloseRemove(t) \/ ExpireMark(t) \/ ExpireRemove(t)
                                \/ ExpireLock(t)
      PROVE  LiveReachable'
  BY FirstPlace, <1>2 DEF Cleanup, Lookup, CloseLook, ReserveRefused, Listing, LaunchFailed,
       ExecDone, CloseAll, NextClose, Reserve, Unregister, RemoveOwn, Purge, ExecLock,
       CanExecute, HasHandle, ExecEnd, CloseLock, CloseShut, CloseMark, MarkCloseFailure,
       CloseRemove, ExpireMark, ExpireRemove, ExpireLock
<1>3. ASSUME NEW t \in Threads, LaunchOk(t) PROVE LiveReachable'
  BY <1>3 DEF LaunchOk
<1>4. ASSUME NEW t \in Threads, Register(t) PROVE LiveReachable'
  BY <1>4 DEF Register
<1>5. ASSUME NEW t \in Threads, NEW s \in Sids, Expire(t, s) PROVE LiveReachable'
  BY FirstPlace, <1>5 DEF Expire
<1>6. ASSUME NEW t \in Threads, \/ ExpireClosed(t) \/ ExpireFailed(t)
      PROVE  LiveReachable'
  BY <1>6 DEF ExpireClosed, ExpireFailed, ShutDown, PastInv, Registered, ExpiryPlaces,
       UsePlaces
<1>7. ASSUME NEW t \in Threads, \/ Closed(t) \/ CloseFailed(t)
      PROVE  LiveReachable'
  BY <1>7 DEF Closed, CloseFailed, ShutDown, PastInv, Registered, ExpiryPlaces, UsePlaces
<1>8. ASSUME NEW t \in Threads, LockTimeout(t) PROVE LiveReachable'
  BY <1>8 DEF LockTimeout, Blocks
<1>9. ASSUME NEW s \in Sids, TimePasses(s) PROVE LiveReachable'
  BY <1>9 DEF TimePasses
<1>10. ASSUME NEW p \in Procs, Crash(p) PROVE LiveReachable'
  BY <1>10 DEF Crash, UseInv, OpenerAlone, Opening, PlaceFitsCall, OpenPlaces, ClosePlaces,
       ExecutePlaces, ArgNamed, Outside
<1>11. CASE FileLost
  BY <1>11 DEF FileLost
<1>12. CASE UNCHANGED vars
  BY <1>12 DEF vars
<1> QED
  BY <1>1, <1>2, <1>3, <1>4, <1>5, <1>6, <1>7, <1>8, <1>9, <1>10, <1>11, <1>12 DEF Next, Step

\* A session once closed is neither listed nor launched again.
LEMMA ClosedStep ==
  ASSUME OneProcess, TypeInv, TypeInv', UseInv, PastInv, Orderly, HandleListed,
         LiveReachable, ClosedForGood, [Next]_vars
  PROVE  ClosedForGood'
<1> USE StoreAssumption DEF callVars, recordVars, history, TypeInv, TypeOK, Goto, Release,
     Return, NextExpired, ClosedForGood, Opening, Local
<1>1. ASSUME NEW t \in Threads, CallSomething(t) PROVE ClosedForGood'
  <2>1. ASSUME NEW s \in Sids, CallOpen(t, s) PROVE ClosedForGood'
    BY <2>1 DEF CallOpen, Call, PastInv, OnlyTheDrawn
  <2>2. ASSUME NEW s \in Sids, NEW o \in {"execute", "close"}, CallOn(t, o, s)
        PROVE  ClosedForGood'
    BY <2>2 DEF CallOn, Call, PastInv, OnlyTheDrawn
  <2>3. CASE CallList(t) \/ CallCloseAll(t)
    BY SMTT(60), <2>3 DEF CallList, CallCloseAll, Call, PastInv, OnlyTheDrawn
  <2> QED
    BY <1>1, <2>1, <2>2, <2>3 DEF CallSomething
<1>2. ASSUME NEW t \in Threads, \/ Cleanup(t) \/ Lookup(t) \/ CloseLook(t)
                                \/ ReserveRefused(t) \/ Listing(t) \/ LaunchFailed(t)
                                \/ ExecDone(t) \/ CloseAll(t) \/ NextClose(t) \/ ExecLock(t)
                                \/ ExecEnd(t) \/ CloseLock(t) \/ CloseShut(t) \/ CloseMark(t)
                                \/ ExpireMark(t) \/ ExpireLock(t) \/ LaunchOk(t)
      PROVE  ClosedForGood'
  BY SMTT(60), FirstPlace, <1>2 DEF Cleanup, Lookup, CloseLook, ReserveRefused, Listing,
       LaunchFailed,
       ExecDone, CloseAll, NextClose, ExecLock, CanExecute, HasHandle, ExecEnd, CloseLock,
       CloseShut, CloseMark, MarkCloseFailure, ExpireMark, ExpireLock, LaunchOk,
       PlaceFitsCall, OpenPlaces, ClosePlaces, ExecutePlaces, ArgNamed, Outside
<1>3. ASSUME NEW t \in Threads, \/ Reserve(t) \/ Register(t)
      PROVE  ClosedForGood'
  BY SMTT(60), <1>3 DEF Reserve, Register, PlaceFitsCall, OpenPlaces, ClosePlaces, ExecutePlaces,
       ArgNamed, Outside
<1>4. ASSUME NEW t \in Threads, \/ Unregister(t) \/ ExpireRemove(t)
      PROVE  ClosedForGood'
  BY FirstPlace, <1>4 DEF Unregister, RemoveOwn, ExpireRemove, PlaceFitsCall, OpenPlaces,
       ClosePlaces, ExecutePlaces, ArgNamed, Outside, Remove
<1>5. ASSUME NEW t \in Threads, CloseRemove(t) PROVE ClosedForGood'
  BY <1>5 DEF CloseRemove, RemoveOwn, Remove, LiveReachable, HandleDropped, PastInv,
       Registered, ExpiryPlaces, UsePlaces, PlaceFitsCall, OpenPlaces, ClosePlaces,
       ExecutePlaces, ArgNamed, Outside
<1>6. ASSUME NEW t \in Threads, Purge(t) PROVE ClosedForGood'
  <2> DEFINE p == ProcOf[t]
             s == arg[t]
  <2>1. CASE closedOK' = closedOK
    BY <1>6, <2>1 DEF Purge, Remove
  <2>2. CASE s \in Listed(p) /\ Remove(p, s) /\ closedOK' = closedOK \cup {s}
    <3>1. s \in Sids /\ owner[s] = p
      BY <2>2 DEF Listed, PastInv, OnlyTheDrawn, OneProcess
    <3>2. s \notin handle /\ \A u \in Threads : Opening(u) => arg[u] # s
      <4> HIDE DEF TypeInv, Opening
      <4> QED
        BY <1>6, <3>1, NoOpenerAtClose DEF Purge, ClosePlaces, HandleListed
    <3>3. owner[s] \in alive => product[s] # "live"
      BY SMTT(60), <3>1, <3>2 DEF LiveReachable, PlaceFitsCall, OpenPlaces
    <3> QED
      BY <1>6, <2>2, <3>1, <3>2, <3>3 DEF Purge, Remove
  <2> QED
    BY <1>6, <2>1, <2>2 DEF Purge
<1>7. ASSUME NEW t \in Threads, NEW s \in Sids, Expire(t, s) PROVE ClosedForGood'
  BY SMTT(60), FirstPlace, <1>7 DEF Expire, Remove
<1>8. ASSUME NEW t \in Threads, \/ ExpireClosed(t) \/ ExpireFailed(t)
      PROVE  ClosedForGood'
  BY <1>8 DEF ExpireClosed, ExpireFailed, ShutDown
<1>9. ASSUME NEW t \in Threads, \/ Closed(t) \/ CloseFailed(t)
      PROVE  ClosedForGood'
  BY <1>9 DEF Closed, CloseFailed, ShutDown
<1>10. ASSUME NEW t \in Threads, LockTimeout(t) PROVE ClosedForGood'
  BY <1>10 DEF LockTimeout, Blocks
<1>11. ASSUME NEW s \in Sids, TimePasses(s) PROVE ClosedForGood'
  BY <1>11 DEF TimePasses
<1>12. ASSUME NEW p \in Procs, Crash(p) PROVE ClosedForGood'
  BY <1>12 DEF Crash
<1>13. CASE FileLost
  BY <1>13 DEF FileLost
<1>14. CASE UNCHANGED vars
  BY <1>14 DEF vars
<1> QED
  BY <1>1, <1>2, <1>3, <1>4, <1>5, <1>6, <1>7, <1>8, <1>9, <1>10, <1>11, <1>12, <1>13,
       <1>14 DEF Next, Step

\* What expiry has judged due stays so while it has it in hand: nobody can touch it.
LEMMA DueStep ==
  ASSUME ~CloseMayFail, TypeInv, TypeInv', PastInv, FileInv, DueInHand, [Next]_vars
  PROVE  DueInHand'
<1> USE StoreAssumption DEF callVars, recordVars, history, TypeInv, TypeOK, Goto, Release,
     Return, NextExpired, DueInHand, PastInv
<1>1. ASSUME NEW t \in Threads, CallSomething(t) PROVE DueInHand'
  <2>1. ASSUME NEW s \in Sids, CallOpen(t, s) PROVE DueInHand'
    BY <2>1 DEF CallOpen, Call
  <2>2. ASSUME NEW s \in Sids, NEW o \in {"execute", "close"}, CallOn(t, o, s)
        PROVE  DueInHand'
    BY <2>2 DEF CallOn, Call
  <2>3. CASE CallList(t) \/ CallCloseAll(t)
    BY <2>3 DEF CallList, CallCloseAll, Call
  <2> QED
    BY <1>1, <2>1, <2>2, <2>3 DEF CallSomething
<1>2. ASSUME NEW t \in Threads, \/ Cleanup(t) \/ Lookup(t) \/ CloseLook(t)
                                \/ ReserveRefused(t) \/ Listing(t) \/ LaunchFailed(t)
                                \/ ExecDone(t) \/ CloseAll(t) \/ NextClose(t) \/ ExecLock(t)
                                \/ CloseLock(t) \/ CloseShut(t) \/ LaunchOk(t)
                                \/ CloseRemove(t) \/ Purge(t) \/ Unregister(t)
      PROVE  DueInHand'
  BY SMTT(60), FirstPlace, <1>2 DEF Cleanup, Lookup, CloseLook, ReserveRefused, Listing,
       LaunchFailed,
       ExecDone, CloseAll, NextClose, ExecLock, CanExecute, HasHandle, CloseLock, CloseShut,
       LaunchOk, CloseRemove, RemoveOwn, Purge, Unregister
<1>3. ASSUME NEW t \in Threads, \/ ExpireMark(t) \/ CloseMark(t)
      PROVE  DueInHand'
  BY <1>3 DEF ExpireMark, MarkCloseFailure, CloseMark
<1>4. ASSUME NEW t \in Threads, \/ ExpireLock(t) \/ ExpireRemove(t)
      PROVE  DueInHand'
  BY SMTT(60), FirstPlace, <1>4 DEF ExpireLock, ExpireRemove, RemoveOwn
<1>5. ASSUME NEW t \in Threads, \/ Reserve(t) \/ Register(t)
      PROVE  DueInHand'
  BY <1>5 DEF Reserve, Register, Registered, Opening, ExpiryPlaces, PlaceFitsCall, OpenPlaces,
       ClosePlaces, ExecutePlaces, ArgNamed, Outside
<1>6. ASSUME NEW t \in Threads, ExecEnd(t) PROVE DueInHand'
  BY <1>6 DEF ExecEnd, FileInv, ExecutingIsBusy, EndingIsKnown, Executing, Ending,
       ActiveStatuses, HandleDropped, Local, PlaceFitsCall, OpenPlaces, ClosePlaces,
       ExecutePlaces, ArgNamed, Outside
<1>7. ASSUME NEW t \in Threads, NEW s \in Sids, Expire(t, s) PROVE DueInHand'
  BY FirstPlace, <1>7 DEF Expire, Expirable
<1>8. ASSUME NEW t \in Threads, \/ ExpireClosed(t) \/ ExpireFailed(t) \/ Closed(t)
                                \/ CloseFailed(t)
      PROVE  DueInHand'
  BY <1>8 DEF ExpireClosed, ExpireFailed, Closed, CloseFailed, ShutDown
<1>9. ASSUME NEW t \in Threads, LockTimeout(t) PROVE DueInHand'
  BY <1>9 DEF LockTimeout, Blocks
<1>10. ASSUME NEW s \in Sids, TimePasses(s) PROVE DueInHand'
  BY <1>10 DEF TimePasses
<1>11. ASSUME NEW p \in Procs, Crash(p) PROVE DueInHand'
  BY <1>11 DEF Crash
<1>12. CASE FileLost
  BY <1>12 DEF FileLost
<1>13. CASE UNCHANGED vars
  BY <1>13 DEF vars
<1> QED
  BY <1>1, <1>2, <1>3, <1>4, <1>5, <1>6, <1>7, <1>8, <1>9, <1>10, <1>11, <1>12, <1>13 DEF Next,
       Step


-----------------------------------------------------------------------------
(***************************************************************************)
(* The limits.                                                             *)
(***************************************************************************)
\* Fewer sessions break no limit.
LEMMA FewerInUse ==
  ASSUME NEW A, IsFiniteSet(A), WithinLimits(A), NEW B \in SUBSET A
  PROVE  WithinLimits(B)
<1>1. /\ Cardinality(A) \in Nat /\ Cardinality(B) \in Nat
      /\ Cardinality(B) <= Cardinality(A)
  BY FS_Subset, FS_CardinalityType
<1>2. ASSUME NEW s \in B
      PROVE  Cardinality({r \in B : AdapterOf[r] = AdapterOf[s]}) <= MaxPerAdapter
  <2> DEFINE At(S) == {r \in S : AdapterOf[r] = AdapterOf[s]}
  <2>1. IsFiniteSet(At(A)) /\ IsFiniteSet(At(B))
    BY FS_Subset
  <2>2. Cardinality(At(B)) <= Cardinality(At(A))
    BY <2>1, FS_Subset
  <2>3. Cardinality(At(A)) <= MaxPerAdapter
    BY DEF WithinLimits
  <2>4. Cardinality(At(A)) \in Nat /\ Cardinality(At(B)) \in Nat
    BY <2>1, FS_CardinalityType
  <2> QED
    BY <2>2, <2>3, <2>4, StoreAssumption
<1> QED
  BY <1>1, <1>2, StoreAssumption DEF WithinLimits

\* One more breaks none, if what is counted includes all and leaves room.
LEMMA OneMoreInUse ==
  ASSUME NEW C, IsFiniteSet(C), NEW A \in SUBSET C, WithinLimits(A), NEW x,
         ~(Cardinality(C) >= MaxSessions),
         ~(Cardinality({s \in C : AdapterOf[s] = AdapterOf[x]}) >= MaxPerAdapter)
  PROVE  WithinLimits(A \cup {x})
<1> DEFINE At(S, s) == {r \in S : AdapterOf[r] = AdapterOf[s]}
<1>0. MaxSessions \in Nat /\ MaxPerAdapter \in Nat
  BY StoreAssumption
<1>1. IsFiniteSet(A) /\ Cardinality(A) <= Cardinality(C)
  BY FS_Subset
<1>2. Cardinality(A \cup {x}) <= MaxSessions
  <2>1. Cardinality(A) \in Nat /\ Cardinality(C) \in Nat
    BY <1>1, FS_CardinalityType
  <2>2. Cardinality(A \cup {x}) = Cardinality(A) \/ Cardinality(A \cup {x}) = Cardinality(A) + 1
    BY <1>1, FS_AddElement
  <2> QED
    BY <1>0, <1>1, <2>1, <2>2
<1>3. ASSUME NEW s \in A \cup {x}, AdapterOf[s] = AdapterOf[x]
      PROVE  Cardinality(At(A \cup {x}, s)) <= MaxPerAdapter
  <2>1. At(A \cup {x}, s) = At(A, x) \cup {x}
    BY <1>3
  <2>2. IsFiniteSet(At(C, x)) /\ At(A, x) \in SUBSET At(C, x)
    BY FS_Subset
  <2>3. IsFiniteSet(At(A, x)) /\ Cardinality(At(A, x)) <= Cardinality(At(C, x))
    BY <2>2, FS_Subset
  <2>4. Cardinality(At(A, x)) \in Nat /\ Cardinality(At(C, x)) \in Nat
    BY <2>2, <2>3, FS_CardinalityType
  <2>5. \/ Cardinality(At(A, x) \cup {x}) = Cardinality(At(A, x))
        \/ Cardinality(At(A, x) \cup {x}) = Cardinality(At(A, x)) + 1
    BY <2>3, FS_AddElement
  <2>6. ~(Cardinality(At(C, x)) >= MaxPerAdapter)
    OBVIOUS
  <2>7. Cardinality(At(A, x) \cup {x}) <= MaxPerAdapter
    <3> DEFINE a == Cardinality(At(A, x))
               b == Cardinality(At(A, x) \cup {x})
               c == Cardinality(At(C, x))
    <3>1. a \in Nat /\ c \in Nat /\ a <= c /\ (b = a \/ b = a + 1) /\ ~(c >= MaxPerAdapter)
      BY <2>3, <2>4, <2>5, <2>6
    <3>2. MaxPerAdapter \in Nat
      BY <1>0
    <3>3. b <= MaxPerAdapter
      <4> HIDE DEF a, b, c
      <4> QED
        BY <3>1, <3>2
    <3> QED
      BY <3>3
  <2> QED
    BY <2>1, <2>7
<1>4. ASSUME NEW s \in A, AdapterOf[s] # AdapterOf[x]
      PROVE  Cardinality(At(A \cup {x}, s)) <= MaxPerAdapter
  <2>1. At(A \cup {x}, s) = At(A, s)
    BY <1>4
  <2> QED
    BY <2>1 DEF WithinLimits
<1> QED
  BY <1>2, <1>3, <1>4 DEF WithinLimits

\* There are never more records than drawn ids, of which there are finitely many.
LEMMA FiniteStep ==
  ASSUME TypeInv, FinitelyMany, [Next]_vars
  PROVE  FinitelyMany'
<1> DEFINE Drawn == {s \in Sids : owner[s] # NoOne}
<1>1. CASE UNCHANGED owner
  BY <1>1 DEF FinitelyMany
<1>2. ASSUME NEW t \in Threads, NEW s \in Sids, CallOpen(t, s)
      PROVE  FinitelyMany'
  <2>1. owner' = [owner EXCEPT ![s] = ProcOf[t]]
    BY <1>2 DEF CallOpen
  <2>2. {r \in Sids : owner'[r] # NoOne} \subseteq Drawn \cup {s}
    BY <2>1 DEF TypeInv, TypeOK
  <2>3. IsFiniteSet(Drawn \cup {s})
    BY FS_AddElement DEF FinitelyMany
  <2> QED
    BY <2>2, <2>3, FS_Subset DEF FinitelyMany
<1>3. UNCHANGED owner \/ \E t \in Threads, s \in Sids : CallOpen(t, s)
  BY DEF Next, Step, vars, CallSomething, CallOn, CallList, CallCloseAll, Cleanup, Expire,
       ExpireLock,
     ExpireClosed, ExpireFailed, ExpireMark, ExpireRemove, ShutDown, ReserveRefused, Reserve,
     LaunchOk, LaunchFailed, Unregister, Register, Listing, Lookup, ExecLock, ExecDone, ExecEnd,
     CloseLook, Purge, CloseLock, CloseShut, Closed, CloseFailed, CloseMark, CloseRemove,
     CloseAll, NextClose, LockTimeout, TimePasses, Crash, FileLost
<1> QED
  BY <1>1, <1>2, <1>3

\* Only a reservation puts a session to use.
LEMMA InUseShrinks ==
  ASSUME TypeInv, TypeInv', FileInv, PendingKept, [Next]_vars, \A t \in Threads : ~Reserve(t)
  PROVE  Active' \subseteq Active
<1> USE StoreAssumption DEF callVars, recordVars, history, TypeInv, TypeOK, PlaceFitsCall,
     OpenPlaces, ClosePlaces, ExecutePlaces, ArgNamed, Outside, Active, ActiveStatuses, Local
<1>1. ASSUME NEW t \in Threads, CallSomething(t) PROVE Active' \subseteq Active
  <2>1. ASSUME NEW s \in Sids, CallOpen(t, s) PROVE Active' \subseteq Active
    BY <2>1 DEF CallOpen, Call
  <2>2. ASSUME NEW s \in Sids, NEW o \in {"execute", "close"}, CallOn(t, o, s)
        PROVE  Active' \subseteq Active
    BY <2>2 DEF CallOn, Call
  <2>3. CASE CallList(t) \/ CallCloseAll(t)
    BY <2>3 DEF CallList, CallCloseAll, Call
  <2> QED
    BY <1>1, <2>1, <2>2, <2>3 DEF CallSomething
<1>2. ASSUME NEW t \in Threads, \/ Cleanup(t) \/ Lookup(t) \/ CloseLook(t)
                                \/ ReserveRefused(t) \/ Listing(t) \/ LaunchFailed(t)
                                \/ LaunchOk(t) \/ ExecDone(t) \/ CloseAll(t) \/ NextClose(t)
                                \/ LockTimeout(t)
      PROVE  Active' \subseteq Active
  BY <1>2 DEF Cleanup, Lookup, CloseLook, ReserveRefused, Listing, LaunchFailed, LaunchOk,
       ExecDone, CloseAll, NextClose, LockTimeout
<1>3. ASSUME NEW t \in Threads, NEW s \in Sids, Expire(t, s) PROVE Active' \subseteq Active
  BY <1>3 DEF Expire, Remove
<1>4. ASSUME NEW t \in Threads, \/ ExpireLock(t) \/ CloseShut(t)
      PROVE  Active' \subseteq Active
  BY <1>4 DEF ExpireLock, CloseShut
<1>5. ASSUME NEW t \in Threads, \/ ExpireClosed(t) \/ ExpireFailed(t) \/ Closed(t)
                                \/ CloseFailed(t)
      PROVE  Active' \subseteq Active
  BY <1>5 DEF ExpireClosed, ExpireFailed, Closed, CloseFailed, ShutDown
<1>6. ASSUME NEW t \in Threads, \/ ExpireMark(t) \/ ExpireRemove(t)
      PROVE  Active' \subseteq Active
  BY <1>6 DEF ExpireMark, MarkCloseFailure, ExpireRemove, RemoveOwn, Remove
<1>7. ASSUME NEW t \in Threads, \/ CloseMark(t) \/ CloseRemove(t) \/ Unregister(t)
      PROVE  Active' \subseteq Active
  BY <1>7 DEF CloseMark, MarkCloseFailure, CloseRemove, RemoveOwn, Unregister, Remove
<1>8. ASSUME NEW t \in Threads, Register(t) PROVE Active' \subseteq Active
  BY <1>8 DEF Register, PendingKept
<1>9. ASSUME NEW t \in Threads, ExecLock(t) PROVE Active' \subseteq Active
  BY <1>9 DEF ExecLock, CanExecute, HasHandle
<1>10. ASSUME NEW t \in Threads, ExecEnd(t) PROVE Active' \subseteq Active
  BY <1>10 DEF ExecEnd, FileInv, ExecutingIsBusy, Executing
<1>11. ASSUME NEW t \in Threads, \/ CloseLock(t) \/ Purge(t)
       PROVE  Active' \subseteq Active
  BY <1>11 DEF CloseLock, Purge, Remove
<1>12. ASSUME NEW s \in Sids, TimePasses(s) PROVE Active' \subseteq Active
  BY <1>12 DEF TimePasses
<1>13. ASSUME NEW p \in Procs, Crash(p) PROVE Active' \subseteq Active
  BY <1>13 DEF Crash
<1>14. CASE FileLost
  BY <1>14 DEF FileLost
<1>15. CASE UNCHANGED vars
  BY <1>15 DEF vars
<1>16. ASSUME NEW t \in Threads, Reserve(t) PROVE Active' \subseteq Active
  BY <1>16
<1> QED
  BY <1>1, <1>2, <1>3, <1>4, <1>5, <1>6, <1>7, <1>8, <1>9, <1>10, <1>11, <1>12, <1>13, <1>14,
       <1>15, <1>16 DEF Next, Step

\* Every session in use is counted by every process that reserves one.
LEMMA AllCounted ==
  ASSUME TypeInv, PastInv, ActiveOnDisk \/ OneProcess, NEW p \in Procs
  PROVE  Active \subseteq {s \in Sids : CountsTowardCapacity(p, s)}
<1> SUFFICES ASSUME NEW s \in Active PROVE s \in Sids /\ CountsTowardCapacity(p, s)
  OBVIOUS
<1>1. s \in Sids /\ s \in mem /\ status[s] \in ActiveStatuses /\ owner[s] \in alive
        /\ alive \subseteq Procs
  BY DEF Active, TypeInv, TypeOK, PastInv, OnlyTheLiving
<1>2. CASE owner[s] = p
  BY <1>1, <1>2 DEF CountsTowardCapacity, Listed, StatusAt, Local, ActiveStatuses, Terminal
<1>3. CASE owner[s] # p
  <2>1. disk[s] = status[s]
    BY <1>1, <1>3 DEF ActiveOnDisk, OneProcess
  <2> QED
    BY <1>1, <1>3, <2>1 DEF CountsTowardCapacity, Listed, StatusAt, Local, ActiveStatuses,
         Terminal
<1> QED
  BY <1>2, <1>3

\* Every step keeps the limits.
LEMMA CapacityStep ==
  ASSUME TypeInv, TypeInv', PastInv, FileInv, PendingKept, FinitelyMany,
         ActiveOnDisk \/ OneProcess, WithinLimits(Active), [Next]_vars
  PROVE  WithinLimits(Active)'
<1>1. IsFiniteSet(Active)
  <2>1. Active \subseteq {s \in Sids : owner[s] # NoOne}
    BY StoreAssumption DEF Active, TypeInv, TypeOK, PastInv, OnlyTheLiving
  <2> QED
    BY <2>1, FS_Subset DEF FinitelyMany
<1>2. CASE \A t \in Threads : ~Reserve(t)
  <2>1. Active' \subseteq Active
    BY <1>2, InUseShrinks
  <2>2. WithinLimits(Active')
    BY <1>1, <2>1, FewerInUse
  <2> QED
    BY <2>2 DEF WithinLimits
<1>3. ASSUME NEW t \in Threads, Reserve(t)
      PROVE  WithinLimits(Active)'
  <2> DEFINE p == ProcOf[t]
             x == arg[t]
             C == {s \in Sids : CountsTowardCapacity(p, s)}
  <2>1. p \in Procs
    BY StoreAssumption
  <2>2. Active \in SUBSET C
    BY <2>1, AllCounted
  <2>3. IsFiniteSet(C)
    <3>1. C \subseteq {s \in Sids : owner[s] # NoOne}
      BY <2>1, StoreAssumption DEF CountsTowardCapacity, Listed, Local, PastInv, OnlyTheDrawn
    <3> QED
      BY <3>1, FS_Subset DEF FinitelyMany
  <2>4. /\ ~(Cardinality(C) >= MaxSessions)
        /\ ~(Cardinality({s \in C : AdapterOf[s] = AdapterOf[x]}) >= MaxPerAdapter)
    <3>1. {s \in C : AdapterOf[s] = AdapterOf[x]}
            = {s \in Sids : CountsTowardCapacity(p, s) /\ AdapterOf[s] = AdapterOf[x]}
      OBVIOUS
    <3> QED
      BY <1>3, <3>1 DEF Reserve, Full
  <2>5. WithinLimits(Active \cup {x})
    <3> HIDE DEF C
    <3> QED
      BY <2>2, <2>3, <2>4, OneMoreInUse
  <2>6. Active' \subseteq Active \cup {x}
    BY <1>3 DEF Reserve, Active, TypeInv, TypeOK, ActiveStatuses
  <2>7. IsFiniteSet(Active \cup {x})
    BY <1>1, FS_AddElement
  <2>8. WithinLimits(Active')
    BY <2>5, <2>6, <2>7, FewerInUse
  <2> QED
    BY <2>8 DEF WithinLimits
<1> QED
  BY <1>2, <1>3


-----------------------------------------------------------------------------
(***************************************************************************)
(* The theorems.                                                           *)
(***************************************************************************)
\* Of every session its past and, if it is in use, the file's record are known.
LEMMA RecordInvariant == Spec => [](TypeInv /\ UseInv /\ PastInv /\ FileInv)
<1>1. Init => PastInv /\ FileInv
  BY StoreAssumption DEF Init, PastInv, OnlyTheLiving, OnlyTheDrawn, Registered, HandleDropped,
       FileInv,
     ExecutingIsBusy, EndingIsKnown, OpenHasHandle, DiskFromMemory, Executing, Ending,
     ActiveStatuses, Opening, ExpiryPlaces, UsePlaces
<1>2. TypeInv /\ TypeInv' /\ UseInv /\ PastInv /\ [Next]_vars => PastInv'
  BY LivingStep, RegisteredStep DEF PastInv
<1>3. TypeInv /\ TypeInv' /\ UseInv /\ PastInv /\ FileInv /\ [Next]_vars => FileInv'
  BY FileStep
<1> QED
  BY <1>1, <1>2, <1>3, TypeInvariant, UseInvariant, PTL DEF Spec

\* A record on disk that a live process is said to hold open or busy has a handle in
\* that process and a product that runs, whatever fails, dies, times out or is lost.
THEOREM DiskTruth == Spec => []DiskTellsTruth
<1>1. TypeInv /\ UseInv /\ FileInv => DiskTellsTruth
  BY DEF UseInv, HandleLive, FileInv, OpenHasHandle, DiskFromMemory, ActiveStatuses,
       DiskTellsTruth
<1> QED
  BY <1>1, RecordInvariant, PTL

\* The file has every session in use, unless it is lost.
LEMMA ActiveInvariant == ASSUME ~FileMayBeLost PROVE Spec => []ActiveOnDisk
<1>1. Init => ActiveOnDisk
  BY DEF Init, ActiveOnDisk, Active
<1>2. TypeInv /\ TypeInv' /\ UseInv /\ PastInv /\ ActiveOnDisk /\ [Next]_vars => ActiveOnDisk'
  BY ActiveStep
<1> QED
  BY <1>1, <1>2, RecordInvariant, PTL DEF Spec

\* Unless the file is lost, memory and disk agree on every session in use, whatever
\* its owner and the other processes do to theirs.
THEOREM MemoryDisk == ASSUME ~FileMayBeLost PROVE Spec => []MemoryMatchesDisk
<1>1. FileInv /\ ActiveOnDisk => MemoryMatchesDisk
  BY DEF FileInv, DiskFromMemory, ActiveOnDisk, Active, MemoryMatchesDisk
<1> QED
  BY <1>1, ActiveInvariant, RecordInvariant, PTL

\* Orderly callers close what was opened, and nothing while they open.
LEMMA OrderlyInvariant == ASSUME OrderlyCallers PROVE Spec => []Orderly
<1>1. Init => Orderly
  BY DEF Init, Orderly
<1>2. TypeInv /\ Orderly /\ [Next]_vars => Orderly'
  BY OrderlyStep
<1> QED
  BY <1>1, <1>2, TypeInvariant, PTL DEF Spec

\* The limits are kept, in all processes together, for callers that name only what an
\* open has returned and launches that end within the time to live.  The file may
\* only be lost to a process that has nobody to share it with.
THEOREM CapacityIsKept ==
  ASSUME OrderlyCallers, LaunchWithinTTL, ~FileMayBeLost \/ OneProcess
  PROVE  Spec => []CapacityKept
<1> DEFINE Agree == ActiveOnDisk \/ OneProcess
           Inv == PendingKept /\ FinitelyMany /\ WithinLimits(Active)
<1>1. Init => Inv
  <2> SUFFICES ASSUME Init PROVE Inv
    OBVIOUS
  <2>1. PendingKept
    BY DEF Init, PendingKept
  <2>2. {s \in Sids : owner[s] # NoOne} = {} /\ Active = {}
    BY DEF Init, Active
  <2>3. FinitelyMany /\ WithinLimits(Active)
    BY <2>2, FS_EmptySet, StoreAssumption DEF FinitelyMany, WithinLimits
  <2> QED
    BY <2>1, <2>3
<1>2. TypeInv /\ TypeInv' /\ UseInv /\ PastInv /\ FileInv /\ Orderly /\ Agree /\ Inv
        /\ [Next]_vars
        => Inv'
  BY PendingStep, FiniteStep, CapacityStep
<1>3. Spec => []Agree
  <2>1. CASE OneProcess
    <3>1. Agree
      BY <2>1
    <3> QED
      BY <3>1, PTL
  <2>2. CASE ~FileMayBeLost
    <3>1. ActiveOnDisk => Agree
      OBVIOUS
    <3> QED
      BY <2>2, <3>1, ActiveInvariant, PTL
  <2> QED
    BY <2>1, <2>2
<1>4. WithinLimits(Active) => CapacityKept
  BY DEF WithinLimits, CapacityKept
<1> HIDE DEF Agree
<1> QED
  BY <1>1, <1>2, <1>3, <1>4, RecordInvariant, OrderlyInvariant, PTL DEF Spec

\* What a launch has started is listed with its handle, or about to be.
LEMMA ReachableInvariant ==
  ASSUME OrderlyCallers, ~LockTimeouts
  PROVE  Spec => [](HandleListed /\ LiveReachable)
<1>1. Init => HandleListed /\ LiveReachable
  BY DEF Init, HandleListed, LiveReachable
<1>2. TypeInv /\ TypeInv' /\ UseInv /\ PastInv /\ Orderly /\ HandleListed /\ LiveReachable
        /\ [Next]_vars
        => HandleListed' /\ LiveReachable'
  BY HandleStep, ReachableStep
<1> QED
  BY <1>1, <1>2, RecordInvariant, OrderlyInvariant, PTL DEF Spec

\* No product of a live process is lost if callers are orderly and the lock does not
\* time out: failing shutdowns, expiry, crashes of others and a lost file included.
THEOREM ProductsKept ==
  ASSUME OrderlyCallers, ~LockTimeouts
  PROVE  Spec => []NoLostProduct
<1>1. HandleListed /\ LiveReachable => NoLostProduct
  BY DEF HandleListed, LiveReachable, NoLostProduct
<1> QED
  BY <1>1, ReachableInvariant, PTL

\* In one process a session that was answered to be closed is gone and its product
\* does not run on, if callers are orderly and the lock does not time out.
THEOREM ClosedIsClosed ==
  ASSUME OrderlyCallers, ~LockTimeouts, OneProcess
  PROVE  Spec => []ClosedMeansClosed
<1>1. Init => ClosedForGood
  BY DEF Init, ClosedForGood
<1>2. TypeInv /\ TypeInv' /\ UseInv /\ PastInv /\ Orderly /\ HandleListed /\ LiveReachable
        /\ ClosedForGood
      /\ [Next]_vars => ClosedForGood'
  BY ClosedStep
<1>3. ClosedForGood => ClosedMeansClosed
  BY DEF ClosedForGood, ClosedMeansClosed
<1> QED
  BY <1>1, <1>2, <1>3, RecordInvariant, OrderlyInvariant, ReachableInvariant, PTL DEF Spec

\* Expiry removes only what is due at that moment while no shutdown fails, whatever
\* the callers name.
THEOREM ExpiryIsDue == ASSUME ~CloseMayFail PROVE Spec => ExpiryRemovesOnlyDue
<1> DEFINE Fair == \A s \in Sids : s \in mem /\ s \notin mem' /\ owner[s] \in alive' =>
                     \/ s \in due
                     \/ \E t \in Threads : arg[t] = s
                          /\ pc[t] \in {"purge", "closeRemove", "unregister"}
<1>1. Init => DueInHand
  BY DEF Init, DueInHand
<1>2. TypeInv /\ TypeInv' /\ PastInv /\ FileInv /\ DueInHand /\ [Next]_vars => DueInHand'
  BY DueStep
<1>3. TypeInv /\ DueInHand /\ [Next]_vars => [Fair]_vars
  <2> SUFFICES ASSUME TypeInv, DueInHand, Next PROVE Fair
    OBVIOUS
  <2> USE DEF recordVars, TypeInv, TypeOK
  <2>1. CASE mem \subseteq mem'
    BY <2>1
  <2>2. ASSUME NEW t \in Threads, NEW s \in Sids, Expire(t, s) PROVE Fair
    BY <2>2 DEF Expire, Expirable, Remove
  <2>3. ASSUME NEW t \in Threads, ExpireRemove(t) PROVE Fair
    BY <2>3 DEF ExpireRemove, RemoveOwn, Remove, DueInHand
  <2>4. ASSUME NEW t \in Threads, Unregister(t) \/ CloseRemove(t) \/ Purge(t) PROVE Fair
    BY <2>4 DEF Unregister, CloseRemove, Purge, RemoveOwn, Remove
  <2>5. ASSUME NEW p \in Procs, Crash(p) PROVE Fair
    BY SMTT(60), <2>5 DEF Crash
  <2>6. \/ mem \subseteq mem'
        \/ \E t \in Threads : \/ \E s \in Sids : Expire(t, s)
                              \/ ExpireRemove(t) \/ Unregister(t) \/ CloseRemove(t) \/ Purge(t)
        \/ \E p \in Procs : Crash(p)
    BY DEF Next, Step, CallSomething, CallOpen, CallOn, CallList, CallCloseAll, Call, Cleanup,
       ExpireLock, ExpireClosed, ExpireFailed, ShutDown, ExpireMark, CloseMark, MarkCloseFailure,
       ReserveRefused, Reserve, LaunchOk, LaunchFailed, Register, Listing, Lookup, ExecLock,
       ExecDone, ExecEnd, CloseLook, CloseLock, CloseShut, Closed, CloseFailed, CloseAll,
       NextClose, LockTimeout, TimePasses, FileLost
  <2> QED
    BY <2>1, <2>2, <2>3, <2>4, <2>5, <2>6
<1> QED
  BY <1>1, <1>2, <1>3, RecordInvariant, PTL DEF Spec, ExpiryRemovesOnlyDue

=============================================================================
