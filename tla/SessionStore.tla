---------------------------- MODULE SessionStore ----------------------------
(***************************************************************************)
(* SessionStore (core/execution/session_store.py): the sessions every      *)
(* server process opens, uses and closes, in its own memory and in the     *)
(* sessions.json all processes share.                                      *)
(*                                                                         *)
(* One action is one block under the store's lock and the state file's     *)
(* lock (sync from disk, decide, change, persist), or one call to the      *)
(* product outside them: launches, executions and shutdowns are slow, and  *)
(* every other thread may run meanwhile.  That the blocks exclude one      *)
(* another is what FileLock is about.                                      *)
(*                                                                         *)
(* A process keeps between blocks only the records it owns: all others are *)
(* rebuilt from disk by the next sync.  So a record's fields are kept once *)
(* in memory (status, handle), for its owner, and once on disk.            *)
(***************************************************************************)
EXTENDS Naturals, FiniteSets

CONSTANTS Procs,             \* server processes
          Threads,           \* the threads that call the store
          ProcOf,            \* the process a thread runs in
          Sids,              \* session ids (uuid4: never used twice)
          AdapterOf,         \* the adapter each id would be opened with
          NoOne,             \* no process, thread or session
          MaxSessions,       \* max_sessions
          MaxPerAdapter,     \* max_sessions_per_adapter
          Calls,             \* the operations callers use in this instance
          MaxCalls,          \* bound: calls per thread
          CloseMayFail,      \* the product's close may raise
          LockTimeouts,      \* the state file's lock may time out
          Crashes,           \* processes may die at any step
          FileMayBeLost,     \* sessions.json may become unreadable
          OrderlyCallers,    \* callers name only ids an open has returned, and
                             \* run close_all only while no open is under way
          LaunchWithinTTL    \* a launch takes less than ttl_seconds

Operations == {"open", "execute", "close", "list", "closeAll"}

ASSUME StoreAssumption ==
  /\ ProcOf \in [Threads -> Procs]
  /\ NoOne \notin Procs \cup Threads \cup Sids
  /\ Calls \subseteq Operations
  /\ MaxSessions \in Nat /\ MaxPerAdapter \in Nat /\ MaxCalls \in Nat

VARIABLES alive,      \* processes that run
          owner,      \* owner_pid of each id, NoOne for an id not drawn yet
          mem,        \* ids whose record is in its owner's _sessions
          status,     \* managed.status in the owner's memory
          handle,     \* ids whose managed.session is not None
          disk,       \* the status sessions.json gives each id, or "none"
          due,        \* ids whose expires_at has passed
          product,    \* what became of the product behind each id
          mlock,      \* the thread that holds managed.lock
          pc, op,     \* where each thread is, and in which call
          arg,        \* the id the call is about
          cur, todo,  \* expiry: the id in hand, and the rest of expired_ids
          rest,       \* close_all: the ids still to close
          calls,      \* calls each thread may still make
          returned,   \* ids an open has returned
          closedOK    \* ids a close answered {"closed": True} for

callVars == <<op, arg, cur, todo, rest, calls>>
recordVars == <<mem, status, handle, disk, due>>
history == <<returned, closedOK>>
vars == <<alive, owner, recordVars, product, mlock, pc, callVars, history>>

Statuses == {"opening", "open", "busy", "closing", "closed", "expired", "orphaned"}
Terminal == {"closed", "expired", "orphaned"}

Init == /\ alive = Procs
        /\ owner = [s \in Sids |-> NoOne]
        /\ mem = {} /\ handle = {} /\ due = {}
        /\ status = [s \in Sids |-> "opening"]
        /\ disk = [s \in Sids |-> "none"]
        /\ product = [s \in Sids |-> "none"]
        /\ mlock = [s \in Sids |-> NoOne]
        /\ pc = [t \in Threads |-> "idle"]
        /\ op = [t \in Threads |-> "list"]
        /\ arg = [t \in Threads |-> NoOne]
        /\ cur = [t \in Threads |-> NoOne]
        /\ todo = [t \in Threads |-> {}]
        /\ rest = [t \in Threads |-> {}]
        /\ calls = [t \in Threads |-> MaxCalls]
        /\ returned = {} /\ closedOK = {}

-----------------------------------------------------------------------------
(* What process p sees after _sync_from_disk_locked.                       *)

\* local_owned: p's own record wins over whatever the disk says.
Local(p, s) == owner[s] = p /\ s \in mem

\* The keys of _sessions; a record stored as "closed" is not loaded.
Listed(p) == {s \in Sids : Local(p, s) \/ disk[s] \notin {"none", "closed"}}

\* A loaded record keeps its status only while another, live process owns it.
StatusAt(p, s) == IF Local(p, s) THEN status[s]
                  ELSE IF owner[s] \in alive \ {p} THEN disk[s] ELSE "orphaned"

HasHandle(p, s) == Local(p, s) /\ s \in handle

RemoteOwnedLive(p, s) == /\ owner[s] \in alive \ {p}
                         /\ StatusAt(p, s) \notin Terminal

\* Mutant of CountsTowardCapacity: each process counts its own sessions.
CountsOwn(p, s) == Local(p, s) /\ StatusAt(p, s) \notin Terminal

CountsTowardCapacity(p, s) == s \in Listed(p) /\ StatusAt(p, s) \notin Terminal

\* Mutant of CanExecute: any session this process still lists can execute.
CanExecuteListed(p, s) == Local(p, s)

CanExecute(p, s) == HasHandle(p, s) /\ status[s] \in {"opening", "open", "busy"}

\* _persist_state_locked writes what p sees, with its records m of statuses st.
Persist(p, m, st) ==
  disk' = [s \in Sids |-> IF owner[s] = p /\ s \in m THEN st[s]
                          ELSE IF s \in Listed(p) /\ ~Local(p, s) THEN StatusAt(p, s)
                          ELSE "none"]

\* _remove_metadata: pop the record, whoever owned it, and persist.
Remove(p, s) ==
  /\ mem' = IF Local(p, s) THEN mem \ {s} ELSE mem
  /\ disk' = [r \in Sids |-> IF r \in Listed(p) \ {s} THEN StatusAt(p, r) ELSE "none"]

-----------------------------------------------------------------------------
(* Moving between the blocks of a call.                                    *)

Goto(t, there) == pc' = [pc EXCEPT ![t] = there]

FirstStep(o) == CASE o = "open" -> "reserve"
                  [] o = "execute" -> "lookup"
                  [] o \in {"close", "closeAll"} -> "closeLook"
                  [] o = "list" -> "listing"

\* Mutant of Release: managed.lock acquired without a `with`.
ReleaseForgotten(t) == UNCHANGED mlock

Release(t) == mlock' = [s \in Sids |-> IF mlock[s] = t THEN NoOne ELSE mlock[s]]

\* The call returns or raises; close_all swallows either and goes on.
Return(t) == /\ Goto(t, IF op[t] = "closeAll" THEN "nextClose" ELSE "idle")
             /\ Release(t)
             /\ UNCHANGED callVars

\* Done with one id of expired_ids.
NextExpired(t) == /\ Goto(t, IF todo[t] = {} THEN FirstStep(op[t]) ELSE "expire")
                  /\ Release(t)
                  /\ cur' = [cur EXCEPT ![t] = NoOne]
                  /\ UNCHANGED <<op, arg, todo, rest, calls>>

Call(t, o, s) == /\ pc[t] = "idle"
                 /\ o \in Calls
                 /\ calls[t] > 0
                 /\ ProcOf[t] \in alive
                 /\ calls' = [calls EXCEPT ![t] = @ - 1]
                 /\ op' = [op EXCEPT ![t] = o]
                 /\ arg' = [arg EXCEPT ![t] = s]
                 /\ UNCHANGED <<alive, recordVars, product, mlock, cur, todo, rest, history>>

\* Ids a caller may name: those it got from an open, or any it saw in a list.
Nameable == IF OrderlyCallers THEN returned ELSE {s \in Sids : owner[s] # NoOne}

\* Some thread of p is in a call to o.
InCall(p, o) == \E u \in Threads : ProcOf[u] = p /\ pc[u] \notin {"idle", "dead"} /\ op[u] = o

CallOpen(t, s) == /\ owner[s] = NoOne
                  /\ OrderlyCallers => ~InCall(ProcOf[t], "closeAll")
                  /\ owner' = [owner EXCEPT ![s] = ProcOf[t]]
                  /\ Call(t, "open", s)
                  /\ Goto(t, "cleanup")

CallOn(t, o, s) == /\ s \in Nameable
                   /\ Call(t, o, s)
                   /\ Goto(t, "cleanup")
                   /\ UNCHANGED owner

CallList(t) == Call(t, "list", NoOne) /\ Goto(t, "cleanup") /\ UNCHANGED owner

\* close_all is the process's exit handler.
CallCloseAll(t) ==
  /\ OrderlyCallers => ~InCall(ProcOf[t], "open")
  /\ Call(t, "closeAll", NoOne)
  /\ Goto(t, "closeAll")
  /\ UNCHANGED owner

-----------------------------------------------------------------------------
(* _cleanup_expired and _expire_metadata: every call begins with them.     *)

\* Collect what looks expired; the ids are judged again one by one.
Cleanup(t) ==
  LET p == ProcOf[t]
      expired == {s \in Listed(p) : /\ StatusAt(p, s) # "busy"
                                    /\ s \in due
                                    /\ ~RemoteOwnedLive(p, s)}
  IN /\ pc[t] = "cleanup"
     /\ todo' = [todo EXCEPT ![t] = expired]
     /\ Goto(t, IF expired = {} THEN FirstStep(op[t]) ELSE "expire")
     /\ UNCHANGED <<alive, owner, recordVars, product, mlock, op, arg, cur, rest, calls, history>>

\* Mutant of Expirable: what _cleanup_expired found due is not judged again.
ExpirableUnchecked(p, s) == /\ s \in Listed(p)
                            /\ ~RemoteOwnedLive(p, s)
                            /\ StatusAt(p, s) # "busy"

Expirable(p, s) == /\ s \in Listed(p)
                   /\ ~RemoteOwnedLive(p, s)
                   /\ StatusAt(p, s) # "busy"
                   /\ s \in due

\* First block of _expire_metadata: pass over, drop, or mark for shutdown.
Expire(t, s) ==
  LET p == ProcOf[t]
      others == todo[t] \ {s}
      skip == /\ Goto(t, IF others = {} THEN FirstStep(op[t]) ELSE "expire")
              /\ UNCHANGED cur
  IN /\ pc[t] = "expire"
     /\ s \in todo[t]
     /\ todo' = [todo EXCEPT ![t] = others]
     /\ \/ /\ ~Expirable(p, s)
           /\ skip
           /\ UNCHANGED recordVars
        \/ /\ Expirable(p, s) /\ ~HasHandle(p, s)
           /\ skip
           /\ Remove(p, s)
           /\ UNCHANGED <<status, handle, due>>
        \/ /\ Expirable(p, s) /\ HasHandle(p, s)
           /\ status' = [status EXCEPT ![s] = "expired"]
           /\ Persist(p, mem, status')
           /\ cur' = [cur EXCEPT ![t] = s]
           /\ Goto(t, "expireLock")
           /\ UNCHANGED <<mem, handle, due>>
     /\ UNCHANGED <<alive, owner, product, mlock, op, arg, rest, calls, history>>

\* managed.lock taken; _shutdown_managed sets the status and calls close, if a
\* thread that held the lock before has not already done so.
ExpireLock(t) ==
  LET s == cur[t]
  IN /\ pc[t] = "expireLock"
     /\ mlock[s] = NoOne
     /\ IF s \in handle
        THEN /\ mlock' = [mlock EXCEPT ![s] = t]
             /\ status' = [status EXCEPT ![s] = "expired"]
             /\ Goto(t, "expireClosing")
        ELSE /\ status' = [status EXCEPT ![s] = "closed"]
             /\ Goto(t, "expireRemove")
             /\ UNCHANGED mlock
     /\ UNCHANGED <<alive, owner, mem, handle, disk, due, product, callVars, history>>

\* The product's close returned or raised; either way the handle is dropped.
ShutDown(t, s, ok) ==
  /\ ok \/ CloseMayFail
  /\ product' = [product EXCEPT ![s] = IF ok THEN "stopped" ELSE "stuck"]
  /\ handle' = handle \ {s}
  /\ status' = [status EXCEPT ![s] = "closed"]
  /\ UNCHANGED <<alive, owner, mem, disk, due, callVars, history>>

ExpireClosed(t) == /\ pc[t] = "expireClosing"
                   /\ ShutDown(t, cur[t], TRUE)
                   /\ Release(t)
                   /\ Goto(t, "expireRemove")

ExpireFailed(t) == /\ pc[t] = "expireClosing"
                   /\ ShutDown(t, cur[t], FALSE)
                   /\ Goto(t, "expireMark")
                   /\ UNCHANGED mlock

\* _mark_close_failure: the handle is gone by now, so the status it writes is
\* always "orphaned", never "degraded".
MarkCloseFailure(t, s) ==
  LET p == ProcOf[t]
  IN IF Local(p, s)
     THEN /\ due' = due \ {s}
          /\ status' = [status EXCEPT ![s] = "orphaned"]
          /\ Persist(p, mem, status')
          /\ UNCHANGED <<mem, handle>>
     ELSE UNCHANGED recordVars

ExpireMark(t) == /\ pc[t] = "expireMark"
                 /\ MarkCloseFailure(t, cur[t])
                 /\ NextExpired(t)
                 /\ UNCHANGED <<alive, owner, product, history>>

\* Remove the record if `current is managed`: the one object its owner made.
RemoveOwn(t, s) ==
  LET p == ProcOf[t]
  IN /\ IF Local(p, s) THEN Remove(p, s) ELSE UNCHANGED <<mem, disk>>
     /\ UNCHANGED <<status, handle, due>>

ExpireRemove(t) == /\ pc[t] = "expireRemove"
                   /\ RemoveOwn(t, cur[t])
                   /\ NextExpired(t)
                   /\ UNCHANGED <<alive, owner, product, history>>

-----------------------------------------------------------------------------
(* open                                                                    *)

\* Mutant of Full: > for >=.
FullOffByOne(p, a) ==
  \/ Cardinality({s \in Sids : CountsTowardCapacity(p, s)}) > MaxSessions
  \/ Cardinality({s \in Sids : CountsTowardCapacity(p, s) /\ AdapterOf[s] = a}) > MaxPerAdapter

Full(p, a) ==
  \/ Cardinality({s \in Sids : CountsTowardCapacity(p, s)}) >= MaxSessions
  \/ Cardinality({s \in Sids : CountsTowardCapacity(p, s) /\ AdapterOf[s] = a}) >= MaxPerAdapter

\* Refused: "Session limit reached".
ReserveRefused(t) == /\ pc[t] = "reserve"
                     /\ Full(ProcOf[t], AdapterOf[arg[t]])
                     /\ Return(t)
                     /\ UNCHANGED <<alive, owner, recordVars, product, history>>

Reserve(t) ==
  LET s == arg[t]
  IN /\ pc[t] = "reserve"
     /\ ~Full(ProcOf[t], AdapterOf[s])
     /\ mem' = mem \cup {s}
     /\ status' = [status EXCEPT ![s] = "opening"]
     /\ due' = due \ {s}
     /\ Persist(ProcOf[t], mem', status')
     /\ Goto(t, "launch")
     /\ UNCHANGED <<alive, owner, handle, product, mlock, callVars, history>>

\* open_managed_session, outside every lock.
LaunchOk(t) == /\ pc[t] = "launch"
               /\ product' = [product EXCEPT ![arg[t]] = "live"]
               /\ Goto(t, "register")
               /\ UNCHANGED <<alive, owner, recordVars, mlock, callVars, history>>

LaunchFailed(t) == /\ pc[t] = "launch"
                   /\ Goto(t, "unregister")
                   /\ UNCHANGED <<alive, owner, recordVars, product, mlock, callVars, history>>

Unregister(t) == /\ pc[t] = "unregister"
                 /\ RemoveOwn(t, arg[t])
                 /\ Return(t)
                 /\ UNCHANGED <<alive, owner, product, history>>

\* Mutant of Register: the launched session is not stored in the record.
RegisterWithoutHandle(t) ==
  LET s == arg[t]
  IN /\ pc[t] = "register"
     /\ due' = due \ {s}
     /\ status' = [status EXCEPT ![s] = "open"]
     /\ mem' = mem \cup {s}
     /\ Persist(ProcOf[t], mem', status')
     /\ returned' = returned \cup {s}
     /\ Return(t)
     /\ UNCHANGED <<alive, owner, handle, product, closedOK>>

\* The pending record becomes an open one, whether or not it is still listed.
Register(t) ==
  LET s == arg[t]
  IN /\ pc[t] = "register"
     /\ handle' = handle \cup {s}
     /\ due' = due \ {s}
     /\ status' = [status EXCEPT ![s] = "open"]
     /\ mem' = mem \cup {s}
     /\ Persist(ProcOf[t], mem', status')
     /\ returned' = returned \cup {s}
     /\ Return(t)
     /\ UNCHANGED <<alive, owner, product, closedOK>>

-----------------------------------------------------------------------------
(* list, get, describe: nothing is changed beyond the expiry before them.  *)

Listing(t) == /\ pc[t] = "listing"
              /\ Return(t)
              /\ UNCHANGED <<alive, owner, recordVars, product, history>>

-----------------------------------------------------------------------------
(* execute                                                                 *)

Lookup(t) == /\ pc[t] = "lookup"
             /\ IF arg[t] \in Listed(ProcOf[t])
                THEN Goto(t, "execLock") /\ UNCHANGED <<mlock, callVars>>
                ELSE Return(t)
             /\ UNCHANGED <<alive, owner, recordVars, product, history>>

\* Mutant of LockFree: executions take no lock.
NoLock(t, s) == TRUE

\* The lock of a record another process owns is an object nobody else has.
LockFree(t, s) == Local(ProcOf[t], s) => mlock[s] = NoOne

\* Mutant of ExecLock: going busy is not persisted.
ExecLockUnsaved(t) ==
  LET s == arg[t]
  IN /\ pc[t] = "execLock"
     /\ LockFree(t, s)
     /\ IF CanExecute(ProcOf[t], s)
        THEN /\ mlock' = [mlock EXCEPT ![s] = t]
             /\ status' = [status EXCEPT ![s] = "busy"]
             /\ Goto(t, "running")
             /\ UNCHANGED <<mem, handle, disk, due, callVars>>
        ELSE Return(t) /\ UNCHANGED recordVars
     /\ UNCHANGED <<alive, owner, product, history>>

\* Under managed.lock: look the session up again, and go busy if it can execute.
ExecLock(t) ==
  LET s == arg[t]
      p == ProcOf[t]
  IN /\ pc[t] = "execLock"
     /\ LockFree(t, s)
     /\ IF CanExecute(p, s)
        THEN /\ mlock' = [mlock EXCEPT ![s] = t]
             /\ status' = [status EXCEPT ![s] = "busy"]
             /\ Persist(p, mem, status')
             /\ Goto(t, "running")
             /\ UNCHANGED <<mem, handle, due, callVars>>
        ELSE Return(t) /\ UNCHANGED recordVars
     /\ UNCHANGED <<alive, owner, product, history>>

\* The product answers, or raises.
ExecDone(t) == /\ pc[t] = "running"
               /\ Goto(t, "execEnd")
               /\ UNCHANGED <<alive, owner, recordVars, product, mlock, callVars, history>>

\* Both the normal and the failing path touch the record and make it open.
ExecEnd(t) ==
  LET s == arg[t]
      p == ProcOf[t]
  IN /\ pc[t] = "execEnd"
     /\ IF Local(p, s)
        THEN /\ due' = due \ {s}
             /\ status' = [status EXCEPT ![s] = "open"]
             /\ Persist(p, mem, status')
             /\ UNCHANGED <<mem, handle>>
        ELSE UNCHANGED recordVars
     /\ Return(t)
     /\ UNCHANGED <<alive, owner, product, history>>

-----------------------------------------------------------------------------
(* close                                                                   *)

CloseLook(t) ==
  LET s == arg[t]
      p == ProcOf[t]
  IN /\ pc[t] = "closeLook"
     /\ IF s \notin Listed(p) THEN Return(t)
        ELSE /\ Goto(t, IF HasHandle(p, s) THEN "closeLock" ELSE "purge")
             /\ UNCHANGED <<mlock, callVars>>
     /\ UNCHANGED <<alive, owner, recordVars, product, history>>

\* _purge_orphaned_record: its record goes, whatever it holds by now.
Purge(t) ==
  LET s == arg[t]
      p == ProcOf[t]
  IN /\ pc[t] = "purge"
     /\ IF s \notin Listed(p) \/ RemoteOwnedLive(p, s)
        THEN UNCHANGED <<recordVars, closedOK>>
        ELSE /\ status' = IF Local(p, s) THEN [status EXCEPT ![s] = "closed"] ELSE status
             /\ Remove(p, s)
             /\ closedOK' = closedOK \cup {s}
             /\ UNCHANGED <<handle, due>>
     /\ Return(t)
     /\ UNCHANGED <<alive, owner, product, returned>>

\* Mutant of CloseLock: closing is not announced to other processes.
CloseLockUnsaved(t) ==
  LET s == arg[t]
  IN /\ pc[t] = "closeLock"
     /\ mlock[s] = NoOne
     /\ IF HasHandle(ProcOf[t], s)
        THEN /\ mlock' = [mlock EXCEPT ![s] = t]
             /\ status' = [status EXCEPT ![s] = "closing"]
             /\ Goto(t, "shut")
             /\ UNCHANGED <<mem, handle, disk, due, callVars>>
        ELSE Return(t) /\ UNCHANGED recordVars
     /\ UNCHANGED <<alive, owner, product, history>>

\* Under managed.lock: closing is announced before the product is asked.
CloseLock(t) ==
  LET s == arg[t]
      p == ProcOf[t]
  IN /\ pc[t] = "closeLock"
     /\ mlock[s] = NoOne
     /\ \/ /\ s \notin Listed(p)
           /\ Return(t)
           /\ UNCHANGED recordVars
        \/ /\ s \in Listed(p) /\ ~HasHandle(p, s)
           /\ mlock' = [mlock EXCEPT ![s] = t]
           /\ Goto(t, "purge")
           /\ UNCHANGED <<recordVars, callVars>>
        \/ /\ HasHandle(p, s)
           /\ mlock' = [mlock EXCEPT ![s] = t]
           /\ status' = [status EXCEPT ![s] = "closing"]
           /\ Persist(p, mem, status')
           /\ Goto(t, "shut")
           /\ UNCHANGED <<mem, handle, due, callVars>>
     /\ UNCHANGED <<alive, owner, product, history>>

\* _shutdown_managed writes the status again, outside the store's lock.
CloseShut(t) == /\ pc[t] = "shut"
                /\ status' = [status EXCEPT ![arg[t]] = "closing"]
                /\ Goto(t, "closing")
                /\ UNCHANGED <<alive, owner, mem, handle, disk, due, product, mlock, callVars, history>>

Closed(t) == /\ pc[t] = "closing"
             /\ ShutDown(t, arg[t], TRUE)
             /\ Goto(t, "closeRemove")
             /\ UNCHANGED mlock

CloseFailed(t) == /\ pc[t] = "closing"
                  /\ ShutDown(t, arg[t], FALSE)
                  /\ Goto(t, "closeMark")
                  /\ UNCHANGED mlock

CloseMark(t) == /\ pc[t] = "closeMark"
                /\ MarkCloseFailure(t, arg[t])
                /\ Return(t)
                /\ UNCHANGED <<alive, owner, product, history>>

\* Mutant of CloseRemove: the closed session's record is kept.
CloseRemoveForgotten(t) == /\ pc[t] = "closeRemove"
                           /\ closedOK' = closedOK \cup {arg[t]}
                           /\ Return(t)
                           /\ UNCHANGED <<alive, owner, recordVars, product, returned>>

CloseRemove(t) == /\ pc[t] = "closeRemove"
                  /\ RemoveOwn(t, arg[t])
                  /\ closedOK' = closedOK \cup {arg[t]}
                  /\ Return(t)
                  /\ UNCHANGED <<alive, owner, product, returned>>

-----------------------------------------------------------------------------
(* close_all                                                               *)

CloseAll(t) == /\ pc[t] = "closeAll"
               /\ rest' = [rest EXCEPT ![t] = Listed(ProcOf[t])]
               /\ Goto(t, "nextClose")
               /\ UNCHANGED <<alive, owner, recordVars, product, mlock, op, arg, cur, todo, calls, history>>

NextClose(t) ==
  /\ pc[t] = "nextClose"
  /\ \/ /\ rest[t] = {}
        /\ Goto(t, "idle")
        /\ UNCHANGED <<arg, rest>>
     \/ \E s \in rest[t] : /\ arg' = [arg EXCEPT ![t] = s]
                           /\ rest' = [rest EXCEPT ![t] = @ \ {s}]
                           /\ Goto(t, "cleanup")
  /\ UNCHANGED <<alive, owner, recordVars, product, mlock, op, cur, todo, calls, history>>

-----------------------------------------------------------------------------
(* What the callers do not choose.                                         *)

\* A caller is inside open_managed_session, or about to record its outcome.
BeingOpened(s) == \E t \in Threads : /\ pc[t] \in {"launch", "register", "unregister"}
                                     /\ arg[t] = s

\* ttl_seconds pass since the record was last touched.
TimePasses(s) == /\ disk[s] # "none" \/ s \in mem
                 /\ s \notin due
                 /\ LaunchWithinTTL => ~BeingOpened(s)
                 /\ due' = due \cup {s}
                 /\ UNCHANGED <<alive, owner, mem, status, handle, disk, product, mlock,
                                pc, callVars, history>>

\* The first thing each of these blocks does is to take the state file's lock.
Blocks == {"cleanup", "expire", "expireMark", "expireRemove", "reserve", "register",
           "unregister", "listing", "lookup", "execLock", "execEnd", "closeLook",
           "purge", "closeLock", "closeMark", "closeRemove"}

\* TimeoutError after 30 seconds: the rest of the call does not happen.
LockTimeout(t) == /\ LockTimeouts
                  /\ \/ pc[t] \in Blocks /\ Return(t)
                     \/ pc[t] = "closeAll" /\ Goto(t, "idle") /\ UNCHANGED <<mlock, callVars>>
                  /\ UNCHANGED <<alive, owner, recordVars, product, history>>

\* The process dies; its memory goes, its products and its records stay.
Crash(p) ==
  LET own == {s \in Sids : owner[s] = p}
      gone == {t \in Threads : ProcOf[t] = p}
  IN /\ Crashes
     /\ p \in alive
     /\ alive' = alive \ {p}
     /\ pc' = [t \in Threads |-> IF t \in gone THEN "dead" ELSE pc[t]]
     /\ mem' = mem \ own
     /\ handle' = handle \ own
     /\ mlock' = [s \in Sids |-> IF mlock[s] \in gone THEN NoOne ELSE mlock[s]]
     /\ UNCHANGED <<owner, status, disk, due, product, callVars, history>>

\* Something damages or deletes sessions.json: from then on a read fails, which
\* _read_persisted_sessions_locked takes for a file without sessions.
FileLost == /\ FileMayBeLost
            /\ disk' = [s \in Sids |-> "none"]
            /\ UNCHANGED <<alive, owner, mem, status, handle, due, product, mlock, pc,
                           callVars, history>>

-----------------------------------------------------------------------------
CallSomething(t) == \/ \E s \in Sids : CallOpen(t, s)
                    \/ \E s \in Sids, o \in {"execute", "close"} : CallOn(t, o, s)
                    \/ CallList(t) \/ CallCloseAll(t)

Step(t) ==
  \/ Cleanup(t) \/ (\E s \in Sids : Expire(t, s))
  \/ ExpireLock(t) \/ ExpireClosed(t) \/ ExpireFailed(t) \/ ExpireMark(t) \/ ExpireRemove(t)
  \/ ReserveRefused(t) \/ Reserve(t) \/ LaunchOk(t) \/ LaunchFailed(t)
  \/ Unregister(t) \/ Register(t)
  \/ Listing(t)
  \/ Lookup(t) \/ ExecLock(t) \/ ExecDone(t) \/ ExecEnd(t)
  \/ CloseLook(t) \/ Purge(t) \/ CloseLock(t) \/ CloseShut(t) \/ Closed(t) \/ CloseFailed(t)
  \/ CloseMark(t) \/ CloseRemove(t)
  \/ CloseAll(t) \/ NextClose(t)

Next == \/ \E t \in Threads : CallSomething(t) \/ Step(t) \/ LockTimeout(t)
        \/ \E s \in Sids : TimePasses(s)
        \/ \E p \in Procs : Crash(p)
        \/ FileLost

Spec == Init /\ [][Next]_vars

\* Every thread inside a call runs, and every product call returns; nobody has
\* to call anything, to time out or to die.
FairSpec == Spec /\ \A t \in Threads : WF_vars(Step(t))

-----------------------------------------------------------------------------
Places == {"idle", "dead", "expireLock", "expireClosing", "launch", "running",
           "shut", "closing", "closeAll", "nextClose"} \cup Blocks

\* The variables stay in their ranges.
TypeOK == /\ alive \subseteq Procs
          /\ owner \in [Sids -> Procs \cup {NoOne}]
          /\ mem \subseteq Sids /\ handle \subseteq Sids /\ due \subseteq Sids
          /\ status \in [Sids -> Statuses]
          /\ disk \in [Sids -> Statuses \cup {"none"}]
          /\ product \in [Sids -> {"none", "live", "stopped", "stuck"}]
          /\ mlock \in [Sids -> Threads \cup {NoOne}]
          /\ pc \in [Threads -> Places]
          /\ op \in [Threads -> Operations]
          /\ arg \in [Threads -> Sids \cup {NoOne}]
          /\ cur \in [Threads -> Sids \cup {NoOne}]
          /\ todo \in [Threads -> SUBSET Sids]
          /\ rest \in [Threads -> SUBSET Sids]
          /\ calls \in [Threads -> Nat]
          /\ returned \subseteq Sids /\ closedOK \subseteq Sids

\* Thread t is in a call to the product of s.
Using(t, s) == \/ pc[t] \in {"running", "closing"} /\ arg[t] = s
               \/ pc[t] = "expireClosing" /\ cur[t] = s

\* A product is used by one thread at a time: executions never overlap, and no
\* close or expiry shuts a product down under an execution.
OneUserAtATime ==
  \A s \in Sids : \A t, u \in Threads : Using(t, s) /\ Using(u, s) => t = u

\* Whoever is in a call to a product calls one that was launched and not closed.
UsesLiveProduct ==
  \A s \in Sids : \A t \in Threads : Using(t, s) => s \in handle /\ product[s] = "live"

ActiveStatuses == {"opening", "open", "busy"}
Active == {s \in mem : status[s] \in ActiveStatuses}

\* "Session limit reached": never more open or pending sessions than allowed, in
\* all processes together and for each adapter.
CapacityKept ==
  /\ Cardinality(Active) <= MaxSessions
  /\ \A s \in Active : Cardinality({r \in Active : AdapterOf[r] = AdapterOf[s]}) <= MaxPerAdapter

\* A running product can be reached: its live owner lists it with its handle, or
\* the open that launched it is about to.
NoLostProduct ==
  \A s \in Sids : product[s] = "live" /\ owner[s] \in alive =>
    \/ s \in mem /\ s \in handle
    \/ \E t \in Threads : pc[t] = "register" /\ arg[t] = s

\* What other processes read is true: a record on disk that a live process is
\* said to hold open (or busy) has a product that runs behind it.
DiskTellsTruth ==
  \A s \in Sids : disk[s] \in {"open", "busy"} /\ owner[s] \in alive =>
    s \in mem /\ s \in handle /\ product[s] = "live"

\* Memory and disk agree on every session in use: a live owner and the file say
\* the same of it, so capacity is counted from the truth in every process.
MemoryMatchesDisk ==
  \A s \in Sids : owner[s] \in alive /\ (s \in Active \/ disk[s] \in ActiveStatuses) =>
    s \in mem /\ disk[s] = status[s]

\* {"closed": True} is the truth: the session is gone for good, and its product
\* does not run on unless its owner died.
ClosedMeansClosed ==
  \A s \in closedOK : s \notin mem /\ (owner[s] \in alive => product[s] # "live")

\* Expiry removes a record only if it is due at that moment: what a call has
\* touched since, or kept because its shutdown failed, stays.
ExpiryRemovesOnlyDue ==
  [][\A s \in Sids : s \in mem /\ s \notin mem' /\ owner[s] \in alive' =>
       \/ s \in due
       \/ \E t \in Threads : arg[t] = s /\ pc[t] \in {"purge", "closeRemove", "unregister"}]_vars

\* Every call returns (or its process dies): no call waits for ever for another.
CallsReturn == \A t \in Threads : (pc[t] # "idle") ~> (pc[t] \in {"idle", "dead"})
=============================================================================
