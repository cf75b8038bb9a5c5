------------------------------ MODULE FileLock ------------------------------
(***************************************************************************)
(* exclusive_file_lock (core/execution/broker.py): the one primitive that  *)
(* serialises processes in AnsysConnector.  A thread takes the lock by     *)
(* creating a file exclusively and writing its pid into it; the others     *)
(* read that pid, break the lock when the owner seems dead, and give up    *)
(* at a deadline.  One step here is one call to the operating system.      *)
(*                                                                         *)
(* A file is named by the thread that created it: a thread never creates   *)
(* a second file while its first is still at the path, so the name tells   *)
(* an inode apart.                                                         *)
(***************************************************************************)
EXTENDS Naturals, FiniteSets

CONSTANTS Threads,       \* the callers
          Pids,          \* the processes
          PidOf,         \* the process a caller runs in
          NoPid,         \* what is read from a file without a pid
          NoFile,        \* nothing is at the lock's path
          Windows,       \* a file some handle has open cannot be unlinked
          Crashes,       \* processes may die at any step
          ProbeMisses,   \* pid_is_running may call a live process dead
          UnlinkDenied,  \* unlink may be refused to the breaker of a lock
          WriteFails,    \* os.write of the pid may fail (a full disk)
          Stalls         \* a live creator may take longer than stale_after
                         \* between creating the file and writing its pid

ASSUME PidAssumption == PidOf \in [Threads -> Pids] /\ NoPid \notin Pids
ASSUME FlagAssumption ==
  /\ Windows \in BOOLEAN /\ Crashes \in BOOLEAN /\ ProbeMisses \in BOOLEAN
  /\ UnlinkDenied \in BOOLEAN /\ WriteFails \in BOOLEAN /\ Stalls \in BOOLEAN

File == [by : Threads, pid : Pids \cup {NoPid}, old : BOOLEAN]

ASSUME NoFileAssumption == NoFile \notin File

VARIABLES path,     \* the file at the lock's path
          pc,       \* where each thread is
          fd,       \* threads whose handle from os.open is still open
          reading,  \* threads that have the file open to read its metadata
          got,      \* the owner pid each thread read last
          late,     \* threads whose deadline has passed
          alive     \* the processes that run
vars == <<path, pc, fd, reading, got, late, alive>>

Waiting == {"try", "readOwner", "closeOwner", "readAgain", "closeAgain",
            "probe", "break", "deadline"}

Init == /\ path = NoFile
        /\ pc = [t \in Threads |-> "idle"]
        /\ fd = {}
        /\ reading = {}
        /\ got = [t \in Threads |-> NoPid]
        /\ late = {}
        /\ alive = Pids

Goto(t, there) == pc' = [pc EXCEPT ![t] = there]

(***************************************************************************)
(* Windows refuses to remove a file that is open; POSIX never does.        *)
(***************************************************************************)
Pinned == /\ Windows
          /\ path # NoFile
          /\ (reading # {} \/ path.by \in fd)

-----------------------------------------------------------------------------
\* A caller enters the context manager; the deadline is computed.
Begin(t) == /\ pc[t] = "idle"
            /\ PidOf[t] \in alive
            /\ Goto(t, "try")
            /\ late' = late \ {t}
            /\ UNCHANGED <<path, fd, reading, got, alive>>

\* os.open(O_CREAT | O_EXCL): the file is ours, still empty.
Create(t) == /\ pc[t] = "try"
             /\ path = NoFile
             /\ path' = [by |-> t, pid |-> NoPid, old |-> FALSE]
             /\ fd' = fd \cup {t}
             /\ Goto(t, "write")
             /\ UNCHANGED <<reading, got, late, alive>>

\* os.open raises FileExistsError.
Exists(t) == /\ pc[t] = "try"
             /\ path # NoFile
             /\ Goto(t, "readOwner")
             /\ UNCHANGED <<path, fd, reading, got, late, alive>>

\* os.write of the pid: to the path's file unless another file took its place.
WritePid(t) == /\ pc[t] = "write"
               /\ Goto(t, "held")
               /\ path' = IF path # NoFile /\ path.by = t
                          THEN [path EXCEPT !.pid = PidOf[t]] ELSE path
               /\ UNCHANGED <<fd, reading, got, late, alive>>

\* os.write raises: the exception leaves the function, no one closes the handle.
WriteError(t) == /\ WriteFails
                 /\ pc[t] = "write"
                 /\ Goto(t, "idle")
                 /\ UNCHANGED <<path, fd, reading, got, late, alive>>

\* _read_lock_metadata opens and reads the file, here to find our own pid in it.
ReadMetadata(t, from, to) ==
  /\ pc[t] = from
  /\ Goto(t, to)
  /\ IF path = NoFile
     THEN got' = [got EXCEPT ![t] = NoPid] /\ UNCHANGED reading
     ELSE got' = [got EXCEPT ![t] = path.pid] /\ reading' = reading \cup {t}
  /\ UNCHANGED <<path, fd, late, alive>>

ReadOwner(t) == ReadMetadata(t, "readOwner", "closeOwner")

\* Mutant of CloseOwner: a lock this process holds counts as acquired.
CloseOwnerReentrant(t) == /\ pc[t] = "closeOwner"
                          /\ reading' = reading \ {t}
                          /\ Goto(t, IF got[t] = PidOf[t] THEN "held" ELSE "readAgain")
                          /\ UNCHANGED <<path, fd, got, late, alive>>

\* A lock this very process holds is never waited for: TimeoutError at once.
CloseOwner(t) == /\ pc[t] = "closeOwner"
                 /\ reading' = reading \ {t}
                 /\ Goto(t, IF got[t] = PidOf[t] THEN "idle" ELSE "readAgain")
                 /\ UNCHANGED <<path, fd, got, late, alive>>

\* _lock_is_stale reads the file a second time.
ReadAgain(t) == ReadMetadata(t, "readAgain", "closeAgain")

CloseAgain(t) == /\ pc[t] = "closeAgain"
                 /\ reading' = reading \ {t}
                 /\ Goto(t, "probe")
                 /\ UNCHANGED <<path, fd, got, late, alive>>

\* os.kill(pid, 0) raises OSError: for a dead process, or for a live one the
\* caller may not signal or that is no console process group.
SeemsDead(p) == p \notin alive \/ ProbeMisses

\* Mutant of AgedFile: a file without a pid is stale at once.
UnnamedFile == path # NoFile

\* Without a readable pid only the age of the file at the path counts.
AgedFile == path # NoFile /\ path.old

Stale(t) == \/ got[t] # NoPid /\ SeemsDead(got[t])
            \/ got[t] = NoPid /\ AgedFile

NotStale(t) == \/ got[t] # NoPid /\ got[t] \in alive
               \/ got[t] = NoPid /\ ~AgedFile

Probe(t) == /\ pc[t] = "probe"
            /\ \/ Stale(t) /\ Goto(t, "break")
               \/ NotStale(t) /\ Goto(t, "deadline")
            /\ UNCHANGED <<path, fd, reading, got, late, alive>>

\* Mutant of Break: a stale lock is only waited for.
BreakNothing(t) == /\ pc[t] = "break"
                   /\ Goto(t, "deadline")
                   /\ UNCHANGED <<path, fd, reading, got, late, alive>>

\* unlink of a lock believed stale, whatever file is there by now; errors are
\* passed over and `continue` skips both the deadline and the sleep.
Break(t) == /\ pc[t] = "break"
            /\ \/ path' = IF Pinned THEN path ELSE NoFile
               \/ UnlinkDenied /\ path' = path
            /\ Goto(t, "try")
            /\ UNCHANGED <<fd, reading, got, late, alive>>

\* Mutant of Deadline: the deadline is never looked at.
DeadlineIgnored(t) == /\ pc[t] = "deadline"
                      /\ Goto(t, "try")
                      /\ UNCHANGED <<path, fd, reading, got, late, alive>>

\* The deadline is looked at only here: TimeoutError, or sleep and try again.
Deadline(t) == /\ pc[t] = "deadline"
               /\ Goto(t, IF t \in late THEN "idle" ELSE "try")
               /\ UNCHANGED <<path, fd, reading, got, late, alive>>

\* The `with` block ends; the handle is closed first.
CloseFd(t) == /\ pc[t] = "held"
              /\ fd' = fd \ {t}
              /\ Goto(t, "unlink")
              /\ UNCHANGED <<path, reading, got, late, alive>>

\* Mutant of UnlinkOwn: the handle is closed and the file forgotten.
UnlinkForgotten(t) == /\ pc[t] = "unlink"
                      /\ Goto(t, "idle")
                      /\ UNCHANGED <<path, fd, reading, got, late, alive>>

\* unlink(missing_ok=True): removes the file at the path without asking whose
\* it is; on Windows a reader's handle makes it raise and the file stays.
UnlinkOwn(t) == /\ pc[t] = "unlink"
                /\ path' = IF Pinned THEN path ELSE NoFile
                /\ Goto(t, "idle")
                /\ UNCHANGED <<fd, reading, got, late, alive>>

-----------------------------------------------------------------------------
\* time.monotonic() reaches the deadline of a waiting thread.
Tick(t) == /\ pc[t] \in Waiting
           /\ t \notin late
           /\ late' = late \cup {t}
           /\ UNCHANGED <<path, pc, fd, reading, got, alive>>

\* stale_after seconds pass since an empty lock file was created.
Age == /\ path # NoFile
       /\ path.pid = NoPid /\ ~path.old
       /\ Stalls \/ pc[path.by] # "write"
       /\ path' = [path EXCEPT !.old = TRUE]
       /\ UNCHANGED <<pc, fd, reading, got, late, alive>>

ThreadsOf(p) == {t \in Threads : PidOf[t] = p}

\* The process dies: its handles are closed by the system, its file stays.
Crash(p) == /\ Crashes
            /\ p \in alive
            /\ alive' = alive \ {p}
            /\ pc' = [t \in Threads |-> IF PidOf[t] = p THEN "dead" ELSE pc[t]]
            /\ fd' = fd \ ThreadsOf(p)
            /\ reading' = reading \ ThreadsOf(p)
            /\ UNCHANGED <<path, got, late>>

\* What a thread inside acquire or release does next.
Step(t) == \/ Create(t) \/ Exists(t) \/ WritePid(t) \/ WriteError(t)
           \/ ReadOwner(t) \/ CloseOwner(t) \/ ReadAgain(t) \/ CloseAgain(t)
           \/ Probe(t) \/ Break(t) \/ Deadline(t) \/ UnlinkOwn(t)

Next == \/ \E t \in Threads : Begin(t) \/ Step(t) \/ CloseFd(t) \/ Tick(t)
        \/ Age
        \/ \E p \in Pids : Crash(p)

Spec == Init /\ [][Next]_vars

(***************************************************************************)
(* A runnable thread runs and clocks advance.  The `with` block may last   *)
(* for ever (a product launch that hangs), so CloseFd is not fair here.    *)
(***************************************************************************)
FairSpec == /\ Spec
            /\ \A t \in Threads : WF_vars(Step(t)) /\ WF_vars(Tick(t))

-----------------------------------------------------------------------------
\* The variables stay in their ranges.
TypeOK == /\ path \in File \cup {NoFile}
          /\ pc \in [Threads -> Waiting \cup {"idle", "write", "held", "unlink", "dead"}]
          /\ fd \subseteq Threads
          /\ reading \subseteq Threads
          /\ got \in [Threads -> Pids \cup {NoPid}]
          /\ late \subseteq Threads
          /\ alive \subseteq Pids

holders == {t \in Threads : pc[t] = "held"}

\* Two callers are never inside the `with` block together: every update of
\* sessions.json and run.json and every product launch relies on it.
MutualExclusion == \A t, u \in holders : t = u

\* Where a file that is open can be unlinked, exclusion lasts until the first
\* process dies: then two callers may break one lock, the second a live one.
ExclusionUntilDeath == alive = Pids => MutualExclusion

\* The lock behaves as the abstract mutex: whoever enters finds it free.
Lock == INSTANCE Mutex
ImplementsMutex == Lock!Spec

\* The file goes when its owner leaves the block: as long as nobody has died,
\* what is at the path belongs to a caller that has not finished with it.  A
\* file left behind by a live process keeps everyone out until it exits.
ReleaseRemovesFile ==
  (alive = Pids /\ path # NoFile) => pc[path.by] \in {"write", "held", "unlink"}

\* A caller that waits returns: it enters the block or raises TimeoutError.
WaiterReturns ==
  \A t \in Threads : (pc[t] = "try") ~> (pc[t] \notin Waiting)

NamesDeadOwner == path # NoFile /\ path.pid \in Pids \ alive

\* A crash does not close the lock: a caller that finds the file of a dead owner
\* removes it (or dies itself), it never just sits there until the deadline.
DeadOwnerLockBroken ==
  \A t \in Threads :
    (NamesDeadOwner /\ pc[t] = "try") ~> (~NamesDeadOwner \/ pc[t] = "dead")
=============================================================================
