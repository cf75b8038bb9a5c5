---------------------------- MODULE AdapterLaunch ----------------------------
(***************************************************************************)
(* What happens between a call to open a session and a product that runs:  *)
(* the installation is detected (core/environment.py), the adapter is      *)
(* looked up and asked whether it is available, and launches the product   *)
(* in its own way (products/*/adapter.py).                                 *)
(*                                                                         *)
(* Fluent: up to retry_count attempts, all of them under a lock of the     *)
(* process and a lock file of the machine, for which a waiter has a        *)
(* deadline.  Mechanical: no lock; the processes named AnsysWBU.exe are    *)
(* listed before an attempt and after it failed, and the difference is     *)
(* ended.  Workbench: one attempt.                                         *)
(*                                                                         *)
(* Time is counted in minutes, and only where Fluent's lock needs it.      *)
(***************************************************************************)
EXTENDS ServerThreads, FiniteSets

CONSTANTS Mixes,         \* the cases looked at: what each thread opens, if anything
          Roots,         \* versions with an AWP_ROOT<version> that names a directory
          Installed,     \* the products whose executable is below each of those roots
          Importable,    \* the products whose Python module can be imported
          Asked,         \* the version each call asks for, or NoOne
          ConnectOnly,   \* threads that only connect to a running Mechanical
          RetryCount,    \* retry_count of each thread's call
          StartTimeout,  \* start_timeout of each thread's call, in minutes
          Windows,       \* tasklist and taskkill exist
          Pids,          \* process ids of AnsysWBU.exe; none is used twice
          Crashes        \* servers may die

Registered == {"fluent", "workbench", "mechanical"}

ASSUME LaunchAssumption ==
  /\ Mixes \subseteq [Threads -> Registered \cup {"other", "none"}]
  /\ Roots \subseteq Nat /\ Pids \subseteq Nat
  /\ Asked \in [Threads -> Nat \cup {NoOne}]
  /\ ConnectOnly \subseteq Threads
  /\ RetryCount \in [Threads -> Nat] /\ StartTimeout \in [Threads -> Nat]
  /\ Windows \in BOOLEAN /\ Crashes \in BOOLEAN
  /\ "user" \notin Threads \cup {NoOne}

VARIABLES adapter,   \* the adapter each thread names, "none" for a thread that opens nothing
          alive,     \* servers that run
          pc,        \* where each thread is
          attempt,   \* the number of the attempt in hand
          tlock,     \* the thread that holds _FLUENT_LAUNCH_LOCK of each server
          flock,     \* the thread that holds fluent.launch.lock
          waited,    \* how long a thread has waited for that file
          lasted,    \* how long a Fluent attempt has lasted
          running,   \* the processes named AnsysWBU.exe
          by,        \* who started each: a thread, "user", or NoOne so far
          before,    \* before_launch
          victims,   \* the processes still to be ended
          session,   \* the process behind a Mechanical session
          \* history, read by the properties only:
          elders,    \* what ran when the attempt in hand began
          blind      \* threads for which tasklist or taskkill failed

fluentVars == <<tlock, flock, waited, lasted>>
mechanicalVars == <<running, by, before, victims, session, elders, blind>>
launchVars == <<adapter, alive, pc, attempt, fluentVars, mechanicalVars>>

LaunchInit == /\ adapter \in Mixes
              /\ alive = Servers
              /\ pc = [t \in Threads |-> "idle"]
              /\ attempt = [t \in Threads |-> 1]
              /\ tlock = [v \in Servers |-> NoOne] /\ flock = NoOne
              /\ waited = [t \in Threads |-> 0]
              /\ lasted = [t \in Threads |-> 0]
              /\ running = {} /\ by = [p \in Pids |-> NoOne]
              /\ before = [t \in Threads |-> {}]
              /\ victims = [t \in Threads |-> {}]
              /\ session = [t \in Threads |-> NoOne]
              /\ elders = [t \in Threads |-> {}]
              /\ blind = {}

Goto(t, there) == pc' = [pc EXCEPT ![t] = there]

-----------------------------------------------------------------------------
(* The installation, and whether the adapter finds its product in it.      *)

\* The version asked for and no other, or else the newest.
Selected(t) == IF Asked[t] # NoOne THEN {Asked[t]} \cap Roots
               ELSE {v \in Roots : \A u \in Roots : u <= v}

Available(a, t) == a \in Importable /\ \E v \in Selected(t) : a \in Installed[v]

FirstStep(t) == CASE adapter[t] = "fluent" -> "threadLock"
                  [] adapter[t] = "workbench" -> "launchOnce"
                  [] OTHER -> IF t \in ConnectOnly THEN "connect" ELSE "snapshot"

\* Unknown adapters and those that are not available are refused.
Begin(t) == /\ pc[t] = "idle"
            /\ adapter[t] # "none"
            /\ Goto(t, IF adapter[t] \in Registered /\ Available(adapter[t], t)
                       THEN FirstStep(t) ELSE "failed")
            /\ UNCHANGED <<adapter, alive, attempt, fluentVars, mechanicalVars>>

LaunchOnce(t) == /\ pc[t] = "launchOnce"
                 /\ \E outcome \in {"open", "failed"} : Goto(t, outcome)
                 /\ UNCHANGED <<adapter, alive, attempt, fluentVars, mechanicalVars>>

-----------------------------------------------------------------------------
(* Fluent                                                                  *)

DefaultTimeout == 3  \* 180 seconds
Margin == 1          \* 60 seconds

\* Mutant of LockTimeout: the lock is waited for as long as a launch may take.
LockTimeoutBare(t) == StartTimeout[t]

LockTimeout(t) == Margin + IF StartTimeout[t] > DefaultTimeout THEN StartTimeout[t]
                           ELSE DefaultTimeout

TakeThreadLock(t) == LET v == ServerOf[t]
                     IN /\ pc[t] = "threadLock"
                        /\ tlock[v] = NoOne
                        /\ tlock' = [tlock EXCEPT ![v] = t]
                        /\ Goto(t, "fileLock")
                        /\ UNCHANGED <<adapter, alive, attempt, flock, waited, lasted, mechanicalVars>>

\* A dead owner's file counts for nothing (FileLock).
Locked == flock # NoOne /\ ServerOf[flock] \in alive

LetGo(t) == /\ flock' = NoOne
            /\ tlock' = [tlock EXCEPT ![ServerOf[t]] = NoOne]

\* With no attempts to make the loop is left at once, and both locks with it.
TakeFileLock(t) == /\ pc[t] = "fileLock"
                   /\ ~Locked
                   /\ IF RetryCount[t] = 0 THEN LetGo(t) /\ Goto(t, "failed")
                      ELSE flock' = t /\ Goto(t, "attempt") /\ UNCHANGED tlock
                   /\ waited' = [waited EXCEPT ![t] = 0]
                   /\ UNCHANGED <<adapter, alive, attempt, lasted, mechanicalVars>>

\* Mutant of GiveUp: the lock of the process is kept.
GiveUpHolding(t) == /\ pc[t] = "fileLock"
                    /\ Locked
                    /\ waited[t] >= LockTimeout(t)
                    /\ waited' = [waited EXCEPT ![t] = 0]
                    /\ Goto(t, "failed")
                    /\ UNCHANGED <<adapter, alive, attempt, tlock, flock, lasted, mechanicalVars>>

\* TimeoutError: the launch lock is left, and the call raises.
GiveUp(t) == /\ pc[t] = "fileLock"
             /\ Locked
             /\ waited[t] >= LockTimeout(t)
             /\ tlock' = [tlock EXCEPT ![ServerOf[t]] = NoOne]
             /\ waited' = [waited EXCEPT ![t] = 0]
             /\ Goto(t, "failed")
             /\ UNCHANGED <<adapter, alive, attempt, flock, lasted, mechanicalVars>>

Waiting(t) == pc[t] = "fileLock"

StartFluent(t) == /\ pc[t] = "attempt"
                  /\ Goto(t, "starting")
                  /\ UNCHANGED <<adapter, alive, attempt, fluentVars, mechanicalVars>>

FluentStarted(t) == /\ pc[t] = "starting"
                    /\ LetGo(t)
                    /\ lasted' = [lasted EXCEPT ![t] = 0]
                    /\ Goto(t, "open")
                    /\ UNCHANGED <<adapter, alive, attempt, waited, mechanicalVars>>

\* Mutant of FluentFails: the locks are left during the delay.
FluentFailsUnlocked(t) ==
  /\ pc[t] = "starting"
  /\ LetGo(t)
  /\ Goto(t, IF attempt[t] = RetryCount[t] THEN "failed" ELSE "delay")
  /\ lasted' = [lasted EXCEPT ![t] = 0]
  /\ UNCHANGED <<adapter, alive, attempt, waited, mechanicalVars>>

\* launch_fluent raises; the locks are kept for the next attempt.
FluentFails(t) ==
  /\ pc[t] = "starting"
  /\ IF attempt[t] = RetryCount[t] THEN LetGo(t) /\ Goto(t, "failed")
     ELSE Goto(t, "delay") /\ UNCHANGED <<tlock, flock>>
  /\ lasted' = [lasted EXCEPT ![t] = 0]
  /\ UNCHANGED <<adapter, alive, attempt, waited, mechanicalVars>>

\* retry_delay, two seconds, is over.
FluentAgain(t) == /\ pc[t] = "delay"
                  /\ attempt' = [attempt EXCEPT ![t] = @ + 1]
                  /\ Goto(t, "attempt")
                  /\ UNCHANGED <<adapter, alive, fluentVars, mechanicalVars>>

\* Everything but a launch and a wait for the file takes no time to speak of.
Urgent(t) == \/ pc[t] \in {"attempt", "delay"}
             \/ pc[t] = "starting" /\ lasted[t] >= StartTimeout[t]
             \/ Waiting(t) /\ (~Locked \/ waited[t] >= LockTimeout(t))

\* A minute passes.
Tick == LET counting == {t \in Threads : Waiting(t) \/ pc[t] = "starting"}
        IN /\ counting # {}
           /\ \A t \in Threads : ~Urgent(t)
           /\ waited' = [t \in Threads |-> IF Waiting(t) THEN waited[t] + 1 ELSE waited[t]]
           /\ lasted' = [t \in Threads |-> IF pc[t] = "starting" THEN lasted[t] + 1 ELSE lasted[t]]
           /\ UNCHANGED <<adapter, alive, pc, attempt, tlock, flock, mechanicalVars>>

-----------------------------------------------------------------------------
(* Mechanical                                                              *)

\* _list_windows_process_ids gives the empty set when tasklist fails, and
\* always where there is none.
Listings == {{}} \cup IF Windows THEN {running} ELSE {}

\* What an attempt knew is gone when it is over.
Forget(T) == /\ before' = [t \in Threads |-> IF t \in T THEN {} ELSE before[t]]
             /\ victims' = [t \in Threads |-> IF t \in T THEN {} ELSE victims[t]]
             /\ elders' = [t \in Threads |-> IF t \in T THEN {} ELSE elders[t]]

Blinded(t, seen) == IF seen = running THEN blind ELSE blind \cup {t}

Connect(t) == /\ pc[t] = "connect"
              /\ \/ Goto(t, "failed") /\ UNCHANGED session
                 \/ \E p \in running : /\ session' = [session EXCEPT ![t] = p]
                                       /\ Goto(t, "open")
              /\ UNCHANGED <<adapter, alive, attempt, fluentVars, running, by, before, victims,
                             elders, blind>>

Snapshot(t) ==
  /\ pc[t] = "snapshot"
  /\ elders' = [elders EXCEPT ![t] = running]
  /\ IF attempt[t] > RetryCount[t] THEN Goto(t, "failed") /\ UNCHANGED <<before, blind>>
     ELSE \E seen \in Listings : /\ before' = [before EXCEPT ![t] = seen]
                                 /\ blind' = Blinded(t, seen)
                                 /\ Goto(t, "launch")
  /\ UNCHANGED <<adapter, alive, attempt, fluentVars, running, by, victims, session>>

\* launch_mechanical starts a process, or fails before it does.
Spawn(t, p) == /\ pc[t] = "launch"
               /\ by[p] = NoOne
               /\ by' = [by EXCEPT ![p] = t]
               /\ running' = running \cup {p}
               /\ Goto(t, "connecting")
               /\ UNCHANGED <<adapter, alive, attempt, fluentVars, before, victims, session,
                              elders, blind>>

Own(t) == {p \in running : by[p] = t}

MechanicalStarted(t) ==
  /\ pc[t] = "connecting"
  /\ \E p \in Own(t) : session' = [session EXCEPT ![t] = p]
  /\ Goto(t, "open")
  /\ Forget({t})
  /\ UNCHANGED <<adapter, alive, attempt, fluentVars, running, by, blind>>

\* launch_mechanical raises; what it has started may go on running.
MechanicalFails(t) == /\ pc[t] \in {"launch", "connecting"}
                      /\ Goto(t, "sweep")
                      /\ UNCHANGED <<adapter, alive, attempt, fluentVars, mechanicalVars>>

\* Mutant of Sweep: only what the last of several attempts left is ended.
SweepLast(t) ==
  /\ pc[t] = "sweep"
  /\ \E seen \in Listings :
       /\ victims' = [victims EXCEPT ![t] = IF attempt[t] = RetryCount[t]
                                            THEN seen \ before[t] ELSE {}]
       /\ blind' = Blinded(t, seen)
  /\ Goto(t, "kill")
  /\ UNCHANGED <<adapter, alive, attempt, fluentVars, running, by, before, session, elders>>

\* Mutant of Sweep: everything of that name is ended.
SweepAll(t) ==
  /\ pc[t] = "sweep"
  /\ \E seen \in Listings : /\ victims' = [victims EXCEPT ![t] = seen]
                            /\ blind' = Blinded(t, seen)
  /\ Goto(t, "kill")
  /\ UNCHANGED <<adapter, alive, attempt, fluentVars, running, by, before, session, elders>>

\* Whatever is running now and was not before.
Sweep(t) ==
  /\ pc[t] = "sweep"
  /\ \E seen \in Listings : /\ victims' = [victims EXCEPT ![t] = seen \ before[t]]
                            /\ blind' = Blinded(t, seen)
  /\ Goto(t, "kill")
  /\ UNCHANGED <<adapter, alive, attempt, fluentVars, running, by, before, session, elders>>

\* taskkill ends the process with the smallest id, or fails.
Kill(t) ==
  /\ pc[t] = "kill"
  /\ \E p \in victims[t] :
       /\ \A q \in victims[t] : p <= q
       /\ victims' = [victims EXCEPT ![t] = @ \ {p}]
       /\ \E killed \in {{}, {p}} :
            /\ running' = running \ killed
            /\ blind' = IF p \in running' THEN blind \cup {t} ELSE blind
  /\ UNCHANGED <<adapter, alive, pc, attempt, fluentVars, by, before, session, elders>>

\* All are dealt with: raise, or try again after retry_delay.
MechanicalAgain(t) ==
  /\ pc[t] = "kill"
  /\ victims[t] = {}
  /\ IF attempt[t] = RetryCount[t] THEN Goto(t, "failed") /\ UNCHANGED attempt
     ELSE attempt' = [attempt EXCEPT ![t] = @ + 1] /\ Goto(t, "snapshot")
  /\ Forget({t})
  /\ UNCHANGED <<adapter, alive, fluentVars, running, by, session, blind>>

\* A session's close asks its process to exit, which a process that was only connected
\* to may refuse.
CloseSession(t) == /\ pc[t] = "open"
                   /\ \E gone \in SUBSET ({session[t]} \cap Pids) :
                        /\ \A p \in {session[t]} \cap Pids : by[p] = t => p \in gone
                        /\ running' = running \ gone
                   /\ session' = [session EXCEPT ![t] = NoOne]
                   /\ Goto(t, "closed")
                   /\ UNCHANGED <<adapter, alive, attempt, fluentVars, by, before, victims,
                                  elders, blind>>

-----------------------------------------------------------------------------
(* What nobody here decides.                                               *)

\* Somebody starts Mechanical by hand, which only matters where it is opened here too.
UserStarts(p) == /\ \E t \in Threads : adapter[t] = "mechanical"
                 /\ by[p] = NoOne
                 /\ by' = [by EXCEPT ![p] = "user"]
                 /\ running' = running \cup {p}
                 /\ UNCHANGED <<adapter, alive, pc, attempt, fluentVars, before, victims, session,
                                elders, blind>>

\* A process ends by itself.
ProcessEnds(p) == /\ p \in running
                  /\ running' = running \ {p}
                  /\ UNCHANGED <<adapter, alive, pc, attempt, fluentVars, by, before, victims,
                                 session, elders, blind>>

\* A server dies: its locks count for nothing, its processes run on.
Crash(v) == /\ Crashes
            /\ v \in alive
            /\ alive' = alive \ {v}
            /\ pc' = [t \in Threads |-> IF ServerOf[t] = v THEN "dead" ELSE pc[t]]
            /\ Forget({t \in Threads : ServerOf[t] = v})
            /\ waited' = [t \in Threads |-> IF ServerOf[t] = v THEN 0 ELSE waited[t]]
            /\ lasted' = [t \in Threads |-> IF ServerOf[t] = v THEN 0 ELSE lasted[t]]
            /\ UNCHANGED <<adapter, attempt, tlock, flock, running, by, session, blind>>

-----------------------------------------------------------------------------
Launching(t) ==
  \/ LaunchOnce(t)
  \/ TakeThreadLock(t) \/ TakeFileLock(t) \/ GiveUp(t)
  \/ StartFluent(t) \/ FluentStarted(t) \/ FluentFails(t) \/ FluentAgain(t)
  \/ Connect(t) \/ Snapshot(t) \/ (\E p \in Pids : Spawn(t, p)) \/ MechanicalStarted(t)
  \/ MechanicalFails(t) \/ Sweep(t) \/ Kill(t) \/ MechanicalAgain(t)

Around == Tick \/ (\E p \in Pids : UserStarts(p) \/ ProcessEnds(p))

LaunchNext == \/ \E t \in Threads : Begin(t) \/ Launching(t) \/ CloseSession(t)
              \/ Around
              \/ \E v \in Servers : Crash(v)

LaunchSpec == LaunchInit /\ [][LaunchNext]_launchVars

-----------------------------------------------------------------------------
\* Fluent is launched by one server at a time on the machine, and by one thread at
\* a time within a server, over all the attempts a call makes.
FluentAlone ==
  \A t, u \in Threads : {pc[t], pc[u]} \subseteq {"attempt", "starting", "delay"} => t = u

\* The file lock outlasts a launch: nobody gives up on the one that was under way
\* when they began to wait, as long as its start_timeout is not above the default
\* and not above their own.
OutlastsOneAttempt ==
  \A t, u \in Threads :
    /\ Waiting(t) /\ waited[t] >= LockTimeout(t)
    /\ pc[u] = "starting" /\ lasted[u] >= waited[t]
    => StartTimeout[u] > DefaultTimeout /\ StartTimeout[u] > StartTimeout[t]

\* What was running before an attempt is not ended by the clean-up after it, be
\* it another session's process or one started by hand.
SparesElders ==
  [][\A t \in Threads : pc[t] = "kill" /\ victims'[t] # victims[t] /\ t \notin blind =>
       (running \ running') \cap elders[t] = {}]_launchVars

\* "Partially started launches can consume a demo seat": a call holds at most one
\* process, over all its attempts, and a failed one leaves none behind, as long
\* as tasklist and taskkill work.
NoStrays ==
  \A t \in Threads \ blind : pc[t] # "dead" =>
    /\ Cardinality(Own(t)) <= 1
    /\ pc[t] \in {"snapshot", "launch", "failed"} => Own(t) = {}

\* What a clean-up ends is what its own launch had started.
EndsOnlyItsOwn ==
  [][\A t \in Threads : pc[t] = "kill" /\ victims'[t] # victims[t] /\ t \notin blind =>
       \A p \in running \ running' : by[p] = t]_launchVars
=============================================================================
