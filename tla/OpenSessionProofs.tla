-------------------------- MODULE OpenSessionProofs --------------------------
(***************************************************************************)
(* Proofs about OpenSession: one store in a process, one launch of Fluent  *)
(* on the machine, what its lock outlasts, and what the clean-up after a   *)
(* failed launch of Mechanical ends, for any servers, threads, versions,   *)
(* timeouts and numbers of attempts.                                       *)
(***************************************************************************)
EXTENDS OpenSession, FiniteSetTheorems, TLAPS

-----------------------------------------------------------------------------
(* The store                                                               *)

Inside(t) == at[t] \in {"check", "register"}

\* _STORE_LOCK is held by whoever is inside it; a store in use has been built, a
\* thread was given that store, and atexit knows it, or its builder is about to
\* tell it.
ServerType ==
  /\ store \in [Servers -> Nat] /\ built \in [Servers -> Nat]
  /\ handlers \in [Servers -> SUBSET Nat]
  /\ holder \in [Servers -> Threads \cup {NoOne}]
  /\ at \in [Threads -> {"idle", "ready", "lock", "raised", "check", "register"}]
  /\ got \in [Threads -> Nat]

ServerInv ==
  /\ ServerType
  /\ \A t \in Threads : Inside(t) => holder[ServerOf[t]] = t
  /\ \A t \in Threads : at[t] = "register" =>
       store[ServerOf[t]] # 0 /\ handlers[ServerOf[t]] = {}
  /\ \A t \in Threads : got[t] # 0 => got[t] = store[ServerOf[t]]
  /\ \A v \in Servers : store[v] = 0 => handlers[v] = {}
  /\ \A v \in Servers : store[v] # 0 =>
       \/ handlers[v] = {store[v]}
       \/ handlers[v] = {} /\ \E t \in Threads : ServerOf[t] = v /\ at[t] = "register"

\* No store, no lock and no thread in get_store at the start.
LEMMA ServerStart == ServerInit => ServerInv
  BY ThreadsAssumption, ToolsAssumption DEF ServerInit, ServerInv, ServerType, Inside

\* A step of get_store keeps what is known of the store.
LEMMA ServerStep ==
  ASSUME ServerInv, NEW t \in Threads, GetStore(t)
  PROVE  ServerInv'
<1> DEFINE v == ServerOf[t]
<1>1. v \in Servers /\ (\A u \in Threads : ServerOf[u] \in Servers) /\ NoOne \notin Threads
  BY ThreadsAssumption
<1>2. ServerType'
  BY <1>1 DEF GetStore, Ask, TakeLock, Found, Build, BuildFails, Register, Move, Give, Unlock,
     ServerInv, ServerType
<1>3. /\ \A u \in Threads \ {t} : at'[u] = at[u] /\ got'[u] = got[u]
      /\ \A w \in Servers \ {v} :
           store'[w] = store[w] /\ handlers'[w] = handlers[w] /\ holder'[w] = holder[w]
  BY <1>1 DEF GetStore, Ask, TakeLock, Found, Build, BuildFails, Register, Move, Give, Unlock,
     ServerInv, ServerType
<1>4. CASE Ask(t) \/ TakeLock(t)
  <2>1. UNCHANGED <<store, handlers>> /\ at[t] \in {"idle", "lock"}
    BY <1>4 DEF Ask, TakeLock
  <2>2. \/ at'[t] \in {"lock", "ready"} /\ UNCHANGED holder
        \/ at'[t] = "check" /\ holder'[v] = t /\ holder[v] = NoOne
    BY <1>1, <1>4 DEF Ask, TakeLock, Give, Move, ServerInv, ServerType
  <2>3. got'[t] # 0 => got'[t] = store[v]
    BY <1>4 DEF Ask, TakeLock, Give, ServerInv, ServerType
  <2>. QED
    BY <1>1, <1>2, <1>3, <2>1, <2>2, <2>3 DEF ServerInv, Inside
<1>5. CASE Found(t) \/ BuildFails(t)
  <2>1. UNCHANGED <<store, handlers>> /\ at[t] = "check" /\ at'[t] \in {"ready", "raised"}
    BY <1>5 DEF Found, BuildFails, Give, Move, ServerInv, ServerType
  <2>2. got'[t] # 0 => got'[t] = store[v]
    BY <1>5 DEF Found, BuildFails, Give, ServerInv, ServerType
  <2>3. \A u \in Threads \ {t} : ServerOf[u] = v => ~Inside(u)
    BY <1>1, <2>1 DEF ServerInv, Inside
  <2>. QED
    BY <1>1, <1>2, <1>3, <2>1, <2>2, <2>3 DEF ServerInv, Inside
<1>6. CASE Build(t)
  <2>1. /\ store'[v] = built[v] + 1 /\ built[v] \in Nat /\ store[v] = 0
        /\ UNCHANGED <<handlers, holder, got>> /\ at[t] = "check" /\ at'[t] = "register"
    BY <1>1, <1>6 DEF Build, Missing, Move, ServerInv, ServerType
  <2>2. store'[v] # 0 /\ handlers[v] = {} /\ holder[v] = t
    BY <1>1, <2>1 DEF ServerInv, Inside
  <2>3. \A u \in Threads : ServerOf[u] = v => got[u] = 0
    BY <2>1 DEF ServerInv
  <2>4. \A u \in Threads \ {t} : ServerOf[u] = v => ~Inside(u)
    BY <1>1, <2>2 DEF ServerInv
  <2>. QED
    BY <1>1, <1>2, <1>3, <2>1, <2>2, <2>3, <2>4 DEF ServerInv, Inside
<1>7. CASE Register(t)
  <2>1. /\ UNCHANGED store /\ at[t] = "register" /\ at'[t] = "ready"
        /\ handlers'[v] = handlers[v] \cup {store[v]} /\ got'[t] = store[v]
    BY <1>1, <1>7 DEF Register, Give, Move, ServerInv, ServerType
  <2>2. store[v] # 0 /\ handlers[v] = {} /\ holder[v] = t
    BY <2>1 DEF ServerInv, Inside
  <2>3. handlers'[v] = {store[v]}
    BY <2>1, <2>2
  <2>4. \A u \in Threads \ {t} : ServerOf[u] = v => ~Inside(u)
    BY <1>1, <2>2 DEF ServerInv
  <2>. QED
    BY <1>1, <1>2, <1>3, <2>1, <2>2, <2>3, <2>4 DEF ServerInv, Inside
<1>. QED
  BY <1>4, <1>5, <1>6, <1>7 DEF GetStore

-----------------------------------------------------------------------------
(* The locks of Fluent                                                     *)

Attempting(t) == pc[t] \in {"attempt", "starting", "delay"}

States == {"idle", "launchOnce", "threadLock", "fileLock", "attempt", "starting", "delay",
           "connect", "snapshot", "launch", "connecting", "sweep", "kill",
           "open", "closed", "failed", "dead"}

LockType ==
  /\ pc \in [Threads -> States]
  /\ alive \subseteq Servers
  /\ attempt \in [Threads -> Nat]
  /\ tlock \in [Servers -> Threads \cup {NoOne}] /\ flock \in Threads \cup {NoOne}
  /\ waited \in [Threads -> Nat] /\ lasted \in [Threads -> Nat]

\* Who waits for the file holds the lock of its process, who launches holds both,
\* nobody of a dead process does anything, and no attempt lasts beyond its timeout.
LockInv ==
  /\ LockType
  /\ \A t \in Threads : pc[t] = "fileLock" => tlock[ServerOf[t]] = t
  /\ \A t \in Threads : Attempting(t) => tlock[ServerOf[t]] = t /\ flock = t
  /\ \A t \in Threads : pc[t] # "dead" => ServerOf[t] \in alive
  /\ \A t \in Threads : lasted[t] <= StartTimeout[t]

LEMMA LockStart == LaunchInit => LockInv
  BY ThreadsAssumption, LaunchAssumption
  DEF LaunchInit, LockInv, LockType, Attempting, States

\* Where a call goes when it begins.
LEMMA BeginGoes ==
  ASSUME LockType, NEW t \in Threads, Begin(t)
  PROVE  /\ pc' \in [Threads -> States]
         /\ pc[t] = "idle"
         /\ pc'[t] \in {"threadLock", "launchOnce", "connect", "snapshot", "failed"}
         /\ \A u \in Threads \ {t} : pc'[u] = pc[u]
<1>1. FirstStep(t) \in {"threadLock", "launchOnce", "connect", "snapshot"}
  BY DEF FirstStep
<1>. QED
  BY <1>1 DEF Begin, Goto, LockType, States

\* Steps that leave the locks and the clocks alone, and in which nobody comes to wait
\* for the file or to launch Fluent who did not before.
LEMMA LockFrame ==
  ASSUME LockInv, pc' \in [Threads -> States], attempt' \in [Threads -> Nat],
         UNCHANGED <<alive, tlock, flock, waited, lasted>>,
         \A t \in Threads :
           /\ pc'[t] \in {"fileLock", "attempt", "starting", "delay"} =>
                pc[t] = pc'[t] \/ (Attempting(t) /\ pc'[t] # "fileLock")
           /\ pc[t] = "dead" => pc'[t] = "dead"
  PROVE  LockInv'
  BY DEF LockInv, LockType, Attempting

\* The steps of a launch that are not about Fluent's locks.
Elsewhere(t) ==
  \/ LaunchOnce(t) \/ StartFluent(t) \/ FluentAgain(t)
  \/ Connect(t) \/ Snapshot(t) \/ (\E p \in Pids : Spawn(t, p)) \/ MechanicalStarted(t)
  \/ MechanicalFails(t) \/ Sweep(t) \/ Kill(t) \/ MechanicalAgain(t) \/ CloseSession(t)

LEMMA ElsewhereKeeps ==
  ASSUME LockInv, NEW t \in Threads, Elsewhere(t)
  PROVE  LockInv'
<1>1. /\ UNCHANGED <<alive, tlock, flock, waited, lasted>>
      /\ pc' \in [Threads -> States] /\ attempt' \in [Threads -> Nat]
      /\ \A u \in Threads \ {t} : pc'[u] = pc[u]
      /\ pc[t] # "dead"
      /\ pc'[t] \in {"fileLock", "attempt", "starting", "delay"} =>
           pc[t] = pc'[t] \/ (Attempting(t) /\ pc'[t] # "fileLock")
  <2>1. CASE LaunchOnce(t) \/ StartFluent(t) \/ FluentAgain(t)
    BY <2>1 DEF LaunchOnce, StartFluent, FluentAgain, Goto, fluentVars, LockInv, LockType,
       States, Attempting
  <2>2. CASE Connect(t) \/ Snapshot(t) \/ (\E p \in Pids : Spawn(t, p)) \/ MechanicalStarted(t)
    BY <2>2 DEF Connect, Snapshot, Spawn, MechanicalStarted, Goto, fluentVars, LockInv, LockType,
       States, Attempting
  <2>3. CASE MechanicalFails(t) \/ Sweep(t) \/ Kill(t) \/ MechanicalAgain(t) \/ CloseSession(t)
    BY <2>3 DEF MechanicalFails, Sweep, Kill, MechanicalAgain, CloseSession, Goto, fluentVars,
       LockInv, LockType, States, Attempting
  <2>. QED
    BY <2>1, <2>2, <2>3 DEF Elsewhere
<1>. QED
  BY <1>1, LockFrame

\* A step of a thread with its own locks: what it holds concerns no other thread.
LEMMA LockOfAnother ==
  ASSUME LockInv, NEW t \in Threads, NEW u \in Threads \ {t}, tlock[ServerOf[t]] = t,
         ServerOf[u] = ServerOf[t]
  PROVE  pc[u] # "fileLock" /\ ~Attempting(u)
  BY DEF LockInv

\* The steps of Fluent's locks.
LEMMA LocksKeep ==
  ASSUME LockInv, NEW t \in Threads,
         TakeThreadLock(t) \/ TakeFileLock(t) \/ GiveUp(t) \/ FluentStarted(t) \/ FluentFails(t)
  PROVE  LockInv'
<1> DEFINE v == ServerOf[t]
<1>1. v \in Servers /\ (\A u \in Threads : ServerOf[u] \in Servers) /\ NoOne \notin Threads
  BY ThreadsAssumption
<1>2. LockType'
  BY <1>1 DEF TakeThreadLock, TakeFileLock, GiveUp, FluentStarted, FluentFails, LetGo, Goto,
     LockInv, LockType, States
<1>3. /\ UNCHANGED alive
      /\ \A u \in Threads \ {t} : pc'[u] = pc[u] /\ lasted'[u] = lasted[u]
      /\ \A w \in Servers \ {v} : tlock'[w] = tlock[w]
      /\ pc[t] # "dead" /\ pc'[t] # "dead"
      /\ lasted'[t] = lasted[t] \/ lasted'[t] = 0
  BY <1>1 DEF TakeThreadLock, TakeFileLock, GiveUp, FluentStarted, FluentFails, LetGo, Goto,
     LockInv, LockType, States
<1>4. \A u \in Threads : lasted'[u] <= StartTimeout[u]
  BY <1>3, LaunchAssumption DEF LockInv, LockType
<1>5. \A u \in Threads : pc'[u] # "dead" => ServerOf[u] \in alive'
  BY <1>3 DEF LockInv
<1>6. /\ \A u \in Threads : pc'[u] = "fileLock" => tlock'[ServerOf[u]] = u
      /\ \A u \in Threads : Attempting(u)' => tlock'[ServerOf[u]] = u /\ flock' = u
  <2>1. CASE TakeThreadLock(t)
    <3>1. tlock[v] = NoOne /\ tlock'[v] = t /\ UNCHANGED flock /\ pc'[t] = "fileLock"
      BY <1>1, <2>1 DEF TakeThreadLock, Goto, LockInv, LockType
    <3>. QED
      BY <1>1, <1>3, <3>1 DEF LockInv, Attempting
  <2>2. CASE TakeFileLock(t)
    <3>1. pc[t] = "fileLock" /\ tlock[v] = t /\ ~Locked
      BY <2>2 DEF TakeFileLock, LockInv
    <3>2. \A u \in Threads : ~Attempting(u)
      BY <3>1, <1>1 DEF Locked, LockInv, Attempting
    <3>3. \A u \in Threads \ {t} : ServerOf[u] = v => pc[u] # "fileLock"
      BY <3>1 DEF LockInv
    <3>4. \/ pc'[t] = "failed"
          \/ pc'[t] = "attempt" /\ flock' = t /\ tlock' = tlock
      BY <2>2 DEF TakeFileLock, Goto, LockInv, LockType
    <3>. QED
      BY <1>1, <1>3, <3>1, <3>2, <3>3, <3>4 DEF LockInv, Attempting
  <2>3. CASE GiveUp(t)
    <3>1. /\ pc[t] = "fileLock" /\ tlock[v] = t /\ UNCHANGED flock /\ pc'[t] = "failed"
      BY <2>3 DEF GiveUp, Goto, LockInv, LockType
    <3>. QED
      BY <1>1, <1>3, <3>1, LockOfAnother DEF LockInv, Attempting
  <2>4. CASE FluentStarted(t) \/ FluentFails(t)
    <3>1. pc[t] = "starting" /\ tlock[v] = t /\ flock = t
      BY <2>4 DEF FluentStarted, FluentFails, LockInv, Attempting
    <3>2. \A u \in Threads \ {t} : ~Attempting(u)
      BY <3>1 DEF LockInv
    <3>3. \A u \in Threads \ {t} : ServerOf[u] = v => pc[u] # "fileLock"
      BY <3>1 DEF LockInv
    <3>4. \/ pc'[t] \in {"open", "failed"}
          \/ pc'[t] = "delay" /\ UNCHANGED <<tlock, flock>>
      BY <2>4 DEF FluentStarted, FluentFails, Goto, LockInv, LockType
    <3>. QED
      BY <1>1, <1>3, <3>1, <3>2, <3>3, <3>4 DEF LockInv, Attempting
  <2>. QED
    BY <2>1, <2>2, <2>3, <2>4
<1>. QED
  BY <1>2, <1>4, <1>5, <1>6 DEF LockInv

\* A minute passes, which no attempt at its end would let happen.
LEMMA TickKeeps == LockInv /\ Tick => LockInv'
<1> SUFFICES ASSUME LockInv, Tick PROVE LockInv'
  OBVIOUS
<1>1. UNCHANGED <<pc, alive, attempt, tlock, flock>>
  BY DEF Tick
<1>2. /\ \A t \in Threads : lasted'[t] = IF pc[t] = "starting" THEN lasted[t] + 1 ELSE lasted[t]
      /\ waited' \in [Threads -> Nat] /\ lasted' \in [Threads -> Nat]
  BY DEF Tick, LockInv, LockType
<1>3. \A t \in Threads : pc[t] = "starting" => ~(lasted[t] >= StartTimeout[t])
  BY DEF Tick, Urgent
<1>4. \A t \in Threads : lasted'[t] <= StartTimeout[t]
  BY <1>2, <1>3, LaunchAssumption DEF LockInv, LockType
<1>. QED
  BY <1>1, <1>2, <1>4 DEF LockInv, LockType, Attempting

\* A server dies, and its threads with it.
LEMMA CrashKeeps ==
  ASSUME LockInv, NEW v \in Servers, Crash(v)
  PROVE  LockInv'
<1>1. /\ alive' = alive \ {v} /\ UNCHANGED <<attempt, tlock, flock>>
      /\ \A t \in Threads : pc'[t] = IF ServerOf[t] = v THEN "dead" ELSE pc[t]
      /\ \A t \in Threads : lasted'[t] = IF ServerOf[t] = v THEN 0 ELSE lasted[t]
  BY DEF Crash
<1>2. /\ pc' \in [Threads -> States]
      /\ waited' \in [Threads -> Nat] /\ lasted' \in [Threads -> Nat]
  BY DEF Crash, LockInv, LockType, States
<1>. QED
  BY <1>1, <1>2, LaunchAssumption DEF LockInv, LockType, Attempting

\* Every step keeps the locks in order.
LEMMA LockStep == LockInv /\ [LaunchNext]_launchVars => LockInv'
<1> SUFFICES ASSUME LockInv, [LaunchNext]_launchVars PROVE LockInv'
  OBVIOUS
<1>1. ASSUME NEW t \in Threads, Begin(t) PROVE LockInv'
  <2>1. LockType
    BY DEF LockInv
  <2>2. UNCHANGED <<alive, attempt, tlock, flock, waited, lasted>>
    BY <1>1 DEF Begin, fluentVars
  <2>. QED
    BY <1>1, <2>1, <2>2, BeginGoes, LockFrame DEF LockType
<1>2. ASSUME NEW t \in Threads, Launching(t) \/ CloseSession(t) PROVE LockInv'
  <2>1. Elsewhere(t) \/ TakeThreadLock(t) \/ TakeFileLock(t) \/ GiveUp(t) \/ FluentStarted(t)
        \/ FluentFails(t)
    BY <1>2 DEF Launching, Elsewhere
  <2>. QED
    BY <2>1, ElsewhereKeeps, LocksKeep
<1>3. CASE \E p \in Pids : UserStarts(p) \/ ProcessEnds(p)
  BY <1>3 DEF UserStarts, ProcessEnds, fluentVars, LockInv, LockType, Attempting
<1>4. CASE UNCHANGED launchVars
  BY <1>4 DEF launchVars, fluentVars, LockInv, LockType, Attempting
<1>. QED
  BY <1>1, <1>2, <1>3, <1>4, TickKeeps, CrashKeeps DEF LaunchNext, Around

-----------------------------------------------------------------------------
(* The processes of Mechanical                                             *)

Trying(t) == pc[t] \in {"launch", "connecting", "sweep"}

\* Every process that runs, or was listed once, was started by somebody.
StartedInv ==
  /\ running \subseteq Pids
  /\ by \in [Pids -> Threads \cup {"user", NoOne}]
  /\ before \in [Threads -> SUBSET Pids] /\ victims \in [Threads -> SUBSET Pids]
  /\ elders \in [Threads -> SUBSET Pids]
  /\ blind \subseteq Threads
  /\ \A p \in running : by[p] # NoOne
  /\ \A t \in Threads : \A p \in before[t] : by[p] # NoOne

\* A call that saw what there was to see: what it may end is neither older than its
\* attempt nor forgotten; it has no process before it starts one, and at most one
\* afterwards, which its clean-up finds.
CleanInv(t) ==
  /\ pc[t] # "kill" => victims[t] = {}
  /\ t \notin blind =>
       /\ Trying(t) => elders[t] \subseteq before[t] /\ Own(t) \cap before[t] = {}
       /\ victims[t] \cap elders[t] = {}
       /\ pc[t] \notin {"connecting", "sweep", "kill", "open", "closed", "dead"} => Own(t) = {}
       /\ pc[t] # "dead" => \A p, q \in Own(t) : p = q
       /\ pc[t] = "kill" => Own(t) \subseteq victims[t]

MechanicalInv == StartedInv /\ \A t \in Threads : CleanInv(t)

LEMMA MechanicalStart == LaunchInit => MechanicalInv
  BY ThreadsAssumption DEF LaunchInit, MechanicalInv, StartedInv, CleanInv, Own, Trying

\* A thread that takes no step, and starts no process, while others do.
LEMMA Bystander ==
  ASSUME NEW u \in Threads, CleanInv(u),
         pc'[u] = pc[u], before'[u] = before[u], victims'[u] = victims[u], elders'[u] = elders[u],
         u \in blind => u \in blind', Own(u)' \subseteq Own(u)
  PROVE  CleanInv(u)'
<1> DEFINE mine == Own(u)
<1>1. mine' \subseteq mine
  OBVIOUS
<1> HIDE DEF mine
<1>. QED
  BY <1>1 DEF CleanInv, Trying, mine

\* A step that changes nothing here but where a thread is, which has no process yet and
\* starts none.
LEMMA Apart ==
  ASSUME LockType, MechanicalInv, NEW t \in Threads,
         UNCHANGED <<running, by, before, victims, elders, blind>>,
         \A u \in Threads \ {t} : pc'[u] = pc[u],
         pc[t] \notin {"launch", "connecting", "sweep", "kill", "open", "closed", "dead"},
         pc'[t] \notin {"launch", "connecting", "sweep", "kill"}
  PROVE  MechanicalInv'
<1>1. StartedInv'
  BY DEF MechanicalInv, StartedInv
<1>2. \A u \in Threads : Own(u)' = Own(u)
  BY DEF Own
<1>3. \A u \in Threads \ {t} : CleanInv(u)'
  BY <1>2, Bystander DEF MechanicalInv
<1>4. CleanInv(t)'
  BY <1>2 DEF MechanicalInv, CleanInv, Trying
<1>. QED
  BY <1>1, <1>3, <1>4 DEF MechanicalInv

\* A thread that begins, launches something else or only connects.
LEMMA OtherKeeps ==
  ASSUME LockInv, MechanicalInv, NEW t \in Threads,
         \/ Begin(t) \/ LaunchOnce(t) \/ TakeThreadLock(t) \/ TakeFileLock(t) \/ GiveUp(t)
         \/ StartFluent(t) \/ FluentStarted(t) \/ FluentFails(t) \/ FluentAgain(t) \/ Connect(t)
  PROVE  MechanicalInv'
<1>1. LockType
  BY DEF LockInv
<1>2. CASE Begin(t)
  <2>1. UNCHANGED <<running, by, before, victims, elders, blind>>
    BY <1>2 DEF Begin, mechanicalVars
  <2>. QED
    BY <1>1, <1>2, <2>1, BeginGoes, Apart
<1>3. CASE \/ LaunchOnce(t) \/ TakeThreadLock(t) \/ TakeFileLock(t) \/ GiveUp(t)
           \/ StartFluent(t) \/ FluentStarted(t) \/ FluentFails(t) \/ FluentAgain(t) \/ Connect(t)
  <2>1. UNCHANGED <<running, by, before, victims, elders, blind>>
    BY <1>3 DEF LaunchOnce, TakeThreadLock, TakeFileLock, GiveUp, StartFluent, FluentStarted,
       FluentFails, FluentAgain, Connect, mechanicalVars
  <2>2. /\ \A u \in Threads \ {t} : pc'[u] = pc[u]
        /\ pc[t] \in {"launchOnce", "threadLock", "fileLock", "attempt", "starting", "delay",
                      "connect"}
        /\ pc'[t] \in {"fileLock", "attempt", "starting", "delay", "open", "failed"}
    BY <1>1, <1>3 DEF LaunchOnce, TakeThreadLock, TakeFileLock, GiveUp, StartFluent,
         FluentStarted,
       FluentFails, FluentAgain, Connect, Goto, LockType, States
  <2>. QED
    BY <1>1, <2>1, <2>2, Apart
<1>. QED
  BY <1>2, <1>3

\* The list is taken, or there are no attempts left.
LEMMA SnapshotKeeps ==
  ASSUME LockType, MechanicalInv, NEW t \in Threads, Snapshot(t)
  PROVE  MechanicalInv'
<1>1. /\ pc[t] = "snapshot" /\ elders' = [elders EXCEPT ![t] = running]
      /\ UNCHANGED <<running, by, victims>> /\ victims[t] = {}
      /\ \A u \in Threads \ {t} : pc'[u] = pc[u]
  BY DEF Snapshot, Goto, LockType, MechanicalInv, CleanInv
<1>2. /\ before' \in [Threads -> SUBSET Pids] /\ blind' \subseteq Threads
      /\ \A u \in Threads \ {t} : before'[u] = before[u]
      /\ blind \subseteq blind' /\ blind' \subseteq blind \cup {t}
      /\ \/ pc'[t] = "failed" /\ before'[t] = before[t]
         \/ /\ pc'[t] = "launch" /\ before'[t] \subseteq running
            /\ t \notin blind' => before'[t] = running
  BY DEF Snapshot, Goto, Listings, Blinded, LockType, MechanicalInv, StartedInv
<1>3. StartedInv'
  <2>1. \A p \in before'[t] : by[p] # NoOne
    BY <1>2 DEF MechanicalInv, StartedInv
  <2>. QED
    BY <1>1, <1>2, <2>1 DEF MechanicalInv, StartedInv
<1>4. \A u \in Threads : Own(u)' = Own(u)
  BY <1>1 DEF Own
<1>5. \A u \in Threads \ {t} : CleanInv(u)'
  BY <1>1, <1>2, <1>4, Bystander DEF MechanicalInv, StartedInv
<1>6. CleanInv(t)'
  <2>1. elders'[t] = running
    BY <1>1 DEF MechanicalInv, StartedInv
  <2>2. t \notin blind' => Own(t) = {}
    BY <1>1, <1>2 DEF MechanicalInv, CleanInv
  <2>. QED
    BY <1>1, <1>2, <1>4, <2>1, <2>2 DEF CleanInv, Trying
<1>. QED
  BY <1>3, <1>5, <1>6 DEF MechanicalInv

\* A process appears: one that the attempt in hand had not listed.
LEMMA SpawnKeeps ==
  ASSUME LockType, MechanicalInv, NEW t \in Threads, NEW p \in Pids, Spawn(t, p)
  PROVE  MechanicalInv'
<1>1. /\ pc[t] = "launch" /\ pc'[t] = "connecting" /\ by[p] = NoOne
      /\ by' = [by EXCEPT ![p] = t] /\ running' = running \cup {p}
      /\ UNCHANGED <<before, victims, elders, blind>>
      /\ \A u \in Threads \ {t} : pc'[u] = pc[u]
  BY DEF Spawn, Goto, LockType, States
<1>2. p \notin running /\ p \notin before[t] /\ t # NoOne
  BY <1>1, ThreadsAssumption DEF MechanicalInv, StartedInv
<1>3. StartedInv'
  BY <1>1, ThreadsAssumption DEF MechanicalInv, StartedInv
<1>4. (\A u \in Threads \ {t} : Own(u)' = Own(u)) /\ Own(t)' = Own(t) \cup {p}
  BY <1>1, <1>2 DEF Own, MechanicalInv, StartedInv
<1>5. \A u \in Threads \ {t} : CleanInv(u)'
  BY <1>1, <1>4, Bystander DEF MechanicalInv
<1>6. CleanInv(t)'
  <2>1. t \notin blind => Own(t) = {} /\ elders[t] \subseteq before[t]
    BY <1>1 DEF MechanicalInv, CleanInv, Trying
  <2>2. t \notin blind => Own(t)' = {p}
    BY <1>4, <2>1
  <2>. QED
    BY <1>1, <1>2, <2>1, <2>2 DEF MechanicalInv, CleanInv, Trying
<1>. QED
  BY <1>3, <1>5, <1>6 DEF MechanicalInv

\* What an attempt knew is forgotten.
LEMMA Forgotten ==
  ASSUME MechanicalInv, NEW T, Forget(T)
  PROVE  /\ before' \in [Threads -> SUBSET Pids] /\ victims' \in [Threads -> SUBSET Pids]
         /\ elders' \in [Threads -> SUBSET Pids]
         /\ \A u \in Threads \ T :
              before'[u] = before[u] /\ victims'[u] = victims[u] /\ elders'[u] = elders[u]
         /\ \A u \in Threads \cap T : before'[u] = {} /\ victims'[u] = {} /\ elders'[u] = {}
  BY DEF Forget, MechanicalInv, StartedInv

\* A thread's launch succeeds, its clean-up is over, or its session is closed.
LEMMA OverKeeps ==
  ASSUME LockType, MechanicalInv, NEW t \in Threads,
         MechanicalStarted(t) \/ MechanicalAgain(t) \/ CloseSession(t)
  PROVE  MechanicalInv'
<1>1. /\ UNCHANGED <<by, blind>> /\ running' \subseteq running
      /\ Forget({t}) \/ UNCHANGED <<before, victims, elders>>
      /\ \A u \in Threads \ {t} : pc'[u] = pc[u]
      /\ \/ pc[t] \in {"connecting", "open"} /\ pc'[t] \in {"open", "closed"}
         \/ pc[t] = "kill" /\ victims[t] = {} /\ pc'[t] \in {"failed", "snapshot"}
  BY DEF MechanicalStarted, MechanicalAgain, CloseSession, Goto, LockType, States
<1>2. /\ before' \in [Threads -> SUBSET Pids] /\ victims' \in [Threads -> SUBSET Pids]
      /\ elders' \in [Threads -> SUBSET Pids]
      /\ \A u \in Threads \ {t} :
           before'[u] = before[u] /\ victims'[u] = victims[u] /\ elders'[u] = elders[u]
      /\ before'[t] \subseteq before[t]
      /\ victims'[t] \subseteq victims[t] /\ elders'[t] \subseteq elders[t]
  BY <1>1, Forgotten DEF MechanicalInv, StartedInv
<1>3. StartedInv'
  <2>1. \A u \in Threads : before'[u] \subseteq before[u]
    BY <1>2
  <2>. QED
    BY <1>1, <1>2, <2>1 DEF MechanicalInv, StartedInv
<1>4. \A u \in Threads : Own(u)' \subseteq Own(u)
  BY <1>1 DEF Own
<1>5. \A u \in Threads \ {t} : CleanInv(u)'
  BY <1>1, <1>2, <1>4, Bystander DEF MechanicalInv
<1>6. CleanInv(t)'
  <2>1. victims'[t] = {}
    BY <1>1, <1>2 DEF MechanicalInv, CleanInv
  <2>2. Own(t)' \subseteq Own(t)
    BY <1>4
  <2>3. t \notin blind /\ pc[t] = "kill" => Own(t) = {}
    BY <1>1 DEF MechanicalInv, CleanInv
  <2>4. t \notin blind => \A p, q \in Own(t) : p = q
    BY <1>1 DEF MechanicalInv, CleanInv
  <2> DEFINE mine == Own(t)
  <2>5. mine' \subseteq mine
    BY <2>2
  <2> HIDE DEF mine
  <2>. QED
    BY <1>1, <2>1, <2>3, <2>4, <2>5 DEF CleanInv, Trying, mine
<1>. QED
  BY <1>3, <1>5, <1>6 DEF MechanicalInv

\* A launch fails.
LEMMA FailsKeeps ==
  ASSUME LockType, MechanicalInv, NEW t \in Threads, MechanicalFails(t)
  PROVE  MechanicalInv'
<1>1. /\ UNCHANGED <<running, by, before, victims, elders, blind>>
      /\ \A u \in Threads \ {t} : pc'[u] = pc[u]
      /\ pc[t] \in {"launch", "connecting"} /\ pc'[t] = "sweep"
  BY DEF MechanicalFails, Goto, mechanicalVars, LockType, States
<1>2. StartedInv' /\ \A u \in Threads : Own(u)' = Own(u)
  BY <1>1 DEF MechanicalInv, StartedInv, Own
<1>3. \A u \in Threads \ {t} : CleanInv(u)'
  BY <1>1, <1>2, Bystander DEF MechanicalInv
<1>4. CleanInv(t)'
  BY <1>1, <1>2 DEF MechanicalInv, CleanInv, Trying
<1>. QED
  BY <1>2, <1>3, <1>4 DEF MechanicalInv

\* What appeared since the list was taken is marked, which spares the elders and finds
\* what the launch has left.
LEMMA SweepKeeps ==
  ASSUME LockType, MechanicalInv, NEW t \in Threads, Sweep(t)
  PROVE  MechanicalInv'
<1>1. PICK seen \in Listings : /\ victims' = [victims EXCEPT ![t] = seen \ before[t]]
                               /\ blind' = Blinded(t, seen)
  BY DEF Sweep
<1>2. /\ pc[t] = "sweep" /\ pc'[t] = "kill"
      /\ UNCHANGED <<running, by, before, elders>>
      /\ \A u \in Threads \ {t} : pc'[u] = pc[u]
  BY DEF Sweep, Goto, LockType, States
<1>3. /\ seen \subseteq running
      /\ blind \subseteq blind' /\ blind' \subseteq Threads /\ (t \notin blind' => seen = running)
  BY <1>1 DEF Listings, Blinded, MechanicalInv, StartedInv
<1>4. /\ victims' \in [Threads -> SUBSET Pids] /\ victims'[t] = seen \ before[t]
      /\ \A u \in Threads \ {t} : victims'[u] = victims[u]
  BY <1>1, <1>3 DEF MechanicalInv, StartedInv
<1>5. StartedInv' /\ \A u \in Threads : Own(u)' = Own(u)
  BY <1>2, <1>3, <1>4 DEF MechanicalInv, StartedInv, Own
<1>6. \A u \in Threads \ {t} : CleanInv(u)'
  BY <1>2, <1>3, <1>4, <1>5, Bystander DEF MechanicalInv
<1>7. CleanInv(t)'
  <2>1. t \notin blind' => /\ elders[t] \subseteq before[t] /\ Own(t) \cap before[t] = {}
                          /\ \A p, q \in Own(t) : p = q
    BY <1>2, <1>3 DEF MechanicalInv, CleanInv, Trying
  <2>2. Own(t) \subseteq running
    BY DEF Own
  <2>. QED
    BY <1>2, <1>3, <1>4, <1>5, <2>1, <2>2 DEF CleanInv, Trying
<1>. QED
  BY <1>5, <1>6, <1>7 DEF MechanicalInv

\* One of the processes marked is ended, or could not be.
LEMMA KillKeeps ==
  ASSUME LockType, MechanicalInv, NEW t \in Threads, Kill(t)
  PROVE  MechanicalInv'
<1>1. PICK p \in victims[t] :
        /\ victims' = [victims EXCEPT ![t] = @ \ {p}]
        /\ \E killed \in {{}, {p}} : running' = running \ killed
        /\ blind' = IF p \in running' THEN blind \cup {t} ELSE blind
  BY DEF Kill
<1>2. /\ UNCHANGED <<pc, by, before, elders>> /\ pc[t] = "kill"
      /\ running' \subseteq running /\ blind \subseteq blind' /\ blind' \subseteq Threads
      /\ t \notin blind' => p \notin running'
  BY <1>1 DEF Kill, MechanicalInv, StartedInv
<1>3. /\ victims' \in [Threads -> SUBSET Pids] /\ victims'[t] = victims[t] \ {p}
      /\ \A u \in Threads \ {t} : victims'[u] = victims[u]
  BY <1>1 DEF MechanicalInv, StartedInv
<1>4. StartedInv' /\ \A u \in Threads : Own(u)' \subseteq Own(u) /\ Own(u)' \subseteq running'
  BY <1>2, <1>3 DEF MechanicalInv, StartedInv, Own
<1>5. \A u \in Threads \ {t} : CleanInv(u)'
  BY <1>2, <1>3, <1>4, Bystander DEF MechanicalInv
<1>6. CleanInv(t)'
  <2>1. t \notin blind => /\ victims[t] \cap elders[t] = {} /\ Own(t) \subseteq victims[t]
                         /\ \A r, q \in Own(t) : r = q
    BY <1>2 DEF MechanicalInv, CleanInv
  <2> DEFINE mine == Own(t)
  <2>2. mine' \subseteq mine /\ mine' \subseteq running'
    BY <1>4
  <2>3. t \notin blind => mine \subseteq victims[t] /\ \A r, q \in mine : r = q
    BY <2>1
  <2> HIDE DEF mine
  <2>. QED
    BY <1>2, <1>3, <2>1, <2>2, <2>3 DEF CleanInv, Trying, mine
<1>. QED
  BY <1>4, <1>5, <1>6 DEF MechanicalInv

\* A process that somebody starts by hand, one that ends, and a minute that passes.
LEMMA AroundKeeps == MechanicalInv /\ Around => MechanicalInv'
<1> SUFFICES ASSUME MechanicalInv, Around PROVE MechanicalInv'
  OBVIOUS
<1>1. UNCHANGED <<pc, before, victims, elders, blind>>
  BY DEF Around, Tick, UserStarts, ProcessEnds, mechanicalVars
<1>2. StartedInv' /\ \A u \in Threads : Own(u)' \subseteq Own(u)
  <2>1. CASE Tick
    BY <2>1 DEF Tick, mechanicalVars, MechanicalInv, StartedInv, Own
  <2>2. ASSUME NEW p \in Pids, UserStarts(p)
        PROVE  StartedInv' /\ \A u \in Threads : Own(u)' \subseteq Own(u)
    <3>1. /\ by[p] = NoOne /\ by' = [by EXCEPT ![p] = "user"] /\ running' = running \cup {p}
          /\ UNCHANGED <<before, victims, elders, blind>>
      BY <2>2 DEF UserStarts
    <3>2. /\ "user" \notin Threads \cup {NoOne}
          /\ \A q \in Pids : by'[q] = IF q = p THEN "user" ELSE by[q]
          /\ by' \in [Pids -> Threads \cup {"user", NoOne}]
      BY <3>1, LaunchAssumption DEF MechanicalInv, StartedInv
    <3>3. \A u \in Threads : Own(u)' \subseteq Own(u)
      BY <3>1, <3>2 DEF Own, MechanicalInv, StartedInv
    <3>4. \A q \in Pids : by[q] # NoOne => by'[q] = by[q]
      BY <3>1, <3>2
    <3>5. \A q \in running' : by'[q] # NoOne
      BY <3>1, <3>2, <3>4 DEF MechanicalInv, StartedInv
    <3>6. \A t \in Threads : \A q \in before'[t] : by'[q] # NoOne
      BY <3>1, <3>4 DEF MechanicalInv, StartedInv
    <3>7. running' \subseteq Pids
      BY <3>1 DEF MechanicalInv, StartedInv
    <3>8. /\ before' \in [Threads -> SUBSET Pids] /\ victims' \in [Threads -> SUBSET Pids]
          /\ elders' \in [Threads -> SUBSET Pids] /\ blind' \subseteq Threads
      BY <3>1 DEF MechanicalInv, StartedInv
    <3>. QED
      BY <3>2, <3>3, <3>5, <3>6, <3>7, <3>8 DEF StartedInv
  <2>3. ASSUME NEW p \in Pids, ProcessEnds(p)
        PROVE  StartedInv' /\ \A u \in Threads : Own(u)' \subseteq Own(u)
    BY <2>3 DEF ProcessEnds, MechanicalInv, StartedInv, Own
  <2>. QED
    BY <2>1, <2>2, <2>3 DEF Around
<1>3. \A u \in Threads : CleanInv(u)'
  BY <1>1, <1>2, Bystander DEF MechanicalInv
<1>. QED
  BY <1>2, <1>3 DEF MechanicalInv

\* A server dies.
LEMMA CrashCleans ==
  ASSUME LockType, MechanicalInv, NEW v \in Servers, Crash(v)
  PROVE  MechanicalInv'
<1> DEFINE T == {t \in Threads : ServerOf[t] = v}
<1>1. /\ UNCHANGED <<running, by, blind>> /\ Forget(T)
      /\ \A t \in Threads : pc'[t] = IF t \in T THEN "dead" ELSE pc[t]
  BY DEF Crash
<1>2. /\ before' \in [Threads -> SUBSET Pids] /\ victims' \in [Threads -> SUBSET Pids]
      /\ elders' \in [Threads -> SUBSET Pids]
      /\ \A u \in Threads \ T :
           before'[u] = before[u] /\ victims'[u] = victims[u] /\ elders'[u] = elders[u]
      /\ \A u \in Threads \cap T : before'[u] = {} /\ victims'[u] = {} /\ elders'[u] = {}
  BY <1>1, Forgotten
<1>3. StartedInv' /\ \A u \in Threads : Own(u)' = Own(u)
  <2>1. \A u \in Threads : before'[u] \subseteq before[u]
    BY <1>2
  <2>. QED
    BY <1>1, <1>2, <2>1 DEF MechanicalInv, StartedInv, Own
<1>4. \A u \in Threads \ T : CleanInv(u)'
  BY <1>1, <1>2, <1>3, Bystander DEF MechanicalInv
<1>5. \A u \in Threads \cap T : CleanInv(u)'
  BY <1>1, <1>2, <1>3 DEF CleanInv, Trying
<1>. QED
  BY <1>3, <1>4, <1>5 DEF MechanicalInv

\* Every step keeps what is known of the processes.
LEMMA MechanicalStep == LockInv /\ MechanicalInv /\ [LaunchNext]_launchVars => MechanicalInv'
<1> SUFFICES ASSUME LockInv, MechanicalInv, [LaunchNext]_launchVars PROVE MechanicalInv'
  OBVIOUS
<1>1. LockType
  BY DEF LockInv
<1>2. ASSUME NEW t \in Threads, Begin(t) \/ Launching(t) \/ CloseSession(t) PROVE MechanicalInv'
  <2>1. CASE \/ Begin(t) \/ LaunchOnce(t) \/ TakeThreadLock(t) \/ TakeFileLock(t) \/ GiveUp(t)
             \/ StartFluent(t) \/ FluentStarted(t) \/ FluentFails(t) \/ FluentAgain(t)
             \/ Connect(t)
    BY <2>1, OtherKeeps
  <2>2. CASE \/ Snapshot(t) \/ (\E p \in Pids : Spawn(t, p)) \/ MechanicalFails(t) \/ Sweep(t)
             \/ Kill(t)
    BY <1>1, <2>2, SnapshotKeeps, SpawnKeeps, FailsKeeps, SweepKeeps, KillKeeps
  <2>3. CASE MechanicalStarted(t) \/ MechanicalAgain(t) \/ CloseSession(t)
    BY <1>1, <2>3, OverKeeps
  <2>. QED
    BY <1>2, <2>1, <2>2, <2>3 DEF Launching
<1>3. CASE UNCHANGED launchVars
  <2>1. UNCHANGED <<pc, running, by, before, victims, elders, blind>>
    BY <1>3 DEF launchVars, mechanicalVars
  <2>. QED
    BY <2>1 DEF MechanicalInv, StartedInv, CleanInv, Own, Trying
<1>. QED
  BY <1>1, <1>2, <1>3, AroundKeeps, CrashCleans DEF LaunchNext

-----------------------------------------------------------------------------
(* The theorems                                                            *)

\* A step of OpenSession is one of the store's or one of the launch's.
LEMMA Parts ==
  ASSUME [Next]_vars
  PROVE  /\ (\E t \in Threads : GetStore(t)) \/ UNCHANGED serverVars
         /\ [LaunchNext]_launchVars
<1>1. CASE UNCHANGED vars
  BY <1>1 DEF vars
<1>2. CASE Next
  <2>1. CASE \E t \in Threads : GetsStore(t)
    BY <2>1 DEF GetsStore
  <2>2. CASE \E t \in Threads : Begins(t) \/ Launches(t)
    BY <2>2 DEF Begins, Launches, LaunchNext
  <2>3. CASE \/ \E t \in Threads : CloseSession(t) /\ UNCHANGED serverVars
             \/ Around /\ UNCHANGED serverVars
             \/ \E v \in Servers : Crash(v) /\ UNCHANGED serverVars
    BY <2>3 DEF LaunchNext
  <2>. QED
    BY <1>2, <2>1, <2>2, <2>3 DEF Next
<1>. QED
  BY <1>1, <1>2

\* What the store's and the launch's steps keep is kept by the whole.
THEOREM OpenSessionInvariant == Spec => [](ServerInv /\ LockInv /\ MechanicalInv)
<1>1. Init => ServerInv /\ LockInv /\ MechanicalInv
  BY ServerStart, LockStart, MechanicalStart DEF Init
<1>2. ServerInv /\ [Next]_vars => ServerInv'
  <2>1. ServerInv /\ UNCHANGED serverVars => ServerInv'
    BY DEF serverVars, ServerInv, ServerType, Inside
  <2>. QED
    BY <2>1, Parts, ServerStep
<1>3. LockInv /\ [Next]_vars => LockInv'
  BY Parts, LockStep
<1>4. LockInv /\ MechanicalInv /\ [Next]_vars => MechanicalInv'
  BY Parts, MechanicalStep
<1>. QED
  BY <1>1, <1>2, <1>3, <1>4, PTL DEF Spec

\* A process has one store, and atexit closes it.
THEOREM OneStoreOnly == Spec => []OneStore
<1>1. ServerInv => OneStore
  BY DEF ServerInv, ServerType, OneStore
<1>. QED
  BY <1>1, OpenSessionInvariant, PTL

\* Fluent is launched by one call at a time on the machine, over all its attempts.
THEOREM FluentLocked == Spec => []FluentAlone
<1>1. LockInv => FluentAlone
  BY DEF LockInv, FluentAlone, Attempting
<1>. QED
  BY <1>1, OpenSessionInvariant, PTL

\* Nobody gives up on an attempt of the default length that was under way when they
\* began to wait, nor on one that is no longer than their own.
THEOREM AttemptOutlasted == Spec => []OutlastsOneAttempt
<1>1. LockInv => OutlastsOneAttempt
  <2> SUFFICES ASSUME LockInv, NEW t \in Threads, NEW u \in Threads,
                      waited[t] >= LockTimeout(t), lasted[u] >= waited[t]
               PROVE  StartTimeout[u] > DefaultTimeout /\ StartTimeout[u] > StartTimeout[t]
    BY DEF OutlastsOneAttempt
  <2>1. /\ StartTimeout[t] \in Nat /\ StartTimeout[u] \in Nat
        /\ waited[t] \in Nat /\ lasted[u] \in Nat /\ lasted[u] <= StartTimeout[u]
    BY LaunchAssumption DEF LockInv, LockType
  <2>. QED
    BY <2>1 DEF LockTimeout, DefaultTimeout, Margin
<1>. QED
  BY <1>1, OpenSessionInvariant, PTL

\* A call that could list and end processes holds at most one, and none after it failed.
THEOREM LeavesNoStrays == Spec => []NoStrays
<1>1. MechanicalInv => NoStrays
  <2> SUFFICES ASSUME MechanicalInv, NEW t \in Threads \ blind, pc[t] # "dead"
               PROVE  /\ Cardinality(Own(t)) <= 1
                      /\ pc[t] \in {"snapshot", "launch", "failed"} => Own(t) = {}
    BY DEF NoStrays
  <2>1. \A p, q \in Own(t) : p = q
    BY DEF MechanicalInv, CleanInv
  <2>2. Cardinality(Own(t)) <= 1
    <3>1. CASE Own(t) = {}
      BY <3>1, FS_EmptySet
    <3>2. CASE Own(t) # {}
      <4>1. PICK p : Own(t) = {p}
        BY <2>1, <3>2
      <4>. QED
        BY <4>1, FS_Singleton
    <3>. QED
      BY <3>1, <3>2
  <2>. QED
    BY <2>2 DEF MechanicalInv, CleanInv
<1>. QED
  BY <1>1, OpenSessionInvariant, PTL

\* A clean-up ends nothing that ran before its attempt.
THEOREM EldersSpared == Spec => SparesElders
<1>1. MechanicalInv /\ LockInv /\ [Next]_vars =>
        [\A t \in Threads : pc[t] = "kill" /\ victims'[t] # victims[t] /\ t \notin blind =>
           (running \ running') \cap elders[t] = {}]_launchVars
  <2> SUFFICES ASSUME MechanicalInv, LockInv, LaunchNext, NEW t \in Threads,
                      pc[t] = "kill", victims'[t] # victims[t], t \notin blind
               PROVE  (running \ running') \cap elders[t] = {}
    BY Parts
  <2>1. victims[t] \cap elders[t] = {}
    BY DEF MechanicalInv, CleanInv
  <2>2. \/ UNCHANGED running
        \/ \E p \in victims[t] : running \ running' \subseteq {p}
    <3>1. ASSUME NEW u \in Threads, Begin(u) \/ Launching(u) \/ CloseSession(u)
          PROVE  UNCHANGED running \/ \E p \in victims[t] : running \ running' \subseteq {p}
      <4>1. CASE u = t
        <5>1. Sweep(t) \/ Kill(t) \/ MechanicalAgain(t)
          BY <3>1, <4>1 DEF Begin, Launching, CloseSession, LaunchOnce, TakeThreadLock,
             TakeFileLock, GiveUp, StartFluent, FluentStarted, FluentFails, FluentAgain, Connect,
             Snapshot, Spawn, MechanicalStarted, MechanicalFails
        <5>. QED
          BY <5>1 DEF Sweep, Kill, MechanicalAgain
      <4>2. CASE u # t
        <5>1. UNCHANGED victims \/ victims'[t] = victims[t]
          <6>1. CASE Kill(u) \/ Sweep(u)
            BY <4>2, <6>1 DEF Kill, Sweep, MechanicalInv, StartedInv
          <6>2. CASE MechanicalStarted(u) \/ MechanicalAgain(u)
            BY <4>2, <6>2, Forgotten DEF MechanicalStarted, MechanicalAgain
          <6>. QED
            BY <3>1, <6>1, <6>2 DEF Begin, Launching, CloseSession, LaunchOnce, TakeThreadLock,
               TakeFileLock, GiveUp, StartFluent, FluentStarted, FluentFails, FluentAgain,
                 Connect,
               Snapshot, Spawn, MechanicalFails, mechanicalVars
        <5>. QED
          BY <5>1
      <4>. QED
        BY <4>1, <4>2
    <3>2. CASE Around
      BY <3>2 DEF Around, Tick, UserStarts, ProcessEnds, mechanicalVars
    <3>3. CASE \E v \in Servers : Crash(v)
      BY <3>3 DEF Crash
    <3>. QED
      BY <3>1, <3>2, <3>3 DEF LaunchNext
  <2>. QED
    BY <2>1, <2>2
<1>. QED
  BY <1>1, OpenSessionInvariant, PTL DEF Spec, SparesElders
=============================================================================
