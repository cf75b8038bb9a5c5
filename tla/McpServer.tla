------------------------------ MODULE McpServer ------------------------------
(***************************************************************************)
(* How the tools of an MCP server come to the one SessionStore of their    *)
(* process (interfaces/mcp/server.py): _STORE is built by the first tool   *)
(* that asks for it, checked once without _STORE_LOCK and once under it.   *)
(* A plan and a single call open sessions of their own, without a store.   *)
(***************************************************************************)
EXTENDS ServerThreads

CONSTANT Tools  \* the threads that run tools; others open a session without the store

ASSUME ToolsAssumption == Tools \subseteq Threads

VARIABLES store,     \* the store in _STORE, by number; 0 for None
          built,     \* how many stores each process has built
          handlers,  \* the stores that atexit will close
          holder,    \* the thread that holds _STORE_LOCK
          at,        \* where each thread is in get_store
          got        \* the store a thread was given, 0 for none yet
serverVars == <<store, built, handlers, holder, at, got>>

ServerInit == /\ store = [v \in Servers |-> 0]
              /\ built = [v \in Servers |-> 0]
              /\ handlers = [v \in Servers |-> {}]
              /\ holder = [v \in Servers |-> NoOne]
              /\ at = [t \in Threads |-> IF t \in Tools THEN "idle" ELSE "ready"]
              /\ got = [t \in Threads |-> 0]

Move(t, there) == at' = [at EXCEPT ![t] = there]

\* get_store returns what is in _STORE by now.
Give(t) == got' = [got EXCEPT ![t] = store'[ServerOf[t]]] /\ Move(t, "ready")

\* The first check, without the lock.
Ask(t) == /\ at[t] = "idle"
          /\ IF store[ServerOf[t]] # 0 THEN UNCHANGED store /\ Give(t)
             ELSE Move(t, "lock") /\ UNCHANGED <<store, got>>
          /\ UNCHANGED <<built, handlers, holder>>

TakeLock(t) == /\ at[t] = "lock"
               /\ holder[ServerOf[t]] = NoOne
               /\ holder' = [holder EXCEPT ![ServerOf[t]] = t]
               /\ Move(t, "check")
               /\ UNCHANGED <<store, built, handlers, got>>

Unlock(t) == holder' = [holder EXCEPT ![ServerOf[t]] = NoOne]

\* Mutant of Missing: the second check is left out.
MissingAnyway(v) == TRUE

\* The second check.
Missing(v) == store[v] = 0

Found(t) == /\ at[t] = "check"
            /\ ~Missing(ServerOf[t])
            /\ UNCHANGED <<store, built, handlers>>
            /\ Unlock(t) /\ Give(t)

Build(t) == LET v == ServerOf[t]
            IN /\ at[t] = "check"
               /\ Missing(v)
               /\ built' = [built EXCEPT ![v] = @ + 1]
               /\ store' = [store EXCEPT ![v] = built'[v]]
               /\ Move(t, "register")
               /\ UNCHANGED <<handlers, holder, got>>

\* SessionStore() reads the state file under its lock, which may time out.
BuildFails(t) == /\ at[t] = "check"
                 /\ Missing(ServerOf[t])
                 /\ Unlock(t)
                 /\ Move(t, "raised")
                 /\ UNCHANGED <<store, built, handlers, got>>

\* atexit.register(_STORE.close_all)
Register(t) == LET v == ServerOf[t]
               IN /\ at[t] = "register"
                  /\ handlers' = [handlers EXCEPT ![v] = @ \cup {store[v]}]
                  /\ UNCHANGED <<store, built>>
                  /\ Unlock(t) /\ Give(t)

GetStore(t) == Ask(t) \/ TakeLock(t) \/ Found(t) \/ Build(t) \/ BuildFails(t) \/ Register(t)

-----------------------------------------------------------------------------
\* A process has one store: two would each count, and expire, the sessions of the
\* other as if they were lost. Whatever store a tool was given is the one in use,
\* and is closed at exit once get_store has returned from building it.
OneStore ==
  /\ \A t \in Threads : got[t] # 0 => got[t] = store[ServerOf[t]]
  /\ \A v \in Servers :
       handlers[v] # {store[v]} =>
         /\ handlers[v] = {}
         /\ store[v] # 0 => \E t \in Threads : ServerOf[t] = v /\ at[t] = "register"
=============================================================================
