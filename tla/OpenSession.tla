----------------------------- MODULE OpenSession -----------------------------
(***************************************************************************)
(* The tool open_session of an MCP server, from the call to its answer: it *)
(* comes to the store of its process and launches a product.  What the     *)
(* store does around the launch is SessionStore's.                         *)
(***************************************************************************)
EXTENDS McpServer, AdapterLaunch

vars == <<serverVars, launchVars>>

Init == ServerInit /\ LaunchInit

\* Nothing of a dead process takes another step.
GetsStore(t) == pc[t] = "idle" /\ adapter[t] # "none" /\ GetStore(t) /\ UNCHANGED launchVars
Begins(t) == at[t] = "ready" /\ Begin(t) /\ UNCHANGED serverVars
Launches(t) == Launching(t) /\ UNCHANGED serverVars

Next == \/ \E t \in Threads : GetsStore(t) \/ Begins(t) \/ Launches(t)
        \/ \E t \in Threads : CloseSession(t) /\ UNCHANGED serverVars
        \/ Around /\ UNCHANGED serverVars
        \/ \E v \in Servers : Crash(v) /\ UNCHANGED serverVars

Spec == Init /\ [][Next]_vars

\* A tool is called and then comes to the store; any other call begins with the launch.
Called(t) == IF t \in Tools THEN at[t] # "idle" ELSE pc[t] # "idle"

\* A thread inside a call runs, what it asks of the machine returns, and time passes.
FairSpec == /\ Spec
            /\ WF_vars(Tick /\ UNCHANGED serverVars)
            /\ \A t \in Threads :
                 WF_vars(Called(t) /\ (GetsStore(t) \/ Begins(t) \/ Launches(t)))

Returned(t) == at[t] = "raised" \/ pc[t] \in {"open", "failed", "closed", "dead"}

\* Every call to open a session returns, with a session or an error, or dies with its
\* process: no lock it meets on the way is kept for ever by another call, whether
\* that one was answered, failed, gave up waiting or died.
OpensReturn == \A t \in Threads : Called(t) ~> Returned(t)
=============================================================================
