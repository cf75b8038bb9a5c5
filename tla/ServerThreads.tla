---------------------------- MODULE ServerThreads ----------------------------
(***************************************************************************)
(* The processes of a machine in which sessions are opened (MCP servers,   *)
(* plans and single calls), and the threads that run in each of them.      *)
(***************************************************************************)
EXTENDS Naturals

CONSTANTS Servers,   \* processes
          Threads,   \* the threads their calls run in
          ServerOf,  \* the process of each thread
          NoOne      \* no thread, no process, no version

ASSUME ThreadsAssumption == /\ ServerOf \in [Threads -> Servers]
                            /\ NoOne \notin Threads
                            /\ NoOne \notin Nat
=============================================================================
