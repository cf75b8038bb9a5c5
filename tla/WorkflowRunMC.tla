---------------------------- MODULE WorkflowRunMC ----------------------------
(***************************************************************************)
(* Instances of WorkflowRun for TLC.                                       *)
(***************************************************************************)
EXTENDS WorkflowRun, TLC

Once == [mode |-> "once", total |-> 1, chunk |-> 0, every |-> 0]

\* Initialise; 5 iterations by 2, a checkpoint every second chunk; 2 time steps
\* at once, with a checkpoint; none at all; write the results.
Full == <<Once,
          [mode |-> "chunked", total |-> 5, chunk |-> 2, every |-> 2],
          [mode |-> "chunked", total |-> 2, chunk |-> 0, every |-> 1],
          [mode |-> "chunked", total |-> 0, chunk |-> 0, every |-> 1],
          Once>>

\* Initialise, then three chunks, each with a checkpoint.
Short == <<Once, [mode |-> "chunked", total |-> 3, chunk |-> 1, every |-> 1]>>
=============================================================================
