----------------------------- MODULE FileLockMC -----------------------------
(***************************************************************************)
(* Instances of FileLock for TLC.                                          *)
(***************************************************************************)
EXTENDS FileLock, TLC

CONSTANTS t1, t2, t3, p1, p2, p3

\* Three processes with a caller each: one dies holding, two race to break.
ThreePids == t1 :> p1 @@ t2 :> p2 @@ t3 :> p3

\* Two callers share a process: the second finds its own pid in the file.
TwoPids == t1 :> p1 @@ t2 :> p1 @@ t3 :> p2
=============================================================================
