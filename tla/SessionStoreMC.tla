--------------------------- MODULE SessionStoreMC ---------------------------
(***************************************************************************)
(* Instances of SessionStore for TLC.                                      *)
(***************************************************************************)
EXTENDS SessionStore, TLC

CONSTANTS p1, p2, t1, t2, t3, s1, s2, s3, fluent, mechanical

\* All callers share one server process, or the last one has its own.
OneProc == [t \in Threads |-> p1]
TwoProcs == [t \in Threads |-> IF t = t3 THEN p2 ELSE p1]

\* The first two ids are for Fluent sessions, the third for Mechanical.
Adapters == [s \in Sids |-> IF s = s3 THEN mechanical ELSE fluent]

\* The callers of one process, and the ids of one adapter, are interchangeable.
SameCallers == Permutations({t1, t2})
SameIds == Permutations({t1, t2}) \cup Permutations({s1, s2})
=============================================================================
