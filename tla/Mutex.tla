-------------------------------- MODULE Mutex --------------------------------
(***************************************************************************)
(* What exclusive_file_lock promises its callers, whatever the protocol on *)
(* the lock file: at most one thread of one process is inside the `with`   *)
(* block, and it is the only one that can leave it (by returning, raising  *)
(* or dying with its process).                                             *)
(***************************************************************************)
CONSTANT Threads

VARIABLE holders    \* the threads inside the `with` block

Init == holders = {}

Acquire(t) == /\ holders = {}
              /\ holders' = {t}

Release(t) == /\ t \in holders
              /\ holders' = holders \ {t}

Next == \E t \in Threads : Acquire(t) \/ Release(t)

Spec == Init /\ [][Next]_holders
=============================================================================
