---------------------------- MODULE AbstractLock ----------------------------
(***************************************************************************)
(* What Mutex::lock and the drop of its guard promise: at most one thread  *)
(* holds the lock, a thread gets it only when it is free, and only its     *)
(* holder gives it back.                                                   *)
(***************************************************************************)
CONSTANT Threads
VARIABLE holders

Init == holders = {}

Acquire(t) == holders = {} /\ holders' = {t}

Release(t) == holders = {t} /\ holders' = {}

Next == \E t \in Threads : Acquire(t) \/ Release(t)

Spec == Init /\ [][Next]_holders
=============================================================================
