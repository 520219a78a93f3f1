----------------------------- MODULE FutexMutex -----------------------------
(***************************************************************************)
(* The mutex of crates/aranya-fast-channels/src/mutex.rs, which guards     *)
(* each channel list in shared memory.  One action is one atomic operation *)
(* on `key` or one system call.  casMutex selects the spinning             *)
(* implementation (feature cas_mutex); otherwise a thread that cannot take *)
(* the lock sleeps in the kernel with futex_wait.                          *)
(***************************************************************************)
EXTENDS Naturals

CONSTANTS
    Threads,
    PassiveSpin,    \* PASSIVE_SPIN
    Builds,         \* with the cas_mutex feature (TRUE), without it, or both
    MaxLocks        \* how often each thread locks

ASSUME ConstantsAssumption ==
    /\ PassiveSpin \in Nat
    /\ Builds \subseteq BOOLEAN
    /\ MaxLocks \in [Threads -> Nat]

UNLOCKED == 0
LOCKED == 1
SLEEPING == 2

VARIABLES
    key,        \* Mutex.key
    pc,
    wait,       \* the local `wait` of sys_lock
    spins,      \* iterations of the passive spin
    locks,      \* locks taken so far, per thread
    casMutex    \* cfg(feature = "cas_mutex")

vars == <<key, pc, wait, spins, locks, casMutex>>

PCs == {"out", "lock", "load", "cas", "swap", "wait", "asleep",
        "critical", "wake"}

TypeOK ==
    /\ key \in {UNLOCKED, LOCKED, SLEEPING}
    /\ pc \in [Threads -> PCs]
    /\ wait \in [Threads -> {LOCKED, SLEEPING}]
    /\ spins \in [Threads -> 0..PassiveSpin]
    /\ locks \in [Threads -> Nat]
    /\ \A t \in Threads : locks[t] <= MaxLocks[t]
    /\ casMutex \in Builds

Init ==
    /\ key = UNLOCKED
    /\ pc = [t \in Threads |-> "out"]
    /\ wait = [t \in Threads |-> LOCKED]
    /\ spins = [t \in Threads |-> 0]
    /\ locks = [t \in Threads |-> 0]
    /\ casMutex \in Builds

Goto(t, l) == pc' = [pc EXCEPT ![t] = l]
-----------------------------------------------------------------------------
(* sys_lock                                                                *)

Call(t) ==
    /\ pc[t] = "out"
    /\ locks[t] < MaxLocks[t]
    /\ locks' = [locks EXCEPT ![t] = @ + 1]
    /\ Goto(t, "lock")
    /\ UNCHANGED <<key, wait, spins, casMutex>>

\* As ExchangeSucceeds, with a store in place of the exchange.
StoreSucceeds == TRUE

\* compare_exchange(UNLOCKED, _) succeeds.
ExchangeSucceeds == key = UNLOCKED

ExchangeFails == key # UNLOCKED

\* The fast path: compare_exchange(UNLOCKED, LOCKED).
FastPath(t) ==
    /\ pc[t] = "lock"
    /\ ExchangeSucceeds
    /\ key' = LOCKED
    /\ Goto(t, "critical")
    /\ UNCHANGED <<wait, spins, locks, casMutex>>

\* The spinning implementation tries a failed exchange again.
SpinLoop(t) ==
    /\ pc[t] = "lock"
    /\ casMutex
    /\ ExchangeFails
    /\ UNCHANGED vars

\* The exchange fails and gives the value that `wait` starts with.
Contended(t) ==
    /\ pc[t] = "lock"
    /\ ~casMutex
    /\ ExchangeFails
    /\ wait' = [wait EXCEPT ![t] = key]
    /\ spins' = [spins EXCEPT ![t] = 0]
    /\ Goto(t, "load")
    /\ UNCHANGED <<key, locks, casMutex>>

\* One load of the passive spin; after PASSIVE_SPIN loads of a locked key the
\* thread goes to sleep.
Load(t) ==
    /\ pc[t] = "load"
    /\ \/ /\ spins[t] = PassiveSpin
          /\ Goto(t, "swap")
          /\ UNCHANGED spins
       \/ /\ spins[t] < PassiveSpin
          /\ key = UNLOCKED
          /\ Goto(t, "cas")
          /\ UNCHANGED spins
       \/ /\ spins[t] < PassiveSpin
          /\ key # UNLOCKED
          /\ spins' = [spins EXCEPT ![t] = @ + 1]
          /\ UNCHANGED pc
    /\ UNCHANGED <<key, wait, locks, casMutex>>

\* As KeyTaken, with the state of the fast path.
KeyTakenPlain(t) == LOCKED

\* The key that compare_exchange(UNLOCKED, wait) stores.
KeyTaken(t) == wait[t]

Cas(t) ==
    /\ pc[t] = "cas"
    /\ \/ /\ ExchangeSucceeds
          /\ key' = KeyTaken(t)
          /\ Goto(t, "critical")
       \/ /\ ExchangeFails
          /\ Goto(t, "load")
          /\ UNCHANGED key
    /\ UNCHANGED <<wait, spins, locks, casMutex>>

\* swap(SLEEPING) == UNLOCKED
TakenBySwap == key = UNLOCKED

Swap(t) ==
    /\ pc[t] = "swap"
    /\ key' = SLEEPING
    /\ \/ /\ TakenBySwap
          /\ Goto(t, "critical")
          /\ UNCHANGED wait
       \/ /\ ~TakenBySwap
          /\ wait' = [wait EXCEPT ![t] = SLEEPING]
          /\ Goto(t, "wait")
    /\ UNCHANGED <<spins, locks, casMutex>>

\* As FutexSleeps, with a wait that does not compare the key.
FutexAlwaysSleeps == TRUE

\* The kernel puts the caller to sleep only if the key still has the value.
FutexSleeps == key = SLEEPING

\* futex_wait(&key, SLEEPING)
FutexWait(t) ==
    /\ pc[t] = "wait"
    /\ \/ /\ FutexSleeps
          /\ Goto(t, "asleep")
          /\ UNCHANGED spins
       \/ /\ ~FutexSleeps
          /\ spins' = [spins EXCEPT ![t] = 0]
          /\ Goto(t, "load")
    /\ UNCHANGED <<key, wait, locks, casMutex>>

\* futex_wait returns without a wake (a signal); its result is ignored.
SpuriousWake(t) ==
    /\ pc[t] = "asleep"
    /\ spins' = [spins EXCEPT ![t] = 0]
    /\ Goto(t, "load")
    /\ UNCHANGED <<key, wait, locks, casMutex>>
-----------------------------------------------------------------------------
(* sys_unlock                                                              *)

\* swap(UNLOCKED)
KeyAfterUnlock == UNLOCKED

\* If the swap returned SLEEPING, a sleeper has to be woken.
Unlock(t) ==
    /\ pc[t] = "critical"
    /\ key' = KeyAfterUnlock
    /\ Goto(t, IF key = SLEEPING /\ ~casMutex THEN "wake" ELSE "out")
    /\ UNCHANGED <<wait, spins, locks, casMutex>>

Asleep == {t \in Threads : pc[t] = "asleep"}

\* futex_wake(&key, 1) wakes one sleeper, whichever the kernel picks.
FutexWake(t) ==
    /\ pc[t] = "wake"
    /\ \/ /\ Asleep = {}
          /\ Goto(t, "out")
          /\ UNCHANGED spins
       \/ \E s \in Asleep :
             /\ pc' = [pc EXCEPT ![t] = "out", ![s] = "load"]
             /\ spins' = [spins EXCEPT ![s] = 0]
    /\ UNCHANGED <<key, wait, locks, casMutex>>

Step(t) ==
    \/ FastPath(t) \/ Contended(t) \/ Load(t) \/ Cas(t) \/ Swap(t)
    \/ FutexWait(t) \/ Unlock(t) \/ FutexWake(t)

Done == \A t \in Threads : pc[t] = "out" /\ locks[t] = MaxLocks[t]

Terminating == Done /\ UNCHANGED vars

Next ==
    \/ \E t \in Threads : Call(t) \/ Step(t) \/ SpuriousWake(t) \/ SpinLoop(t)
    \/ Terminating

Spec == Init /\ [][Next]_vars

\* The scheduler lets every thread that can run take its next step; nothing
\* is assumed about spurious wakes or about when a thread calls lock.
FairSpec == Spec /\ \A t \in Threads : WF_vars(Step(t))
-----------------------------------------------------------------------------
(* Correctness.                                                            *)

Holders == {t \in Threads : pc[t] = "critical"}

\* Two guards of one mutex never exist at once (sys_lock returns to one
\* thread at a time, on its three ways to take the key).
MutualExclusion == \A t, u \in Holders : t = u

\* sys_unlock's `bug!("unlock of locked mutex")` is unreachable: the key
\* says that the lock is taken exactly while a guard exists.
KeyTellsHolder == key = UNLOCKED <=> Holders = {}

\* A thread sleeps in the kernel only while the next unlock will wake one,
\* a wake is on its way, or an awake thread is bound to store SLEEPING again.
NoLostWakeup ==
    Asleep # {} =>
        \/ key = SLEEPING
        \/ \E t \in Threads : pc[t] = "wake"
        \/ \E t \in Threads : /\ pc[t] \in {"load", "cas", "swap", "wait"}
                              /\ wait[t] = SLEEPING

\* Every call of lock returns, as long as the threads lock finitely often:
\* no thread is left asleep on a free mutex.
EveryLockReturns ==
    \A t \in Threads : pc[t] # "out" ~> pc[t] = "out"

\* The mutex implements the abstract lock.
Lock == INSTANCE AbstractLock WITH holders <- Holders

LockRefinement == Lock!Spec
=============================================================================
