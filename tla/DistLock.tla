------------------------------ MODULE DistLock ------------------------------
(***************************************************************************)
(* The distributed lock of the server (redis.service.ts): a Redis key set  *)
(* with NX and a time to live, retried a few times, and deleted by whoever *)
(* finishes an operation. Nothing ties a key to the one who set it, so an  *)
(* operation that outlasts the time to live lets others in and later       *)
(* deletes their key.                                                      *)
(***************************************************************************)
EXTENDS Integers, FiniteSets

CONSTANTS
    Handlers,      \* asynchronous handlers, of one server process or several
    Locks,         \* lock keys
    MaxRetries,    \* maxRetries: how often SET is tried
    MaxFaults      \* bound: failed Redis commands, deaths of handlers and
                   \* operations that outlast the time to live

ASSUME LockAssumption == MaxRetries \in Nat \ {0} /\ MaxFaults \in Nat

VARIABLES
    key,       \* the locks whose key exists
    locker,    \* locker[h]: how far h is with a lock
    faults,    \* how many faults have happened
    \* History, read by no action of the program:
    overrun    \* locks whose key expired under an operation

lockVars == <<key, locker, faults, overrun>>

NoLock == "none"
Outside == [pc |-> "out", lock |-> NoLock, tries |-> 0]

Inside(h, l) == locker[h].pc = "in" /\ locker[h].lock = l

Fault == faults < MaxFaults /\ faults' = faults + 1

LockInit ==
    /\ key = {}
    /\ locker = [h \in Handlers |-> Outside]
    /\ faults = 0
    /\ overrun = {}

\* runWithDistributedLock is called.
Want(h, l) ==
    /\ locker[h].pc = "out"
    /\ locker' = [locker EXCEPT ![h] = [pc |-> "try", lock |-> l, tries |-> 0]]
    /\ UNCHANGED <<key, faults, overrun>>

\* Mutant of Acquire: SET without NX.
AcquireAnyway(h) ==
    /\ locker[h].pc = "try"
    /\ key' = key \union {locker[h].lock}
    /\ locker' = [locker EXCEPT ![h].pc = "in"]
    /\ UNCHANGED <<faults, overrun>>

\* SET NX finds no key, and the operation starts.
Acquire(h) ==
    /\ locker[h].pc = "try"
    /\ locker[h].lock \notin key
    /\ key' = key \union {locker[h].lock}
    /\ locker' = [locker EXCEPT ![h].pc = "in"]
    /\ UNCHANGED <<faults, overrun>>

\* SET NX finds a key, or fails itself.
Missed(h) ==
    /\ locker[h].pc = "try"
    /\ \/ locker[h].lock \in key /\ UNCHANGED faults
       \/ Fault

\* Mutant of Miss: no end to the attempts.
MissUncounted(h) ==
    /\ Missed(h)
    /\ UNCHANGED <<key, locker, overrun>>

Miss(h) ==
    /\ Missed(h)
    /\ locker[h].tries + 1 < MaxRetries
    /\ locker' = [locker EXCEPT ![h].tries = @ + 1]
    /\ UNCHANGED <<key, overrun>>

\* After the last attempt runWithDistributedLock throws.
GiveUp(h) ==
    /\ Missed(h)
    /\ locker[h].tries + 1 = MaxRetries
    /\ locker' = [locker EXCEPT ![h] = Outside]
    /\ UNCHANGED <<key, overrun>>

\* The operation ended, well or not: DEL, whoever's the key is by now.
Release(h) ==
    /\ locker[h].pc = "in"
    /\ key' = key \ {locker[h].lock}
    /\ locker' = [locker EXCEPT ![h] = Outside]
    /\ UNCHANGED <<faults, overrun>>

\* DEL fails and the key stays, or the process dies anywhere.
Abandon(h) ==
    /\ locker[h].pc # "out"
    /\ Fault
    /\ locker' = [locker EXCEPT ![h] = Outside]
    /\ UNCHANGED <<key, overrun>>

\* The time to live of a key left behind is over ...
Expire(l) ==
    /\ l \in key
    /\ \A h \in Handlers : ~Inside(h, l)
    /\ key' = key \ {l}
    /\ UNCHANGED <<locker, faults, overrun>>

\* ... or that of a key some operation still relies on.
Outlast(l) ==
    /\ l \in key
    /\ \E h \in Handlers : Inside(h, l)
    /\ Fault
    /\ key' = key \ {l}
    /\ overrun' = overrun \union {l}
    /\ UNCHANGED locker

Attempt(h) == Acquire(h) \/ Miss(h) \/ GiveUp(h)

LockNext ==
    \/ \E h \in Handlers, l \in Locks : Want(h, l)
    \/ \E h \in Handlers : Attempt(h) \/ Release(h) \/ Abandon(h)
    \/ \E l \in Locks : Expire(l) \/ Outlast(l)

\* The timer between two attempts fires.
LockFairness == \A h \in Handlers : WF_lockVars(Attempt(h))

LockSpec == LockInit /\ [][LockNext]_lockVars /\ LockFairness

-----------------------------------------------------------------------------
(* Properties                                                              *)

\* Every variable has the shape the code gives it, and only a handler that
\* is outside has no lock.
LockTypeOK ==
    /\ key \subseteq Locks
    /\ locker \in [Handlers -> [pc : {"out", "try", "in"}, lock : Locks \union {NoLock},
                                tries : 0 .. MaxRetries - 1]]
    /\ \A h \in Handlers : locker[h].pc # "out" => locker[h].lock \in Locks
    /\ faults \in 0 .. MaxFaults
    /\ overrun \subseteq Locks

\* Two handlers never run an operation under the same lock, as long as no
\* operation under it has outlasted the time to live: crashes and failed
\* commands leave keys behind, and never a handler without one.
MutualExclusion ==
    \A l \in Locks \ overrun : \A h, k \in Handlers :
        Inside(h, l) /\ Inside(k, l) => h = k

\* Who is protected: a handler that outlasts its key has left the lock.
inside == {m \in Handlers \X (Locks \ overrun) : Inside(m[1], m[2])}

\* The lock implements mutual exclusion, with an expired lock closed for good.
M == INSTANCE Mutex
Exclusive == M!Spec

\* Nobody tries for ever: runWithDistributedLock runs the operation or throws.
TryEnds == \A h \in Handlers : locker[h].pc = "try" ~> locker[h].pc # "try"

=============================================================================
