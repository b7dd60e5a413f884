------------------------- MODULE MediasoupRoomsProofs -------------------------
(***************************************************************************)
(* Theorems about the media rooms for every number of users, rooms,        *)
(* handlers, workers and faults: no router is lost, no entry of the Maps   *)
(* hangs on something that is gone, the metrics count what is there, and   *)
(* nobody is left alone in a room.                                         *)
(*                                                                         *)
(* That no router is lost rests on the lock. What is proved of DistLock    *)
(* comes first: types, mutual exclusion under a lock no operation has      *)
(* outlasted, and that it implements Mutex. Its invariant is kept by the   *)
(* rooms too, and where a handler is tied to the lock it holds (Locking).  *)
(* What hangs on what needs that a number is given once (Numbered), and    *)
(* what a handler knows of the router it works with, unless somebody       *)
(* removed things meanwhile (Attached).                                    *)
(*                                                                         *)
(* That nobody is left alone needs who is in a room a handler deletes      *)
(* (Fetched), and that a handler is still at work on every room with one   *)
(* member (Departs).                                                       *)
(***************************************************************************)
EXTENDS MediasoupRooms, FiniteSetTheorems, TLAPS

-----------------------------------------------------------------------------
(* The lock (DistLock), for every set of handlers and locks, and any number *)
(* of attempts and faults.                                                  *)

LEMMA LockTypeInit == LockInit => LockTypeOK
BY LockAssumption DEF LockInit, LockTypeOK, Outside

LEMMA LockTypeStep == LockTypeOK /\ [LockNext]_lockVars => LockTypeOK'
<1> SUFFICES ASSUME LockTypeOK, [LockNext]_lockVars
             PROVE  LockTypeOK'
    OBVIOUS
<1> USE LockAssumption DEF LockTypeOK
<1>1. ASSUME NEW h \in Handlers, NEW l \in Locks, Want(h, l)
      PROVE  LockTypeOK'
      BY <1>1 DEF Want
<1>2. ASSUME NEW h \in Handlers, Acquire(h)
      PROVE  LockTypeOK'
      BY <1>2 DEF Acquire
<1>3. ASSUME NEW h \in Handlers, Miss(h)
      PROVE  LockTypeOK'
  <2>1. locker[h].tries \in 0 .. MaxRetries - 1
        OBVIOUS
  <2>2. locker[h].tries + 1 \in 0 .. MaxRetries - 1
        BY <1>3, <2>1 DEF Miss
  <2>3. faults' \in 0 .. MaxFaults
        BY <1>3 DEF Miss, Missed, Fault
  <2> QED BY <1>3, <2>2, <2>3 DEF Miss
<1>4. ASSUME NEW h \in Handlers, GiveUp(h)
      PROVE  LockTypeOK'
  <2>1. faults' \in 0 .. MaxFaults
        BY <1>4 DEF GiveUp, Missed, Fault
  <2> QED BY <1>4, <2>1 DEF GiveUp, Outside
<1>5. ASSUME NEW h \in Handlers, Release(h)
      PROVE  LockTypeOK'
      BY <1>5 DEF Release, Outside
<1>6. ASSUME NEW h \in Handlers, Abandon(h)
      PROVE  LockTypeOK'
      BY <1>6 DEF Abandon, Fault, Outside
<1>7. ASSUME NEW l \in Locks, Expire(l)
      PROVE  LockTypeOK'
      BY <1>7 DEF Expire
<1>8. ASSUME NEW l \in Locks, Outlast(l)
      PROVE  LockTypeOK'
      BY <1>8 DEF Outlast, Fault
<1>9. CASE UNCHANGED lockVars
      BY <1>9 DEF lockVars
<1> QED BY <1>1, <1>2, <1>3, <1>4, <1>5, <1>6, <1>7, <1>8, <1>9 DEF LockNext, Attempt

\* Every variable of the lock keeps its shape: the attempts stay below
\* maxRetries, and a handler that tries or runs has a lock.
THEOREM LockTypeCorrect == LockSpec => []LockTypeOK
<1>1. LockSpec => LockInit /\ [][LockNext]_lockVars
      BY DEF LockSpec
<1> QED BY <1>1, LockTypeInit, LockTypeStep, PTL

-----------------------------------------------------------------------------
(* Mutual exclusion. It is not inductive: that the next handler finds the   *)
(* lock taken depends on whoever is inside still having its key.            *)

KeyHeld == \A l \in Locks \ overrun : \A h \in Handlers : Inside(h, l) => l \in key

LockInv == LockTypeOK /\ KeyHeld /\ MutualExclusion

LEMMA LockInvInit == LockInit => LockInv
<1> SUFFICES ASSUME LockInit PROVE LockInv
    OBVIOUS
<1>1. \A h \in Handlers, l \in Locks : ~Inside(h, l)
      BY DEF LockInit, Outside, Inside
<1> QED BY <1>1, LockTypeInit DEF LockInv, KeyHeld, MutualExclusion

\* A handler that comes to be inside a lock was outside, and the lock had no key.
LEMMA LockInvStep == LockInv /\ [LockNext]_lockVars => LockInv'
<1> SUFFICES ASSUME LockInv, [LockNext]_lockVars
             PROVE  LockInv'
    OBVIOUS
<1>0. LockTypeOK'
      BY LockTypeStep DEF LockInv
<1> USE DEF LockInv, Inside
<1> SUFFICES KeyHeld' /\ MutualExclusion'
    BY <1>0
<1>1. ASSUME NEW h \in Handlers, NEW l \in Locks, Want(h, l)
      PROVE  KeyHeld' /\ MutualExclusion'
      BY <1>1 DEF Want, LockTypeOK, KeyHeld, MutualExclusion
<1>2. ASSUME NEW h \in Handlers, Acquire(h)
      PROVE  KeyHeld' /\ MutualExclusion'
  <2>1. \A l \in Locks, k \in Handlers : Inside(k, l)' =>
            Inside(k, l) \/ (k = h /\ l = locker[h].lock)
        BY <1>2 DEF Acquire, LockTypeOK
  <2>2. \A k \in Handlers : locker[h].lock \notin overrun => ~Inside(k, locker[h].lock)
        BY <1>2 DEF Acquire, LockTypeOK, KeyHeld
  <2>3. KeyHeld'
        BY <1>2, <2>1 DEF Acquire, KeyHeld
  <2>4. MutualExclusion'
        BY <1>2, <2>1, <2>2 DEF Acquire, MutualExclusion
  <2> QED BY <2>3, <2>4
<1>3. ASSUME NEW h \in Handlers, Miss(h)
      PROVE  KeyHeld' /\ MutualExclusion'
  <2>1. \A l \in Locks, k \in Handlers : Inside(k, l)' => Inside(k, l)
        BY <1>3 DEF Miss, LockTypeOK
  <2> QED BY <1>3, <2>1 DEF Miss, KeyHeld, MutualExclusion
<1>4. ASSUME NEW h \in Handlers, GiveUp(h)
      PROVE  KeyHeld' /\ MutualExclusion'
  <2>1. \A l \in Locks, k \in Handlers : Inside(k, l)' => Inside(k, l)
        BY <1>4 DEF GiveUp, LockTypeOK, Outside
  <2> QED BY <1>4, <2>1 DEF GiveUp, KeyHeld, MutualExclusion
<1>5. ASSUME NEW h \in Handlers, Release(h)
      PROVE  KeyHeld' /\ MutualExclusion'
  <2>1. \A l \in Locks, k \in Handlers : Inside(k, l)' => Inside(k, l) /\ k # h
        BY <1>5 DEF Release, LockTypeOK, Outside
  <2>2. MutualExclusion'
        BY <1>5, <2>1 DEF Release, MutualExclusion
  <2>3. ASSUME NEW l \in Locks \ overrun', NEW k \in Handlers, Inside(k, l)'
        PROVE  l \in key'
    <3>1. Inside(k, l) /\ k # h /\ l \in key
          BY <1>5, <2>1, <2>3 DEF Release, KeyHeld
    <3>2. l # locker[h].lock
          BY <1>5, <3>1 DEF Release, MutualExclusion
    <3> QED BY <1>5, <3>1, <3>2 DEF Release
  <2> QED BY <2>2, <2>3 DEF KeyHeld
<1>6. ASSUME NEW h \in Handlers, Abandon(h)
      PROVE  KeyHeld' /\ MutualExclusion'
  <2>1. \A l \in Locks, k \in Handlers : Inside(k, l)' => Inside(k, l)
        BY <1>6 DEF Abandon, LockTypeOK, Outside
  <2> QED BY <1>6, <2>1 DEF Abandon, KeyHeld, MutualExclusion
<1>7. ASSUME NEW l \in Locks, Expire(l)
      PROVE  KeyHeld' /\ MutualExclusion'
      BY <1>7 DEF Expire, KeyHeld, MutualExclusion
<1>8. ASSUME NEW l \in Locks, Outlast(l)
      PROVE  KeyHeld' /\ MutualExclusion'
      BY <1>8 DEF Outlast, KeyHeld, MutualExclusion
<1>9. CASE UNCHANGED lockVars
      BY <1>9 DEF lockVars, KeyHeld, MutualExclusion
<1> QED BY <1>1, <1>2, <1>3, <1>4, <1>5, <1>6, <1>7, <1>8, <1>9 DEF LockNext, Attempt

LEMMA LockInvHolds == LockSpec => []LockInv
<1>1. LockSpec => LockInit /\ [][LockNext]_lockVars
      BY DEF LockSpec
<1> QED BY <1>1, LockInvInit, LockInvStep, PTL

\* Two handlers never run under one lock while no operation has outlasted it,
\* whatever crashes, fails or is left behind.
THEOREM LockExcludes == LockSpec => []MutualExclusion
<1>1. LockInv => MutualExclusion
      BY DEF LockInv
<1> QED BY <1>1, LockInvHolds, PTL

-----------------------------------------------------------------------------
(* The lock implements Mutex                                               *)

LEMMA MutexInit == LockInit => M!Init
BY DEF LockInit, Outside, Inside, inside, M!Init

\* A step of the lock is a step into it, a step out of it, or neither.
LEMMA MutexStep == LockInv /\ [LockNext]_lockVars => [M!Next]_inside
<1> SUFFICES ASSUME LockInv, [LockNext]_lockVars
             PROVE  M!Next \/ inside' = inside
    OBVIOUS
<1> USE DEF LockInv
<1>a. ASSUME overrun' = overrun,
             \A h \in Handlers, l \in Locks : Inside(h, l)' <=> Inside(h, l)
      PROVE  inside' = inside
      BY <1>a DEF inside
\* Out of the lock, unless an operation has outlasted it.
<1>b. ASSUME NEW h \in Handlers, NEW l \in Locks, overrun' = overrun, Inside(h, l),
             \A k \in Handlers, m \in Locks :
                 Inside(k, m)' <=> Inside(k, m) /\ <<k, m>> # <<h, l>>
      PROVE  M!Next \/ inside' = inside
  <2>1. CASE l \in overrun
        BY <1>b, <2>1 DEF inside
  <2>2. CASE l \notin overrun
    <3>1. inside' = inside \ {<<h, l>>}
          BY <1>b, <2>2 DEF inside
    <3>2. <<h, l>> \in inside
          BY <1>b, <2>2 DEF inside
    <3> QED BY <3>1, <3>2 DEF M!Next, M!Exit
  <2> QED BY <2>1, <2>2
<1>1. ASSUME NEW h \in Handlers, NEW l \in Locks, Want(h, l)
      PROVE  M!Next \/ inside' = inside
      BY <1>1, <1>a DEF Want, LockTypeOK, Inside
<1>2. ASSUME NEW h \in Handlers, Acquire(h)
      PROVE  M!Next \/ inside' = inside
  <2> DEFINE l == locker[h].lock
  <2>1. l \in Locks /\ l \notin key /\ overrun' = overrun
        BY <1>2 DEF Acquire, LockTypeOK
  <2>2. \A k \in Handlers, m \in Locks :
            Inside(k, m)' <=> Inside(k, m) \/ <<k, m>> = <<h, l>>
        BY <1>2 DEF Acquire, LockTypeOK, Inside
  <2> HIDE DEF l
  <2>3. CASE l \in overrun
        BY <2>1, <2>2, <2>3 DEF inside
  <2>4. CASE l \notin overrun
    <3>1. inside' = inside \union {<<h, l>>}
          BY <2>1, <2>2, <2>4 DEF inside
    <3>2. \A k \in Handlers : <<k, l>> \notin inside
          BY <2>1, <2>4 DEF KeyHeld, inside
    <3> QED BY <2>1, <3>1, <3>2 DEF M!Next, M!Enter
  <2> QED BY <2>3, <2>4
<1>3. ASSUME NEW h \in Handlers, Miss(h)
      PROVE  M!Next \/ inside' = inside
  <2>1. \A k \in Handlers, l \in Locks : Inside(k, l)' <=> Inside(k, l)
        BY <1>3 DEF Miss, Missed, LockTypeOK, Inside
  <2> QED BY <1>3, <1>a, <2>1 DEF Miss
<1>4. ASSUME NEW h \in Handlers, GiveUp(h)
      PROVE  M!Next \/ inside' = inside
  <2>1. \A k \in Handlers, l \in Locks : Inside(k, l)' <=> Inside(k, l)
        BY <1>4 DEF GiveUp, Missed, LockTypeOK, Inside, Outside
  <2> QED BY <1>4, <1>a, <2>1 DEF GiveUp
<1>5. ASSUME NEW h \in Handlers, Release(h)
      PROVE  M!Next \/ inside' = inside
  <2>1. /\ locker[h].lock \in Locks
        /\ Inside(h, locker[h].lock)
        /\ \A k \in Handlers, m \in Locks :
               Inside(k, m)' <=> Inside(k, m) /\ <<k, m>> # <<h, locker[h].lock>>
        BY <1>5 DEF Release, LockTypeOK, Inside, Outside
  <2> QED BY <1>5, <1>b, <2>1 DEF Release
<1>6. ASSUME NEW h \in Handlers, Abandon(h)
      PROVE  M!Next \/ inside' = inside
  <2>1. CASE locker[h].pc = "in"
    <3>1. /\ locker[h].lock \in Locks
          /\ Inside(h, locker[h].lock)
          /\ \A k \in Handlers, m \in Locks :
                 Inside(k, m)' <=> Inside(k, m) /\ <<k, m>> # <<h, locker[h].lock>>
          BY <1>6, <2>1 DEF Abandon, LockTypeOK, Inside, Outside
    <3> QED BY <1>6, <1>b, <3>1 DEF Abandon
  <2>2. CASE locker[h].pc # "in"
    <3>1. \A k \in Handlers, l \in Locks : Inside(k, l)' <=> Inside(k, l)
          BY <1>6, <2>2 DEF Abandon, LockTypeOK, Inside, Outside
    <3> QED BY <1>6, <1>a, <3>1 DEF Abandon
  <2> QED BY <2>1, <2>2
<1>7. ASSUME NEW l \in Locks, Expire(l)
      PROVE  M!Next \/ inside' = inside
      BY <1>7, <1>a DEF Expire, Inside
<1>8. ASSUME NEW l \in Locks, Outlast(l)
      PROVE  M!Next \/ inside' = inside
  <2>1. PICK h \in Handlers : Inside(h, l)
        BY <1>8 DEF Outlast
  <2>2. \A k \in Handlers, m \in Locks : Inside(k, m)' <=> Inside(k, m)
        BY <1>8 DEF Outlast, Inside
  <2>3. overrun' = overrun \union {l}
        BY <1>8 DEF Outlast
  <2>4. CASE l \in overrun
        BY <2>2, <2>3, <2>4, <1>a
  <2>5. CASE l \notin overrun
    <3>1. \A k \in Handlers : Inside(k, l) => k = h
          BY <2>1, <2>5 DEF MutualExclusion
    <3>2. inside' = inside \ {<<h, l>>}
          BY <2>2, <2>3, <3>1 DEF inside
    <3>3. <<h, l>> \in inside
          BY <2>1, <2>5 DEF inside
    <3> QED BY <3>2, <3>3 DEF M!Next, M!Exit
  <2> QED BY <2>4, <2>5
<1>9. CASE UNCHANGED lockVars
      BY <1>9, <1>a DEF lockVars, Inside
<1> QED BY <1>1, <1>2, <1>3, <1>4, <1>5, <1>6, <1>7, <1>8, <1>9 DEF LockNext, Attempt

\* Every behaviour of the lock is, through who is inside and protected, a
\* behaviour of Mutex.
THEOREM LockImplementsMutex == LockSpec => Exclusive
<1>1. LockSpec => LockInit /\ [][LockNext]_lockVars
      BY DEF LockSpec
<1> QED BY <1>1, LockInvHolds, MutexInit, MutexStep, PTL DEF Exclusive, M!Spec

-----------------------------------------------------------------------------
(* What is known of a handler and of what it works with                    *)

\* A room is its lock, and a trouble a fault.
USE DEF Rooms, MaxTroubles

\* Points of a handler: under the lock of its room, and with a router in hand.
Locked == {"lookup", "create", "count", "unlock", "abort"}
Holding == {"count", "unlock", "make"}
Points == Locked \union {"idle", "lock", "make", "metric", "clean", "swept", "members", "fetch",
                         "drop", "evict", "keys", "join"}
Purposes == Kinds \union {"none", "caps", "call", "end", "gone", "join"}

RouterType == [id : Nat, pid : Nat]
TaskType == [pc : Points, kind : Purposes, user : Users \union {Nobody}, room : Rooms \union {Nowhere},
             at : RouterType, via : Nat, of : Nat, who : Users \union {Nobody},
             all : SUBSET Users, rest : SUBSET Users, seen : SUBSET Nat]
ThingType == [id : Nat, kind : Kinds, user : Users \union {Nobody}, room : Rooms, at : RouterType, of : Nat]

Sound(t) ==
    /\ t \in TaskType
    /\ t.pc = "idle" => t.kind = "none"
    /\ t.pc \in Locked \union {"lock"} => t.kind \in {"caps", "transport"}
    /\ t.pc \in Locked \union {"lock", "make", "join"} => t.room \in Rooms
    /\ t.pc \in {"make", "metric"} => t.kind \in Kinds
    /\ t.pc = "make" /\ t.kind = "producer" => t.of = 0
    /\ t.pc \in {"clean", "swept"} => t.kind \in {"call", "end", "gone"}
    /\ t.pc \in {"members", "fetch", "drop", "evict", "keys"} => t.kind \in {"end", "gone"}
    /\ t.pc = "join" => t.kind = "join"

Shapes ==
    /\ task = [h \in Handlers |-> task[h]] /\ \A h \in Handlers : Sound(task[h])
    /\ router \in [Rooms -> RouterType]
    /\ things \subseteq ThingType
    /\ ids \in Nat

Machines ==
    /\ workers \in [1 .. WorkerCount -> Nat \ {0}] /\ turn \in 1 .. WorkerCount
    /\ dead \subseteq Nat /\ IsFiniteSet(dead)
    /\ roomKey \in [Users -> Rooms \union {Nowhere}]
    /\ closing \subseteq Users \X SUBSET Rooms

\* Where a handler is, and how far it is with the lock of its room.
Fitting(t, l) ==
    /\ t.pc = "lock" => l.pc = "try" /\ l.lock = t.room
    /\ t.pc \in Locked => l.pc = "in" /\ l.lock = t.room

Locking == \A h \in Handlers : Fitting(task[h], locker[h])

\* A router is made for one room.
OnlyOf(at, room) ==
    /\ at.id \in 1 .. ids
    /\ \A r \in Rooms : router[r].id = at.id => r = room /\ router[r] = at

Numbered ==
    /\ open \subseteq 1 .. ids
    /\ \A r \in Rooms : router[r] = NoRouter \/ router[r].id \in 1 .. ids
    /\ \A r, q \in Rooms : router[r].id = router[q].id /\ router[r].id # 0 => r = q
    /\ \A t \in things : t.id \in 1 .. ids /\ OnlyOf(t.at, t.room) /\ (t.kind = "producer" => t.of = 0)
    /\ \A h \in Handlers : task[h].pc \in Holding => OnlyOf(task[h].at, task[h].room)

\* What a consumer consumes is there, on a router of the same number.
Offers(of, at) == \E p \in things : p.kind = "producer" /\ p.id = of /\ p.at.id = at.id

Expects(t) == t.pc = "create" => router[t.room] = NoRouter

Rests(t) ==
    t.pc \in Holding =>
        /\ router[t.room] = t.at
        /\ t.pc = "make" /\ t.kind = "consumer" => Offers(t.of, t.at)

Stands(t) == router[t.room] = t.at /\ (t.kind = "consumer" => Offers(t.of, t.at))

Attached ==
    /\ open \subseteq {router[r].id : r \in Rooms}
    /\ \A h \in Handlers : Expects(task[h]) /\ (h \notin raced => Rests(task[h]))
    /\ \A t \in things : t.id \notin late => Stands(t)

RInv == Shapes /\ Machines /\ LockInv /\ Locking /\ Numbered /\ (overrun = {} => Attached)

-----------------------------------------------------------------------------
(* Handlers and the lock                                                   *)

\* A fault elsewhere leaves the lock as it is.
LEMMA LockStays ==
    ASSUME LockInv, UNCHANGED <<key, locker, overrun>>, UNCHANGED faults \/ Fault
    PROVE  LockInv'
<1>1. faults \in 0 .. MaxTroubles /\ MaxTroubles \in Nat
    BY MediaAssumption, LockAssumption DEF LockInv, LockTypeOK
<1>2. faults' \in 0 .. MaxTroubles
    BY <1>1 DEF Fault
<1> QED
    BY <1>2 DEF LockInv, LockTypeOK, KeyHeld, MutualExclusion, Inside

\* While no lock was outlasted, a room has one handler under its lock.
LEMMA OneLocked ==
    ASSUME RInv, overrun = {}, NEW h \in Handlers, NEW k \in Handlers,
           task[h].pc \in Locked, task[k].pc \in Locked, task[h].room = task[k].room
    PROVE  h = k
<1>1. PICK r \in Rooms : r = task[h].room
    BY DEF RInv, Shapes, Sound
<1>2. Inside(h, r) /\ Inside(k, r)
    BY <1>1 DEF RInv, Locking, Fitting, Inside
<1> QED
    BY <1>2 DEF RInv, LockInv, MutualExclusion

LEMMA MachinesStay == ASSUME Machines, UNCHANGED <<workers, turn, dead, roomKey, closing>> PROVE Machines'
BY DEF Machines

\* A handler goes on, and leaves routers and Maps as they are.
LEMMA HandlerGoesOn ==
    ASSUME RInv, NEW h \in Handlers, NEW t, Sound(t), task' = [task EXCEPT ![h] = t],
           UNCHANGED <<router, open, things, ids, late>>, raced \ {h} \subseteq raced',
           Machines', LockInv', overrun \subseteq overrun',
           \A k \in Handlers : k # h => locker'[k] = locker[k],
           Fitting(t, locker'[h]),
           t.pc \in Holding => OnlyOf(t.at, t.room),
           overrun = {} => Expects(t) /\ (h \notin raced' => Rests(t))
    PROVE  RInv'
<1>1. task'[h] = t /\ \A k \in Handlers : k # h => task'[k] = task[k]
    BY DEF RInv, Shapes
<1>2. Shapes'
    BY <1>1 DEF RInv, Shapes, Sound
<1>3. Locking'
    BY <1>1 DEF RInv, Locking, Fitting
<1>4. Numbered'
    BY <1>1 DEF RInv, Numbered, OnlyOf
<1>5. ASSUME overrun' = {} PROVE Attached'
    <2>1. overrun = {}
        BY <1>5
    <2>2. ASSUME NEW k \in Handlers PROVE Expects(task[k])' /\ (k \notin raced' => Rests(task[k])')
        <3>1. CASE k = h
            BY <1>1, <2>1, <3>1 DEF Expects, Rests, Offers
        <3>2. CASE k # h
            BY <1>1, <2>1, <3>2 DEF RInv, Attached, Expects, Rests, Offers
        <3> QED
            BY <3>1, <3>2
    <2>3. (open \subseteq {router[r].id : r \in Rooms})' /\ \A u \in things' : u.id \notin late' => Stands(u)'
        BY <2>1 DEF RInv, Attached, Stands, Offers
    <2> QED
        BY <2>2, <2>3 DEF Attached
<1> QED
    BY <1>2, <1>3, <1>4, <1>5 DEF RInv

\* Nothing of all this changes.
LEMMA NothingMoves ==
    ASSUME RInv, UNCHANGED <<router, open, things, ids, late, raced, task>>,
           Machines', LockInv', overrun \subseteq overrun', UNCHANGED locker
    PROVE  RInv'
<1>1. Shapes' /\ Locking' /\ Numbered'
    BY DEF RInv, Shapes, Sound, Locking, Fitting, Numbered, OnlyOf
<1>2. overrun' = {} => Attached'
    BY DEF RInv, Attached, Expects, Rests, Stands, Offers
<1> QED
    BY <1>1, <1>2 DEF RInv

LEMMA TaskIsSound ==
    ASSUME RInv, NEW h \in Handlers PROVE Sound(task[h]) /\ task[h] \in TaskType
BY DEF RInv, Shapes, Sound

\* A handler at another point.
LEMMA Moves ==
    ASSUME NEW old \in TaskType, NEW p \in Points, NEW t, t = [old EXCEPT !.pc = p]
    PROVE  /\ t \in TaskType /\ t.pc = p /\ t.kind = old.kind /\ t.room = old.room /\ t.at = old.at
           /\ t.of = old.of /\ t.user = old.user /\ t.all = old.all /\ t.rest = old.rest /\ t.who = old.who
BY DEF TaskType

LEMMA Replaces ==
    ASSUME RInv, NEW h \in Handlers, NEW pc, NEW t, t = [task[h] EXCEPT !.pc = pc], Goto(h, pc)
    PROVE  task' = [task EXCEPT ![h] = t]
BY DEF Goto, RInv, Shapes

LEMMA NoRouterIsRouter == NoRouter \in RouterType /\ NoRouter.id = 0 /\ NoRouter.pid = 0
BY DEF NoRouter, RouterType

LEMMA IdleIsSound == Sound(Idle) /\ Idle.pc = "idle" /\ Idle.kind = "none"
<1>1. Idle \in TaskType /\ Idle.pc = "idle" /\ Idle.kind = "none"
    BY NoRouterIsRouter DEF Idle, TaskType, Points, Purposes
<1> QED
    BY <1>1 DEF Sound, Locked

-----------------------------------------------------------------------------
(* getRoomRouter                                                           *)

LEMMA AskRouterKeeps ==
    ASSUME RInv, NEW h \in Handlers, NEW kind, NEW u \in Users \union {Nobody}, NEW r \in Rooms,
           AskRouter(h, kind, u, r)
    PROVE  RInv'
<1>1. PICK t : t = [Idle EXCEPT !.pc = "lock", !.kind = kind, !.user = u, !.room = r]
    OBVIOUS
<1>2. /\ kind \in {"caps", "transport"} /\ task' = [task EXCEPT ![h] = t]
      /\ UNCHANGED <<router, open, things, ids, late, raced, workers, turn, dead, roomKey, closing, overrun>>
      /\ Want(h, r)
    BY <1>1 DEF AskRouter, Start, Want, mapVars, workerVars, socketVars
<1>3. t.pc = "lock" /\ t.room = r /\ Sound(t)
    <2>1. t.pc = "lock" /\ t.room = r /\ t.kind = kind /\ t \in TaskType
        BY <1>1, <1>2, NoRouterIsRouter DEF Idle, TaskType, Points, Purposes, Kinds
    <2> QED
        BY <1>2, <2>1 DEF Sound, Locked
<1>4. Machines'
    BY <1>2, MachinesStay DEF RInv
<1>5. LockInv'
    <2>1. LockNext
        BY <1>2 DEF LockNext, Want
    <2> QED
        BY <2>1, LockInvStep DEF RInv
<1>6. locker'[h] = [pc |-> "try", lock |-> r, tries |-> 0] /\ \A k \in Handlers : k # h => locker'[k] = locker[k]
    BY <1>2 DEF Want, RInv, LockInv, LockTypeOK
<1>7. Fitting(t, locker'[h])
    BY <1>3, <1>6 DEF Fitting, Locked
<1>8. t.pc \notin Holding /\ t.pc # "create"
    BY <1>3 DEF Holding
<1> QED
    BY <1>2, <1>3, <1>4, <1>5, <1>6, <1>7, <1>8, HandlerGoesOn DEF Expects, Rests

LEMMA GotLockKeeps == ASSUME RInv, NEW h \in Handlers, GotLock(h) PROVE RInv'
<1>1. /\ task[h].pc = "lock" /\ Goto(h, "lookup") /\ Acquire(h)
      /\ UNCHANGED <<router, open, things, ids, late, raced, workers, turn, dead, roomKey, closing, overrun>>
    BY DEF GotLock, Acquire, mapVars, workerVars, socketVars, history
<1>2. PICK old \in TaskType : old = task[h] /\ Sound(old)
    BY TaskIsSound
<1>3. PICK t : t = [old EXCEPT !.pc = "lookup"]
    OBVIOUS
<1>4. t \in TaskType /\ t.pc = "lookup" /\ t.kind = old.kind /\ t.room = old.room
    BY <1>3, Moves DEF Points, Locked
<1>5. task' = [task EXCEPT ![h] = t]
    BY <1>1, <1>2, <1>3, Replaces
<1>6. Sound(t)
    BY <1>1, <1>2, <1>4 DEF Sound, Locked
<1>7. LockInv'
    <2>1. LockNext
        BY <1>1 DEF LockNext, Attempt, Acquire
    <2> QED
        BY <2>1, LockInvStep DEF RInv
<1>8. /\ locker'[h].pc = "in" /\ locker'[h].lock = locker[h].lock
      /\ \A k \in Handlers : k # h => locker'[k] = locker[k]
    BY <1>1 DEF Acquire, RInv, LockInv, LockTypeOK
<1>9. Fitting(t, locker'[h])
    BY <1>1, <1>2, <1>4, <1>8 DEF Fitting, RInv, Locking
<1>10. t.pc \notin Holding /\ t.pc # "create"
    BY <1>4 DEF Holding
<1>11. Machines'
    BY <1>1, MachinesStay DEF RInv
<1> QED
    BY <1>1, <1>5, <1>6, <1>7, <1>8, <1>9, <1>10, <1>11, HandlerGoesOn DEF Expects, Rests

\* A handler that has no lock, nor router, any more.
LEMMA FinishKeeps ==
    ASSUME RInv, NEW h \in Handlers, Finish(h), raced \ {h} \subseteq raced',
           UNCHANGED <<router, open, things, ids, late, overrun>>, Machines', LockInv',
           \A k \in Handlers : k # h => locker'[k] = locker[k]
    PROVE  RInv'
<1>1. PICK t : t = Idle
    OBVIOUS
<1>2. Sound(t) /\ t.pc = "idle" /\ task' = [task EXCEPT ![h] = t]
    BY <1>1, IdleIsSound DEF Finish
<1>3. t.pc \notin Holding /\ t.pc # "create" /\ t.pc \notin Locked /\ t.pc # "lock"
    BY <1>2 DEF Holding, Locked
<1>4. Fitting(t, locker'[h])
    BY <1>3 DEF Fitting
<1> QED
    BY <1>2, <1>3, <1>4, HandlerGoesOn DEF Expects, Rests

LEMMA NoLockKeeps == ASSUME RInv, NEW h \in Handlers, LockMissed(h) PROVE RInv'
<1>1. /\ task[h].pc = "lock"
      /\ UNCHANGED <<router, open, things, ids, late, raced, workers, turn, dead, roomKey, closing>>
    BY DEF LockMissed, mapVars, workerVars, socketVars, history
<1>2. Machines'
    BY <1>1, MachinesStay DEF RInv
<1>3. CASE Miss(h) /\ UNCHANGED task
    <2>1. LockInv'
        <3>1. LockNext
            BY <1>3 DEF LockNext, Attempt, Miss, Missed, Fault
        <3> QED
            BY <3>1, LockInvStep DEF RInv
    <2>2. /\ locker'[h].pc = locker[h].pc /\ locker'[h].lock = locker[h].lock /\ UNCHANGED overrun
          /\ \A k \in Handlers : k # h => locker'[k] = locker[k]
        BY <1>3 DEF Miss, RInv, LockInv, LockTypeOK
    <2>3. PICK t : t = task[h]
        OBVIOUS
    <2>4. Sound(t) /\ task' = [task EXCEPT ![h] = t] /\ t.pc = "lock"
        BY <1>1, <1>3, <2>3, TaskIsSound DEF RInv, Shapes
    <2>5. Fitting(t, locker'[h])
        BY <2>2, <2>3 DEF RInv, Locking, Fitting
    <2>6. t.pc \notin Holding /\ t.pc # "create"
        BY <2>4 DEF Holding
    <2> QED
        BY <1>1, <1>2, <2>1, <2>2, <2>4, <2>5, <2>6, HandlerGoesOn DEF Expects, Rests
<1>4. CASE GiveUp(h) /\ Finish(h)
    <2>1. LockInv'
        <3>1. LockNext
            BY <1>4 DEF LockNext, Attempt, GiveUp, Missed, Fault, Outside, NoLock
        <3> QED
            BY <3>1, LockInvStep DEF RInv
    <2>2. UNCHANGED overrun /\ \A k \in Handlers : k # h => locker'[k] = locker[k]
        BY <1>4 DEF GiveUp, RInv, LockInv, LockTypeOK
    <2> QED
        BY <1>1, <1>2, <1>4, <2>1, <2>2, FinishKeeps
<1> QED
    BY <1>3, <1>4 DEF LockMissed

\* A handler under the lock goes on, and keeps it.
LEMMA LockedGoesOn ==
    ASSUME RInv, NEW h \in Handlers, task[h].pc \in Locked, NEW t, Sound(t), t.pc \in Locked,
           t.room = task[h].room, task' = [task EXCEPT ![h] = t],
           UNCHANGED <<router, open, things, ids, late, raced, key, locker, overrun>>,
           UNCHANGED faults \/ Fault, Machines',
           t.pc \in Holding => OnlyOf(t.at, t.room),
           overrun = {} => Expects(t) /\ (h \notin raced => Rests(t))
    PROVE  RInv'
<1>1. LockInv'
    BY LockStays DEF RInv
<1>2. Fitting(t, locker'[h])
    BY DEF Fitting, RInv, Locking, Locked
<1> QED
    BY <1>1, <1>2, HandlerGoesOn

LEMMA FoundKeeps == ASSUME RInv, NEW h \in Handlers, Found(h) PROVE RInv'
<1>1. /\ task[h].pc = "lookup" /\ router[task[h].room] # NoRouter
      /\ UNCHANGED <<router, open, things, ids, late, raced, key, locker, overrun, faults>>
      /\ UNCHANGED <<workers, turn, dead, roomKey, closing>>
    BY DEF Found, mapVars, workerVars, socketVars, lockVars, history
<1>2. PICK old \in TaskType, r \in Rooms : old = task[h] /\ r = old.room
    BY <1>1, TaskIsSound DEF Sound, Locked
<1>3. PICK at \in RouterType : at = router[r]
    BY DEF RInv, Shapes
<1>4. PICK t : t = [old EXCEPT !.pc = "unlock", !.at = at]
    OBVIOUS
<1>5. t \in TaskType /\ t.pc = "unlock" /\ t.at = at /\ t.room = r /\ t.kind = old.kind
    BY <1>2, <1>4 DEF TaskType, Points, Locked
<1>6. Sound(t)
    BY <1>1, <1>2, <1>5, TaskIsSound DEF Sound, Locked
<1>7. task' = [task EXCEPT ![h] = t]
    BY <1>2, <1>3, <1>4 DEF Found, RInv, Shapes
<1>8. OnlyOf(at, r)
    <2>1. at.id \in 1 .. ids /\ at.id # 0
        BY <1>1, <1>2, <1>3 DEF RInv, Numbered, Shapes
    <2> QED
        BY <1>3, <2>1 DEF RInv, Numbered, OnlyOf
<1>9. Machines'
    BY <1>1, MachinesStay DEF RInv
<1>10. Expects(t) /\ Rests(t)
    BY <1>3, <1>5 DEF Expects, Rests
<1> QED
    BY <1>1, <1>2, <1>5, <1>6, <1>7, <1>8, <1>9, <1>10, LockedGoesOn DEF Locked

LEMMA SelectWorkerKeeps == ASSUME RInv, NEW h \in Handlers, SelectWorker(h) PROVE RInv'
<1>1. /\ task[h].pc = "lookup" /\ router[task[h].room] = NoRouter /\ turn' = (turn % WorkerCount) + 1
      /\ UNCHANGED <<router, open, things, ids, late, raced, key, locker, overrun, faults>>
      /\ UNCHANGED <<workers, dead, roomKey, closing>>
    BY DEF SelectWorker, mapVars, socketVars, lockVars, history
<1>2. PICK old \in TaskType, r \in Rooms : old = task[h] /\ r = old.room
    BY <1>1, TaskIsSound DEF Sound, Locked
<1>3. WorkerCount \in Nat /\ WorkerCount # 0 /\ turn \in 1 .. WorkerCount
    BY MediaAssumption, LockAssumption DEF RInv, Machines
<1>4. PICK at \in RouterType : at = [id |-> 0, pid |-> workers[turn]]
    BY <1>3 DEF RInv, Machines, RouterType
<1>5. PICK t : t = [old EXCEPT !.pc = "create", !.at = at]
    OBVIOUS
<1>6. t \in TaskType /\ t.pc = "create" /\ t.room = r /\ t.kind = old.kind
    BY <1>2, <1>5 DEF TaskType, Points, Locked
<1>7. Sound(t)
    BY <1>1, <1>2, <1>6, TaskIsSound DEF Sound, Locked
<1>8. task' = [task EXCEPT ![h] = t]
    BY <1>2, <1>4, <1>5 DEF SelectWorker, RInv, Shapes
<1>9. Machines'
    <2>1. turn' \in 1 .. WorkerCount
        BY <1>1, <1>3
    <2> QED
        BY <1>1, <2>1 DEF RInv, Machines
<1>10. Expects(t) /\ t.pc \notin Holding
    BY <1>1, <1>2, <1>6 DEF Expects, Holding
<1> QED
    BY <1>1, <1>2, <1>6, <1>7, <1>8, <1>9, <1>10, LockedGoesOn DEF Locked, Rests
LEMMA LockedMoves ==
    ASSUME RInv, NEW h \in Handlers, task[h].pc \in Locked, NEW p, Goto(h, p),
           p = "abort" \/ (p = "unlock" /\ task[h].pc = "count"),
           UNCHANGED <<router, open, things, ids, late, raced, key, locker, overrun>>,
           UNCHANGED <<workers, turn, dead, roomKey, closing>>, UNCHANGED faults \/ Fault
    PROVE  RInv'
<1>1. PICK old \in TaskType : old = task[h] /\ Sound(old)
    BY TaskIsSound
<1>2. PICK t : t = [old EXCEPT !.pc = p]
    OBVIOUS
<1>3. p \in Points /\ p \in Locked
    BY DEF Points, Locked
<1>4. t \in TaskType /\ t.pc = p /\ t.kind = old.kind /\ t.room = old.room /\ t.at = old.at
    BY <1>2, <1>3, Moves
<1>5. task' = [task EXCEPT ![h] = t]
    BY <1>1, <1>2, Replaces
<1>6. Sound(t)
    BY <1>1, <1>4 DEF Sound, Locked
<1>7. Machines'
    BY MachinesStay DEF RInv
<1>8. t.pc \in Holding => OnlyOf(t.at, t.room)
    BY <1>1, <1>4 DEF Holding, RInv, Numbered
<1>9. overrun = {} => Expects(t) /\ (h \notin raced => Rests(t))
    BY <1>1, <1>4 DEF Holding, RInv, Attached, Expects, Rests
<1> QED
    BY <1>1, <1>3, <1>4, <1>5, <1>6, <1>7, <1>8, <1>9, LockedGoesOn

LEMMA RouterFailsKeeps == ASSUME RInv, NEW h \in Handlers, RouterFails(h) PROVE RInv'
BY LockedMoves DEF RouterFails, mapVars, workerVars, socketVars, history, Locked

LEMMA CreateFailsKeeps == ASSUME RInv, NEW h \in Handlers, CreateFails(h) PROVE RInv'
BY LockedMoves DEF CreateFails, mapVars, workerVars, socketVars, lockVars, history, Locked

LEMMA CountRoomKeeps == ASSUME RInv, NEW h \in Handlers, CountRoom(h) PROVE RInv'
BY LockedMoves DEF CountRoom, workerVars, socketVars, lockVars, history, Locked

\* The new router has a number of its own, and the room had none.
LEMMA CreateRouterKeeps == ASSUME RInv, NEW h \in Handlers, CreateRouter(h) PROVE RInv'
<1>1. /\ task[h].pc = "create" /\ ids' = ids + 1
      /\ UNCHANGED <<things, late, raced, key, locker, overrun, faults>>
      /\ UNCHANGED <<workers, turn, dead, roomKey, closing>>
    BY DEF CreateRouter, workerVars, socketVars, lockVars, history
<1>2. PICK old \in TaskType, r \in Rooms : old = task[h] /\ r = old.room /\ Sound(old)
    BY <1>1, TaskIsSound DEF Sound, Locked
<1>3. PICK new : new = [old.at EXCEPT !.id = ids + 1]
    OBVIOUS
<1>4. PICK t : t = [old EXCEPT !.pc = "count", !.at = new]
    OBVIOUS
<1>5. /\ router' = [router EXCEPT ![r] = new] /\ open' = open \union {new.id}
      /\ task' = [task EXCEPT ![h] = t]
    BY <1>2, <1>3, <1>4 DEF CreateRouter, RInv, Shapes
<1>6. new \in RouterType /\ new.id = ids + 1 /\ ids \in Nat
    BY <1>2, <1>3 DEF RInv, Shapes, TaskType, RouterType
<1>7. t \in TaskType /\ t.pc = "count" /\ t.room = r /\ t.kind = old.kind /\ t.at = new
    BY <1>2, <1>4, <1>6 DEF TaskType, Points, Locked
<1>8. Sound(t)
    BY <1>1, <1>2, <1>7 DEF Sound, Locked
<1>9. task'[h] = t /\ \A k \in Handlers : k # h => task'[k] = task[k]
    BY <1>5 DEF RInv, Shapes
<1>10. router'[r] = new /\ \A q \in Rooms : q # r => router'[q] = router[q]
    BY <1>5 DEF RInv, Shapes
<1>11. Shapes'
    BY <1>1, <1>5, <1>6, <1>8, <1>9 DEF RInv, Shapes, Sound
<1>12. LockInv' /\ Machines'
    BY <1>1, LockStays, MachinesStay DEF RInv
<1>13. Locking'
    BY <1>1, <1>2, <1>7, <1>9 DEF RInv, Locking, Fitting, Locked
<1>14. ASSUME NEW at, NEW room, OnlyOf(at, room) PROVE OnlyOf(at, room)'
    BY <1>1, <1>6, <1>10, <1>14 DEF OnlyOf
<1>15. \A q \in Rooms : router[q].id \in 0 .. ids
    BY <1>6, NoRouterIsRouter DEF RInv, Numbered
<1>16. OnlyOf(new, r)'
    BY <1>1, <1>6, <1>10, <1>15 DEF OnlyOf
<1>17. Numbered'
    <2>1. (open \subseteq 1 .. ids)'
        BY <1>1, <1>5, <1>6 DEF RInv, Numbered
    <2>2. (\A q \in Rooms : router[q] = NoRouter \/ router[q].id \in 1 .. ids)'
        BY <1>1, <1>6, <1>10 DEF RInv, Numbered
    <2>3. (\A p, q \in Rooms : router[p].id = router[q].id /\ router[p].id # 0 => p = q)'
        BY <1>6, <1>10, <1>15 DEF RInv, Numbered
    <2>4. (\A w \in things : w.id \in 1 .. ids /\ OnlyOf(w.at, w.room) /\ (w.kind = "producer" => w.of = 0))'
        BY <1>1, <1>6, <1>14 DEF RInv, Numbered
    <2>5. (\A k \in Handlers : task[k].pc \in Holding => OnlyOf(task[k].at, task[k].room))'
        BY <1>7, <1>9, <1>14, <1>16 DEF RInv, Numbered
    <2> QED
        BY <2>1, <2>2, <2>3, <2>4, <2>5 DEF Numbered
<1>18. ASSUME overrun' = {} PROVE Attached'
    <2>1. overrun = {} /\ Attached
        BY <1>1, <1>18 DEF RInv
    <2>2. router[r] = NoRouter
        BY <1>1, <1>2, <2>1 DEF Attached, Expects
    <2>3. (open \subseteq {router[q].id : q \in Rooms})'
        BY <1>5, <1>6, <1>10, <2>1, <2>2, NoRouterIsRouter DEF Attached, RInv, Numbered
    <2>4. ASSUME NEW k \in Handlers PROVE Expects(task[k])' /\ (k \notin raced' => Rests(task[k])')
        <3>1. CASE k = h
            BY <1>7, <1>9, <1>10, <3>1 DEF Expects, Rests
        <3>2. CASE k # h
            <4>1. task[k].pc = "create" => task[k].room # r
                BY <1>1, <1>2, <2>1, <3>2, OneLocked DEF Locked
            <4>2. task[k].pc \in Holding => task[k].at.id # 0
                BY DEF RInv, Numbered, OnlyOf
            <4>3. Sound(task[k]) /\ Expects(task[k]) /\ (k \notin raced => Rests(task[k]))
                BY <2>1, TaskIsSound DEF Attached
            <4>4. Expects(task[k])'
                BY <1>9, <1>10, <3>2, <4>1, <4>3 DEF Expects, Sound, Locked
            <4>5. k \notin raced' => Rests(task[k])'
                BY <1>1, <1>9, <1>10, <2>2, <3>2, <4>2, <4>3, NoRouterIsRouter
                DEF Rests, Offers, Holding, Sound, Locked
            <4> QED
                BY <4>4, <4>5
        <3> QED
            BY <3>1, <3>2
    <2>5. ASSUME NEW w \in things, w.id \notin late PROVE Stands(w)'
        <3>1. Stands(w) /\ w.at.id # 0 /\ w.room \in Rooms
            BY <2>1, <2>5 DEF Attached, RInv, Numbered, OnlyOf, Shapes, ThingType
        <3> QED
            BY <1>1, <1>10, <2>2, <3>1, NoRouterIsRouter DEF Stands, Offers
    <2> QED
        BY <1>1, <2>3, <2>4, <2>5 DEF Attached
<1> QED
    BY <1>11, <1>12, <1>13, <1>17, <1>18 DEF RInv

LEMMA UnlockKeeps == ASSUME RInv, NEW h \in Handlers, Unlock(h) PROVE RInv'
<1>1. /\ task[h].pc \in {"unlock", "abort"} /\ (Release(h) \/ Abandon(h))
      /\ UNCHANGED <<router, open, things, ids, late, workers, turn, dead, roomKey, closing>>
    BY DEF Unlock, mapVars, workerVars, socketVars
<1>2. LockInv'
    <2>1. LockNext
        BY <1>1 DEF LockNext, Release, Abandon, Fault, Outside, NoLock
    <2> QED
        BY <2>1, LockInvStep DEF RInv
<1>3. UNCHANGED overrun /\ \A k \in Handlers : k # h => locker'[k] = locker[k]
    BY <1>1 DEF Release, Abandon, RInv, LockInv, LockTypeOK
<1>4. Machines'
    BY <1>1, MachinesStay DEF RInv
<1>5. CASE task[h].pc = "unlock" /\ task[h].kind = "transport" /\ Goto(h, "make") /\ UNCHANGED raced
    <2>1. PICK old \in TaskType : old = task[h] /\ Sound(old)
        BY TaskIsSound
    <2>2. PICK t : t = [old EXCEPT !.pc = "make"]
        OBVIOUS
    <2>3. t \in TaskType /\ t.pc = "make" /\ t.kind = "transport" /\ t.room = old.room /\ t.at = old.at
        BY <1>5, <2>1, <2>2, Moves DEF Points
    <2>4. task' = [task EXCEPT ![h] = t]
        BY <1>5, <2>1, <2>2, Replaces
    <2>5. Sound(t)
        BY <1>5, <2>1, <2>3 DEF Sound, Locked, Kinds
    <2>6. OnlyOf(t.at, t.room)
        BY <1>5, <2>1, <2>3 DEF RInv, Numbered, Holding
    <2>7. overrun = {} => Expects(t) /\ (h \notin raced' => Rests(t))
        BY <1>5, <2>1, <2>3 DEF RInv, Attached, Expects, Rests, Holding
    <2>8. Fitting(t, locker'[h])
        BY <2>3 DEF Fitting, Locked
    <2> QED
        BY <1>1, <1>2, <1>3, <1>4, <1>5, <2>4, <2>5, <2>6, <2>7, <2>8, HandlerGoesOn
<1>6. CASE Finish(h) /\ raced' = raced \ {h}
    BY <1>1, <1>2, <1>3, <1>4, <1>6, FinishKeeps
<1> QED
    BY <1>5, <1>6 DEF Unlock
-----------------------------------------------------------------------------
(* Transports, producers and consumers                                     *)

\* A handler away from locks and routers, with nothing left to count.
Unguarded == Points \ (Locked \union Holding \union {"lock", "metric"})

\* A handler goes on away from the locks.
LEMMA GoesFree ==
    ASSUME RInv, NEW h \in Handlers, NEW t, Sound(t), t.pc \in Unguarded,
           task' = [task EXCEPT ![h] = t], Machines',
           UNCHANGED <<router, open, things, ids, late, raced, key, locker, overrun>>,
           UNCHANGED faults \/ Fault
    PROVE  RInv'
<1>1. LockInv'
    BY LockStays DEF RInv
<1>2. t.pc \notin Holding /\ t.pc \notin Locked /\ t.pc # "lock" /\ t.pc # "create"
    BY DEF Unguarded, Locked
<1>3. Fitting(t, locker'[h])
    BY <1>2 DEF Fitting
<1> QED
    BY <1>1, <1>2, <1>3, HandlerGoesOn DEF Expects, Rests

\* A handler starts to make something on a router.
LEMMA StartsToMake ==
    ASSUME RInv, NEW h \in Handlers, NEW t, Sound(t), t.pc = "make",
           task' = [task EXCEPT ![h] = t], OnlyOf(t.at, t.room),
           overrun = {} => Rests(t),
           UNCHANGED <<router, open, things, ids, late, raced, key, locker, overrun, faults>>,
           UNCHANGED <<workers, turn, dead, roomKey, closing>>
    PROVE  RInv'
<1>1. LockInv' /\ Machines'
    BY LockStays, MachinesStay DEF RInv
<1>2. Fitting(t, locker'[h]) /\ Expects(t)
    BY DEF Fitting, Locked, Expects
<1> QED
    BY <1>1, <1>2, HandlerGoesOn

\* The router of a number that is open is the room's.
LEMMA OpenIsOwn ==
    ASSUME RInv, overrun = {}, NEW at, NEW room, OnlyOf(at, room), at.id \in open
    PROVE  router[room] = at
BY DEF RInv, Attached, OnlyOf

LEMMA ProduceKeeps ==
    ASSUME RInv, NEW h \in Handlers, NEW u \in Users, NEW t \in things, Produce(h, u, t) PROVE RInv'
<1>1. t.at.id \in open /\ t \in ThingType /\ OnlyOf(t.at, t.room)
    BY DEF Produce, RInv, Numbered, Shapes
<1>2. PICK s : s = [Idle EXCEPT !.pc = "make", !.kind = "producer", !.user = u, !.room = t.room,
                                !.at = t.at, !.via = t.id]
    OBVIOUS
<1>3. /\ task' = [task EXCEPT ![h] = s] /\ UNCHANGED <<raced, late>>
      /\ UNCHANGED <<router, open, things, ids, key, locker, overrun, faults>>
      /\ UNCHANGED <<workers, turn, dead, roomKey, closing>>
    BY <1>2 DEF Produce, Start, mapVars, workerVars, socketVars, lockVars
<1>4. s \in TaskType /\ s.pc = "make" /\ s.kind = "producer" /\ s.room = t.room /\ s.at = t.at /\ s.of = 0
    BY <1>1, <1>2 DEF Idle, TaskType, ThingType, Points, Purposes, Kinds
<1>5. Sound(s)
    BY <1>1, <1>4 DEF Sound, Locked, Kinds, ThingType
<1>6. overrun = {} => Rests(s)
    BY <1>1, <1>4, OpenIsOwn DEF Rests
<1> QED
    BY <1>1, <1>3, <1>4, <1>5, <1>6, StartsToMake

LEMMA ConsumeKeeps ==
    ASSUME RInv, NEW h \in Handlers, NEW u \in Users, NEW t \in things, NEW p \in things,
           Consume(h, u, t, p)
    PROVE  RInv'
<1>1. /\ p.kind = "producer" /\ p.at.id = t.at.id /\ p.at.id \in open /\ p.at = router[p.room]
      /\ t \in ThingType /\ p \in ThingType /\ OnlyOf(t.at, t.room) /\ OnlyOf(p.at, p.room)
    BY DEF Consume, Consumable, CanConsume, RInv, Numbered, Shapes
<1>2. p.room = t.room /\ OnlyOf(t.at, p.room)
    BY <1>1 DEF OnlyOf, ThingType
<1>3. PICK s : s = [Idle EXCEPT !.pc = "make", !.kind = "consumer", !.user = u, !.room = p.room,
                                !.at = t.at, !.via = t.id, !.of = p.id]
    OBVIOUS
<1>4. /\ task' = [task EXCEPT ![h] = s] /\ UNCHANGED <<raced, late>>
      /\ UNCHANGED <<router, open, things, ids, key, locker, overrun, faults>>
      /\ UNCHANGED <<workers, turn, dead, roomKey, closing>>
    BY <1>3 DEF Consume, Start, mapVars, workerVars, socketVars, lockVars
<1>5. s \in TaskType /\ s.pc = "make" /\ s.kind = "consumer" /\ s.room = p.room /\ s.at = t.at /\ s.of = p.id
    BY <1>1, <1>3 DEF Idle, TaskType, ThingType, Points, Purposes, Kinds
<1>6. Sound(s)
    BY <1>1, <1>5 DEF Sound, Locked, Kinds, ThingType
<1>7. overrun = {} => Rests(s)
    BY <1>1, <1>2, <1>5, OpenIsOwn DEF Rests, Offers
<1> QED
    BY <1>2, <1>4, <1>5, <1>6, <1>7, StartsToMake

\* The entry made is on the router its handler works with.
LEMMA MadeKeeps == ASSUME RInv, NEW h \in Handlers, Made(h) PROVE RInv'
<1>1. PICK old \in TaskType : old = task[h] /\ Sound(old) /\ old.pc = "make" /\ old.kind \in Kinds
    BY TaskIsSound DEF Made, Sound
<1>2. PICK w : w = [id |-> ids + 1, kind |-> old.kind, user |-> old.user, room |-> old.room,
                    at |-> old.at, of |-> old.of]
    OBVIOUS
<1>3. PICK t : t = [old EXCEPT !.pc = "metric"]
    OBVIOUS
<1>4. /\ things' = things \union {w} /\ ids' = ids + 1 /\ ids \in Nat
      /\ late' = (IF h \in raced THEN late \union {ids + 1} ELSE late)
      /\ raced' = raced \ {h}
      /\ UNCHANGED <<router, open, key, locker, overrun, faults>>
      /\ UNCHANGED <<workers, turn, dead, roomKey, closing>>
    BY <1>1, <1>2 DEF Made, RInv, Shapes, workerVars, socketVars, lockVars
<1>5. task' = [task EXCEPT ![h] = t]
    BY <1>1, <1>3, Replaces DEF Made
<1>6. t \in TaskType /\ t.pc = "metric" /\ t.kind = old.kind
    BY <1>1, <1>3, Moves DEF Points
<1>7. Sound(t)
    BY <1>1, <1>6 DEF Sound, Locked
<1>8. w \in ThingType /\ w.at = old.at /\ w.room = old.room /\ w.kind = old.kind /\ w.of = old.of /\ w.id = ids + 1
    BY <1>1, <1>2, <1>4 DEF TaskType, ThingType, Sound
<1>9. task'[h] = t /\ \A k \in Handlers : k # h => task'[k] = task[k]
    BY <1>5 DEF RInv, Shapes
<1>10. Shapes'
    BY <1>4, <1>5, <1>7, <1>8, <1>9 DEF RInv, Shapes, Sound
<1>11. LockInv' /\ Machines'
    BY <1>4, LockStays, MachinesStay DEF RInv
<1>12. Locking'
    BY <1>4, <1>6, <1>9 DEF RInv, Locking, Fitting, Locked
<1>13. Numbered'
    <2>1. ASSUME NEW at, NEW room, OnlyOf(at, room) PROVE OnlyOf(at, room)'
        BY <1>4, <2>1 DEF OnlyOf
    <2>2. OnlyOf(w.at, w.room) /\ (w.kind = "producer" => w.of = 0)
        BY <1>1, <1>8 DEF RInv, Numbered, Holding, Sound
    <2>3. (\A v \in things : v.id \in 1 .. ids /\ OnlyOf(v.at, v.room) /\ (v.kind = "producer" => v.of = 0))'
        BY <1>4, <1>8, <2>1, <2>2 DEF RInv, Numbered
    <2>4. (\A k \in Handlers : task[k].pc \in Holding => OnlyOf(task[k].at, task[k].room))'
        BY <1>6, <1>9, <2>1 DEF RInv, Numbered, Holding
    <2> QED
        BY <1>4, <2>3, <2>4 DEF RInv, Numbered
<1>14. ASSUME overrun' = {} PROVE Attached'
    <2>1. overrun = {} /\ Attached
        BY <1>4, <1>14 DEF RInv
    <2>2. ASSUME NEW k \in Handlers PROVE Expects(task[k])' /\ (k \notin raced' => Rests(task[k])')
        <3>1. CASE k = h
            BY <1>6, <1>9, <3>1 DEF Expects, Rests, Holding
        <3>2. CASE k # h
            <4>1. Expects(task[k]) /\ (k \notin raced => Rests(task[k]))
                BY <2>1 DEF Attached
            <4> QED
                BY <1>4, <1>9, <3>2, <4>1 DEF Expects, Rests, Offers
        <3> QED
            BY <3>1, <3>2
    <2>3. ASSUME NEW v \in things, v.id \notin late PROVE Stands(v)'
        <3>1. Stands(v)
            BY <2>1, <2>3 DEF Attached
        <3> QED
            BY <1>4, <3>1 DEF Stands, Offers
    <2>4. w.id \notin late' => Stands(w)'
        <3>1. ASSUME w.id \notin late' PROVE h \notin raced
            BY <1>4, <1>8, <3>1
        <3>2. ASSUME h \notin raced PROVE Rests(old)
            BY <1>1, <2>1, <3>2 DEF Attached
        <3>3. Rests(old) => Stands(w)
            BY <1>1, <1>8 DEF Rests, Stands, Holding
        <3>4. Stands(w) => Stands(w)'
            BY <1>4 DEF Stands, Offers
        <3> QED
            BY <3>1, <3>2, <3>3, <3>4
    <2>5. \A v \in things' : v.id \notin late' => Stands(v)'
        BY <1>4, <2>3, <2>4
    <2>6. (open \subseteq {router[q].id : q \in Rooms})'
        BY <1>4, <2>1 DEF Attached
    <2> QED
        BY <2>2, <2>5, <2>6 DEF Attached
<1> QED
    BY <1>10, <1>11, <1>12, <1>13, <1>14 DEF RInv

LEMMA MakeFailsKeeps == ASSUME RInv, NEW h \in Handlers, MakeFails(h) PROVE RInv'
<1>1. /\ Finish(h) /\ raced' = raced \ {h} /\ UNCHANGED <<router, open, things, ids, late>>
      /\ UNCHANGED <<key, locker, overrun, faults>> /\ UNCHANGED <<workers, turn, dead, roomKey, closing>>
    BY DEF MakeFails, mapVars, workerVars, socketVars, lockVars
<1>2. LockInv' /\ Machines'
    BY <1>1, LockStays, MachinesStay DEF RInv
<1> QED
    BY <1>1, <1>2, FinishKeeps

LEMMA CountMadeKeeps == ASSUME RInv, NEW h \in Handlers, CountMade(h) PROVE RInv'
<1>1. /\ Finish(h) /\ UNCHANGED <<router, open, things, ids, late, raced>>
      /\ UNCHANGED <<key, locker, overrun>> /\ (UNCHANGED faults \/ Fault)
      /\ UNCHANGED <<workers, turn, dead, roomKey, closing>>
    BY DEF CountMade, workerVars, socketVars, history
<1>2. LockInv' /\ Machines'
    BY <1>1, LockStays, MachinesStay DEF RInv
<1> QED
    BY <1>1, <1>2, FinishKeeps
-----------------------------------------------------------------------------
(* Coming and going                                                        *)

\* Handlers that leave away from the locks, and those who come.
Ways == {"clean", "swept", "members", "fetch", "drop", "evict", "keys", "join"}

LEMMA WaysAreFree == Ways \subseteq Unguarded
BY DEF Ways, Unguarded, Points, Locked, Holding

\* A handler that leaves is not the one that joins.
LEMMA LeavesSoundly ==
    ASSUME NEW t \in TaskType, t.kind \in {"call", "end", "gone"},
           t.pc \in {"clean", "swept"} \/ (t.pc \in {"members", "fetch", "drop", "evict", "keys"} /\ t.kind # "call")
    PROVE  Sound(t) /\ t.pc \in Unguarded
<1>1. t.pc \in Ways
    BY DEF Ways
<1>2. Sound(t)
    BY DEF Sound, Locked, Kinds
<1> QED
    BY <1>1, <1>2, WaysAreFree

LEMMA EndCallKeeps ==
    ASSUME RInv, NEW h \in Handlers, NEW u \in Users, EndCall(h, u) PROVE RInv'
<1>1. PICK t : t = [Idle EXCEPT !.pc = "clean", !.kind = "call", !.user = u, !.who = u]
    OBVIOUS
<1>2. /\ task' = [task EXCEPT ![h] = t] /\ UNCHANGED <<raced, late>>
      /\ UNCHANGED <<router, open, things, ids, key, locker, overrun, faults>>
      /\ UNCHANGED <<workers, turn, dead, roomKey, closing>>
    BY <1>1 DEF EndCall, Start, mapVars, workerVars, socketVars, lockVars
<1>3. t \in TaskType /\ t.pc = "clean" /\ t.kind = "call"
    BY <1>1, NoRouterIsRouter DEF Idle, TaskType, Points, Purposes
<1>4. Machines'
    BY <1>2, MachinesStay DEF RInv
<1> QED
    BY <1>2, <1>3, <1>4, LeavesSoundly, GoesFree

LEMMA EndKeeps ==
    ASSUME RInv, NEW h \in Handlers, NEW u \in Users, NEW r \in Rooms, End(h, u, r) PROVE RInv'
<1>1. PICK t : t = [Idle EXCEPT !.pc = "clean", !.kind = "end", !.user = u, !.room = r, !.who = u]
    OBVIOUS
<1>2. /\ task' = [task EXCEPT ![h] = t] /\ UNCHANGED <<raced, late>>
      /\ UNCHANGED <<router, open, things, ids, key, locker, overrun, faults>>
      /\ UNCHANGED <<workers, turn, dead, roomKey, closing>>
    BY <1>1 DEF End, Start, mapVars, workerVars, lockVars
<1>3. t \in TaskType /\ t.pc = "clean" /\ t.kind = "end"
    BY <1>1, NoRouterIsRouter DEF Idle, TaskType, Points, Purposes
<1>4. Machines'
    BY <1>2, MachinesStay DEF RInv
<1> QED
    BY <1>2, <1>3, <1>4, LeavesSoundly, GoesFree

LEMMA OnDisconnectKeeps ==
    ASSUME RInv, NEW h \in Handlers, NEW c \in closing, OnDisconnect(h, c[1], c[2]) PROVE RInv'
<1>1. PICK u \in Users : u = c[1]
    BY DEF RInv, Machines
<1>2. PICK pc \in {"keys", "clean"} : pc = IF roomKey[u] = Nowhere THEN "keys" ELSE "clean"
    OBVIOUS
<1>3. PICK r \in Rooms \union {Nowhere} : r = roomKey[u]
    BY DEF RInv, Machines
<1>4. PICK t : t = [Idle EXCEPT !.pc = pc, !.kind = "gone", !.user = u, !.room = r, !.who = u]
    OBVIOUS
<1>5. /\ task' = [task EXCEPT ![h] = t] /\ UNCHANGED <<raced, late>> /\ closing' \subseteq closing
      /\ UNCHANGED <<router, open, things, ids, key, locker, overrun, faults>>
      /\ UNCHANGED <<workers, turn, dead, roomKey>>
    BY <1>1, <1>2, <1>3, <1>4 DEF OnDisconnect, Start, mapVars, workerVars, lockVars
<1>6. t \in TaskType /\ t.pc = pc /\ t.kind = "gone"
    BY <1>4, NoRouterIsRouter DEF Idle, TaskType, Points, Purposes
<1>7. Machines'
    BY <1>5 DEF RInv, Machines
<1> QED
    BY <1>5, <1>6, <1>7, LeavesSoundly, GoesFree

\* A handler that leaves and only moves on.
LEMMA LeaverMoves ==
    ASSUME RInv, NEW h \in Handlers, task[h].kind \in {"end", "gone"},
           NEW p \in {"clean", "members", "fetch", "drop", "evict", "keys"}, Goto(h, p), Machines',
           UNCHANGED <<router, open, things, ids, late, raced, key, locker, overrun, faults>>
    PROVE  RInv'
<1>1. PICK old \in TaskType : old = task[h]
    BY TaskIsSound
<1>2. PICK t : t = [old EXCEPT !.pc = p]
    OBVIOUS
<1>3. t \in TaskType /\ t.pc = p /\ t.kind = old.kind
    BY <1>2, Moves DEF Points
<1>4. task' = [task EXCEPT ![h] = t]
    BY <1>1, <1>2, Replaces
<1> QED
    BY <1>1, <1>3, <1>4, LeavesSoundly, GoesFree

LEMMA CountMembersKeeps == ASSUME RInv, NEW h \in Handlers, CountMembers(h) PROVE RInv'
<1>1. PICK p \in {"fetch", "keys"} : p = IF Cardinality(Present(task[h].room)) <= 1 THEN "fetch" ELSE "keys"
    OBVIOUS
<1>2. /\ task[h].pc = "members" /\ Goto(h, p) /\ UNCHANGED <<workers, turn, dead, roomKey, closing>>
      /\ UNCHANGED <<router, open, things, ids, late, raced, key, locker, overrun, faults>>
    BY <1>1 DEF CountMembers, mapVars, workerVars, socketVars, lockVars, history
<1>3. task[h].kind \in {"end", "gone"}
    BY <1>2, TaskIsSound DEF Sound
<1>4. Machines'
    BY <1>2, MachinesStay DEF RInv
<1> QED
    BY <1>2, <1>3, <1>4, LeaverMoves

LEMMA FetchSocketsKeeps == ASSUME RInv, NEW h \in Handlers, FetchSockets(h) PROVE RInv'
<1>1. /\ task[h].pc = "fetch" /\ UNCHANGED <<workers, turn, dead, roomKey, closing>>
      /\ UNCHANGED <<router, open, things, ids, late, raced, key, locker, overrun, faults>>
    BY DEF FetchSockets, mapVars, workerVars, socketVars, lockVars, history
<1>2. PICK old \in TaskType : old = task[h] /\ old.kind \in {"end", "gone"}
    BY <1>1, TaskIsSound DEF Sound
<1>3. Machines'
    BY <1>1, MachinesStay DEF RInv
<1>4. CASE Goto(h, "keys")
    BY <1>1, <1>2, <1>3, <1>4, LeaverMoves
<1>5. ASSUME NEW v \in Present(task[h].room),
             task' = [task EXCEPT ![h].pc = "clean", ![h].who = v, ![h].seen = {},
                                  ![h].all = Present(task[h].room), ![h].rest = Present(task[h].room) \ {v}]
      PROVE  RInv'
    <2>1. PICK all \in SUBSET Users : all = Present(task[h].room)
        BY DEF Present
    <2>2. PICK t : t = [old EXCEPT !.pc = "clean", !.who = v, !.seen = {}, !.all = all, !.rest = all \ {v}]
        OBVIOUS
    <2>3. task' = [task EXCEPT ![h] = t]
        BY <1>2, <1>5, <2>1, <2>2 DEF RInv, Shapes
    <2>4. t \in TaskType /\ t.pc = "clean" /\ t.kind = old.kind
        BY <1>5, <2>1, <2>2 DEF TaskType, Points, Present
    <2> QED
        BY <1>1, <1>2, <1>3, <2>3, <2>4, LeavesSoundly, GoesFree
<1> QED
    BY <1>4, <1>5 DEF FetchSockets

LEMMA DropKeyKeeps == ASSUME RInv, NEW h \in Handlers, DropKey(h) PROVE RInv'
<1>1. PICK v \in task[h].rest :
        /\ roomKey' = [roomKey EXCEPT ![v] = Nowhere]
        /\ task' = [task EXCEPT ![h].pc = IF task[h].rest = {v} THEN "evict" ELSE "drop",
                                ![h].rest = IF task[h].rest = {v} THEN task[h].all ELSE @ \ {v}]
    BY DEF DropKey
<1>2. /\ task[h].pc = "drop" /\ UNCHANGED <<workers, turn, dead, closing>>
      /\ UNCHANGED <<router, open, things, ids, late, raced, key, locker, overrun, faults>>
    BY DEF DropKey, mapVars, workerVars, lockVars, history
<1>3. PICK old \in TaskType : old = task[h] /\ old.kind \in {"end", "gone"}
    BY <1>2, TaskIsSound DEF Sound
<1>4. PICK pc \in {"evict", "drop"}, rest \in SUBSET Users :
        /\ pc = (IF old.rest = {v} THEN "evict" ELSE "drop")
        /\ rest = (IF old.rest = {v} THEN old.all ELSE old.rest \ {v})
    BY DEF TaskType
<1>5. PICK t : t = [old EXCEPT !.pc = pc, !.rest = rest]
    OBVIOUS
<1>6. task' = [task EXCEPT ![h] = t]
    BY <1>1, <1>3, <1>4, <1>5 DEF RInv, Shapes
<1>7. t \in TaskType /\ t.pc = pc /\ t.kind = old.kind
    BY <1>5 DEF TaskType, Points
<1>8. Machines'
    BY <1>1, <1>2 DEF RInv, Machines
<1> QED
    BY <1>2, <1>3, <1>6, <1>7, <1>8, LeavesSoundly, GoesFree

LEMMA EvictKeeps == ASSUME RInv, NEW h \in Handlers, Evict(h) PROVE RInv'
<1>1. PICK v \in task[h].rest :
        task' = [task EXCEPT ![h].pc = IF task[h].rest = {v} THEN "keys" ELSE "evict",
                             ![h].rest = @ \ {v}]
    BY DEF Evict
<1>2. /\ task[h].pc = "evict" /\ UNCHANGED <<workers, turn, dead, roomKey, closing>>
      /\ UNCHANGED <<router, open, things, ids, late, raced, key, locker, overrun, faults>>
    BY DEF Evict, mapVars, workerVars, lockVars, history
<1>3. PICK old \in TaskType : old = task[h] /\ old.kind \in {"end", "gone"}
    BY <1>2, TaskIsSound DEF Sound
<1>4. PICK pc \in {"keys", "evict"} : pc = (IF old.rest = {v} THEN "keys" ELSE "evict")
    OBVIOUS
<1>5. PICK t : t = [old EXCEPT !.pc = pc, !.rest = old.rest \ {v}]
    OBVIOUS
<1>6. task' = [task EXCEPT ![h] = t]
    BY <1>1, <1>3, <1>4, <1>5 DEF RInv, Shapes
<1>7. t \in TaskType /\ t.pc = pc /\ t.kind = old.kind
    BY <1>5 DEF TaskType, Points
<1>8. Machines'
    BY <1>2, MachinesStay DEF RInv
<1> QED
    BY <1>2, <1>3, <1>6, <1>7, <1>8, LeavesSoundly, GoesFree

LEMMA DropOwnKeysKeeps == ASSUME RInv, NEW h \in Handlers, DropOwnKeys(h) PROVE RInv'
<1>1. /\ Finish(h) /\ UNCHANGED <<router, open, things, ids, late, raced>>
      /\ UNCHANGED <<key, locker, overrun, faults>> /\ UNCHANGED <<workers, turn, dead, closing>>
      /\ roomKey' = [roomKey EXCEPT ![task[h].user] = Nowhere]
    BY DEF DropOwnKeys, mapVars, workerVars, lockVars, history
<1>2. LockInv'
    BY <1>1, LockStays DEF RInv
<1>3. Machines'
    BY <1>1 DEF RInv, Machines
<1> QED
    BY <1>1, <1>2, <1>3, FinishKeeps

LEMMA JoinKeeps ==
    ASSUME RInv, NEW h \in Handlers, NEW us \in SUBSET Users, NEW r \in Rooms, Join(h, us, r) PROVE RInv'
<1>1. PICK t : t = [Idle EXCEPT !.pc = "join", !.kind = "join", !.room = r, !.rest = us]
    OBVIOUS
<1>2. /\ task' = [task EXCEPT ![h] = t] /\ UNCHANGED <<raced, late>>
      /\ UNCHANGED <<router, open, things, ids, key, locker, overrun, faults>>
      /\ UNCHANGED <<workers, turn, dead, roomKey, closing>>
    BY <1>1 DEF Join, Start, mapVars, workerVars, lockVars
<1>3. t \in TaskType /\ t.pc = "join" /\ t.kind = "join" /\ t.room = r
    BY <1>1, NoRouterIsRouter DEF Idle, TaskType, Points, Purposes
<1>4. Sound(t) /\ t.pc \in Unguarded
    BY <1>3, WaysAreFree DEF Sound, Locked, Ways
<1>5. Machines'
    BY <1>2, MachinesStay DEF RInv
<1> QED
    BY <1>2, <1>3, <1>4, <1>5, GoesFree

LEMMA SetRoomKeyKeeps == ASSUME RInv, NEW h \in Handlers, SetRoomKey(h) PROVE RInv'
<1>1. PICK v \in task[h].rest :
        /\ roomKey' = [roomKey EXCEPT ![v] = task[h].room]
        /\ IF task[h].rest = {v} THEN Finish(h) ELSE task' = [task EXCEPT ![h].rest = @ \ {v}]
    BY DEF SetRoomKey
<1>2. /\ task[h].pc = "join" /\ UNCHANGED <<workers, turn, dead, closing>>
      /\ UNCHANGED <<router, open, things, ids, late, raced, key, locker, overrun, faults>>
    BY DEF SetRoomKey, mapVars, workerVars, lockVars, history
<1>3. PICK old \in TaskType : old = task[h] /\ Sound(old)
    BY TaskIsSound
<1>4. Machines'
    <2>1. task[h].room \in Rooms
        BY <1>2, <1>3 DEF Sound
    <2> QED
        BY <1>1, <1>2, <2>1 DEF RInv, Machines
<1>5. CASE Finish(h)
    <2>1. LockInv'
        BY <1>2, LockStays DEF RInv
    <2> QED
        BY <1>2, <1>4, <1>5, <2>1, FinishKeeps
<1>6. CASE task' = [task EXCEPT ![h].rest = @ \ {v}]
    <2>1. PICK t : t = [old EXCEPT !.rest = old.rest \ {v}]
        OBVIOUS
    <2>2. task' = [task EXCEPT ![h] = t]
        BY <1>3, <1>6, <2>1 DEF RInv, Shapes
    <2>3. t \in TaskType /\ t.pc = "join" /\ t.kind = old.kind /\ t.room = old.room
        BY <1>2, <1>3, <2>1 DEF TaskType
    <2>4. Sound(t) /\ t.pc \in Unguarded
        BY <1>2, <1>3, <2>3, WaysAreFree DEF Sound, Locked, Ways
    <2> QED
        BY <1>2, <1>4, <2>2, <2>4, GoesFree
<1> QED
    BY <1>1, <1>5, <1>6

LEMMA ConnectionsKeep ==
    ASSUME RInv, NEW u \in Users, Disconnect(u) \/ Connect(u) \/ \E r \in Rooms : Hear(u, r) PROVE RInv'
<1>1. /\ UNCHANGED <<router, open, things, ids, late, raced, task>>
      /\ UNCHANGED <<key, locker, overrun, faults>> /\ UNCHANGED <<workers, turn, dead, roomKey>>
    BY DEF Disconnect, Connect, Hear, mapVars, workerVars, lockVars, history
<1>2. Machines'
    <2>1. CASE Disconnect(u)
        <3>1. PICK rs \in SUBSET Rooms : rs = {r \in Rooms : <<u, r>> \in inRoom}
            OBVIOUS
        <3>2. closing' = closing \union {<<u, rs>>}
            BY <2>1, <3>1 DEF Disconnect
        <3> QED
            BY <1>1, <3>2 DEF RInv, Machines
    <2>2. CASE Connect(u) \/ \E r \in Rooms : Hear(u, r)
        <3>1. UNCHANGED closing
            BY <2>2 DEF Connect, Hear
        <3> QED
            BY <1>1, <3>1, MachinesStay DEF RInv
    <2> QED
        BY <2>1, <2>2
<1>3. LockInv'
    BY <1>1, LockStays DEF RInv
<1> QED
    BY <1>1, <1>2, <1>3, NothingMoves

LEMMA ExpireKeeps == ASSUME RInv, NEW r \in Rooms, LockExpires(r) PROVE RInv'
<1>1. /\ UNCHANGED <<router, open, things, ids, late, raced, task>>
      /\ UNCHANGED <<workers, turn, dead, roomKey, closing>>
      /\ UNCHANGED locker /\ overrun \subseteq overrun' /\ (Expire(r) \/ Outlast(r))
    BY DEF LockExpires, Expire, Outlast, mapVars, workerVars, socketVars, history
<1>2. LockInv'
    <2>1. LockNext
        BY <1>1 DEF LockNext, Expire, Outlast, Inside, Fault
    <2> QED
        BY <2>1, LockInvStep DEF RInv
<1>3. Machines'
    BY <1>1, MachinesStay DEF RInv
<1> QED
    BY <1>1, <1>2, <1>3, NothingMoves

LEMMA WorkerRestartsKeeps == ASSUME RInv, NEW i \in 1 .. WorkerCount, WorkerRestarts(i) PROVE RInv'
<1>1. /\ UNCHANGED <<router, open, things, ids, late, raced, task>>
      /\ UNCHANGED <<key, locker, overrun, faults>> /\ UNCHANGED <<turn, dead, roomKey, closing>>
      /\ workers' = [workers EXCEPT ![i] = WorkerCount + Cardinality(dead) + 1]
    BY DEF WorkerRestarts, mapVars, socketVars, lockVars, history
<1>2. Machines'
    <2>1. WorkerCount + Cardinality(dead) + 1 \in Nat \ {0}
        BY FS_CardinalityType, MediaAssumption, LockAssumption DEF RInv, Machines
    <2> QED
        BY <1>1, <2>1 DEF RInv, Machines
<1>3. LockInv'
    BY <1>1, LockStays DEF RInv
<1> QED
    BY <1>1, <1>2, <1>3, NothingMoves
-----------------------------------------------------------------------------
(* What goes, and what stays                                               *)

\* Routers and entries go, no handler starts to make something, and whoever is
\* making something is marked.
LEMMA RemovalKeeps ==
    ASSUME RInv, things' \subseteq things, router' \in [Rooms -> RouterType], open' \subseteq open,
           task' = [h \in Handlers |-> task'[h]],
           \A h \in Handlers : task'[h] = task[h] \/ (Sound(task'[h]) /\ task'[h].pc \in Unguarded),
           \A r \in Rooms : \/ router'[r] = router[r]
                            \/ router'[r] = NoRouter /\ \A t \in things' : t.at.id # router[r].id,
           \A r \in Rooms : router[r].id \in open' => router'[r] = router[r],
           \A c \in things' : overrun = {} /\ c.id \notin late /\ c.kind = "consumer" =>
                                \E p \in things' : p.kind = "producer" /\ p.id = c.of /\ p.at.id = c.at.id,
           UNCHANGED <<ids, late, key, locker, overrun>>, UNCHANGED faults \/ Fault,
           Machines', raced \subseteq raced', UNCHANGED <<router, things>> \/ Making \subseteq raced'
    PROVE  RInv'
<1>1. LockInv'
    BY LockStays DEF RInv
<1>2. \A h \in Handlers : Sound(task'[h])
    BY TaskIsSound
<1>3. Shapes'
    BY <1>2 DEF RInv, Shapes, Sound
<1>4. \A h \in Handlers : task'[h].pc \in Locked \union Holding \union {"lock"} => task'[h] = task[h]
    BY DEF Unguarded
<1>5. Locking'
    BY <1>4 DEF RInv, Locking, Fitting
<1>6. ASSUME NEW at, NEW room, OnlyOf(at, room) PROVE OnlyOf(at, room)'
    <2>1. ids \in Nat /\ at.id # 0 /\ at.id \in 1 .. ids
        BY <1>6 DEF OnlyOf, RInv, Shapes
    <2>2. ASSUME NEW r \in Rooms, router'[r].id = at.id PROVE router'[r] = router[r]
        BY <2>1, <2>2, NoRouterIsRouter
    <2> QED
        BY <1>6, <2>1, <2>2 DEF OnlyOf
<1>7. Numbered'
    <2>1. (open \subseteq 1 .. ids)'
        BY DEF RInv, Numbered
    <2>2. (\A r \in Rooms : router[r] = NoRouter \/ router[r].id \in 1 .. ids)'
        BY DEF RInv, Numbered
    <2>3. (\A r, q \in Rooms : router[r].id = router[q].id /\ router[r].id # 0 => r = q)'
        BY NoRouterIsRouter DEF RInv, Numbered
    <2>4. (\A t \in things : t.id \in 1 .. ids /\ OnlyOf(t.at, t.room) /\ (t.kind = "producer" => t.of = 0))'
        BY <1>6 DEF RInv, Numbered
    <2>5. (\A h \in Handlers : task[h].pc \in Holding => OnlyOf(task[h].at, task[h].room))'
        BY <1>4, <1>6 DEF RInv, Numbered
    <2> QED
        BY <2>1, <2>2, <2>3, <2>4, <2>5 DEF Numbered
<1>8. ASSUME overrun' = {} PROVE Attached'
    <2>1. overrun = {} /\ Attached
        BY <1>8 DEF RInv
    <2>2. (open \subseteq {router[r].id : r \in Rooms})'
        BY <2>1 DEF Attached
    <2>3. ASSUME NEW h \in Handlers PROVE Expects(task[h])'
        <3>1. SUFFICES ASSUME task'[h].pc = "create" PROVE router'[task'[h].room] = NoRouter
            BY DEF Expects
        <3>2. task'[h] = task[h] /\ task[h].room \in Rooms
            BY <3>1, <1>2, <1>4 DEF Locked, Sound
        <3>3. router[task[h].room] = NoRouter
            BY <2>1, <3>1, <3>2 DEF Attached, Expects
        <3> QED
            BY <3>2, <3>3
    <2>4. ASSUME NEW h \in Handlers, h \notin raced' PROVE Rests(task[h])'
        <3>1. CASE UNCHANGED <<router, things>>
            BY <1>4, <2>1, <2>4, <3>1 DEF Attached, Rests, Offers
        <3>2. CASE Making \subseteq raced'
            <4>1. task[h].pc \notin Holding
                BY <2>4, <3>2 DEF Making, Holding
            <4> QED
                BY <1>4, <4>1 DEF Rests
        <3> QED
            BY <3>1, <3>2
    <2>5. ASSUME NEW t \in things', t.id \notin late' PROVE Stands(t)'
        <3>1. Stands(t) /\ t.room \in Rooms
            BY <2>1, <2>5 DEF Attached, RInv, Shapes, ThingType
        <3>2. router'[t.room] = t.at
            BY <2>5, <3>1 DEF Stands
        <3> QED
            BY <2>1, <2>5, <3>2 DEF Stands, Offers
    <2> QED
        BY <2>2, <2>3, <2>4, <2>5 DEF Attached
<1> QED
    BY <1>1, <1>3, <1>5, <1>7, <1>8 DEF RInv

\* What a handler does once its user is cleaned up.
LEMMA AfterIsFree ==
    ASSUME RInv, NEW h \in Handlers, task[h].pc \in {"clean", "swept"}, AfterCleanUp(h)
    PROVE  \E t : Sound(t) /\ t.pc \in Unguarded /\ task' = [task EXCEPT ![h] = t]
<1>1. PICK old \in TaskType : old = task[h] /\ old.kind \in {"call", "end", "gone"}
    BY TaskIsSound DEF Sound
<1>2. CASE Finish(h)
    <2>1. Idle.pc \in Unguarded
        BY IdleIsSound DEF Unguarded, Points, Locked, Holding
    <2> QED
        BY <1>2, <2>1, IdleIsSound DEF Finish
<1>3. CASE Goto(h, "members") /\ old.kind # "call"
    <2>1. PICK t : t = [old EXCEPT !.pc = "members"]
        OBVIOUS
    <2>2. t \in TaskType /\ t.pc = "members" /\ t.kind = old.kind
        BY <2>1, Moves DEF Points
    <2> QED
        BY ZenonT(30), <1>1, <1>3, <2>1, <2>2, LeavesSoundly, Replaces
<1>4. CASE task' = [task EXCEPT ![h].pc = "drop", ![h].rest = task[h].all] /\ old.kind # "call"
    <2>1. PICK t : t = [old EXCEPT !.pc = "drop", !.rest = old.all]
        OBVIOUS
    <2>2. t \in TaskType /\ t.pc = "drop" /\ t.kind = old.kind
        BY <2>1 DEF TaskType, Points
    <2>3. task' = [task EXCEPT ![h] = t]
        BY <1>1, <1>4, <2>1 DEF RInv, Shapes
    <2> QED
        BY <1>1, <1>4, <2>2, <2>3, LeavesSoundly
<1>5. ASSUME NEW v \in task[h].rest,
             task' = [task EXCEPT ![h].pc = "clean", ![h].who = v,
                                  ![h].rest = task[h].rest \ {v}, ![h].seen = {}]
      PROVE  \E t : Sound(t) /\ t.pc \in Unguarded /\ task' = [task EXCEPT ![h] = t]
    <2>1. PICK t : t = [old EXCEPT !.pc = "clean", !.who = v, !.rest = old.rest \ {v}, !.seen = {}]
        OBVIOUS
    <2>2. t \in TaskType /\ t.pc = "clean" /\ t.kind = old.kind
        BY <1>1, <1>5, <2>1 DEF TaskType, Points
    <2>3. task' = [task EXCEPT ![h] = t]
        BY <1>1, <1>5, <2>1 DEF RInv, Shapes
    <2> QED
        BY <1>1, <2>2, <2>3, LeavesSoundly
<1> QED
    BY <1>1, <1>2, <1>3, <1>4, <1>5 DEF AfterCleanUp

\* Only routers nothing is left on are closed.
LEMMA SweepCloses ==
    ASSUME RInv, NEW h \in Handlers, task[h].pc \in {"clean", "swept"}, NEW left, Sweep(h, left)
    PROVE  /\ \E t : Sound(t) /\ t.pc \in Unguarded /\ task' = [task EXCEPT ![h] = t]
           /\ router' \in [Rooms -> RouterType] /\ open' \subseteq open
           /\ \A r \in Rooms : \/ router'[r] = router[r]
                               \/ router'[r] = NoRouter /\ \A t \in left : t.at.id # router[r].id
           /\ \A r \in Rooms : router[r].id \in open' => router'[r] = router[r]
<1>1. PICK unseen : unseen = {r \in Rooms : router[r] # NoRouter /\ router[r].id \notin task[h].seen}
    OBVIOUS
<1>2. PICK empty : empty = {r \in unseen : \A t \in left : t.at.id # router[r].id}
    OBVIOUS
<1>3. ASSUME NEW r \in empty, NEW passed \in SUBSET (unseen \ empty),
             router' = [router EXCEPT ![r] = NoRouter], open' = open \ {router[r].id},
             task' = [task EXCEPT ![h].pc = "swept",
                                  ![h].seen = @ \union {router[q].id : q \in passed}]
      PROVE  /\ \E t : Sound(t) /\ t.pc \in Unguarded /\ task' = [task EXCEPT ![h] = t]
             /\ router' \in [Rooms -> RouterType] /\ open' \subseteq open
             /\ \A q \in Rooms : \/ router'[q] = router[q]
                                 \/ router'[q] = NoRouter /\ \A t \in left : t.at.id # router[q].id
             /\ \A q \in Rooms : router[q].id \in open' => router'[q] = router[q]
    <2>1. PICK old \in TaskType : old = task[h] /\ old.kind \in {"call", "end", "gone"}
        BY TaskIsSound DEF Sound
    <2>2. PICK seen \in SUBSET Nat : seen = old.seen \union {router[q].id : q \in passed}
        <3>1. {router[q].id : q \in passed} \subseteq Nat
            BY <1>1 DEF RInv, Shapes, RouterType
        <3> QED
            BY <3>1 DEF TaskType
    <2>3. PICK t : t = [old EXCEPT !.pc = "swept", !.seen = seen]
        OBVIOUS
    <2>4. t \in TaskType /\ t.pc = "swept" /\ t.kind = old.kind
        BY <2>3 DEF TaskType, Points
    <2>5. task' = [task EXCEPT ![h] = t]
        BY <1>3, <2>1, <2>2, <2>3 DEF RInv, Shapes
    <2>6. router' \in [Rooms -> RouterType] /\ router'[r] = NoRouter /\ \A q \in Rooms : q # r => router'[q] = router[q]
        BY <1>1, <1>2, <1>3, NoRouterIsRouter DEF RInv, Shapes
    <2>7. \A q \in Rooms : \/ router'[q] = router[q]
                           \/ router'[q] = NoRouter /\ \A w \in left : w.at.id # router[q].id
        BY <1>2, <2>6
    <2> QED
        BY <1>3, <2>1, <2>4, <2>5, <2>6, <2>7, LeavesSoundly
<1>4. CASE AfterCleanUp(h) /\ UNCHANGED <<router, open>>
    BY <1>4, AfterIsFree DEF RInv, Shapes
<1> QED
    BY <1>1, <1>2, <1>3, <1>4 DEF Sweep

LEMMA OthersKeepTasks ==
    ASSUME RInv, NEW h \in Handlers, NEW t, Sound(t), t.pc \in Unguarded, task' = [task EXCEPT ![h] = t]
    PROVE  /\ task' = [k \in Handlers |-> task'[k]]
           /\ \A k \in Handlers : task'[k] = task[k] \/ (Sound(task'[k]) /\ task'[k].pc \in Unguarded)
BY DEF RInv, Shapes

\* With a producer go its consumers.
LEMMA CleanUpKeeps == ASSUME RInv, NEW h \in Handlers, CleanUp(h) PROVE RInv'
<1>1. PICK mine : mine = Owned(task[h].who)
    OBVIOUS
<1>2. /\ task[h].pc = "clean" /\ things' = things \ mine /\ Sweep(h, things \ mine)
      /\ raced' = raced \union Making /\ UNCHANGED <<workers, turn, dead, roomKey, closing>>
      /\ UNCHANGED <<ids, late, key, locker, overrun, faults>>
    BY <1>1 DEF CleanUp, workerVars, socketVars, lockVars
<1>3. PICK t : Sound(t) /\ t.pc \in Unguarded /\ task' = [task EXCEPT ![h] = t]
    BY <1>2, SweepCloses
<1>4. /\ router' \in [Rooms -> RouterType] /\ open' \subseteq open
      /\ \A r \in Rooms : \/ router'[r] = router[r]
                          \/ router'[r] = NoRouter /\ \A w \in things' : w.at.id # router[r].id
      /\ \A r \in Rooms : router[r].id \in open' => router'[r] = router[r]
    BY <1>2, SweepCloses
<1>5. /\ task' = [k \in Handlers |-> task'[k]]
      /\ \A k \in Handlers : task'[k] = task[k] \/ (Sound(task'[k]) /\ task'[k].pc \in Unguarded)
    BY <1>3, OthersKeepTasks
<1>6. ASSUME NEW c \in things', overrun = {}, c.id \notin late, c.kind = "consumer"
      PROVE  \E p \in things' : p.kind = "producer" /\ p.id = c.of /\ p.at.id = c.at.id
    <2>1. c \in things /\ c \notin mine
        BY <1>2, <1>6
    <2>2. PICK p \in things : p.kind = "producer" /\ p.id = c.of /\ p.at.id = c.at.id
        BY <1>6, <2>1 DEF RInv, Attached, Stands, Offers
    <2>3. ids \in Nat /\ p.of = 0 /\ \A q \in things : q.id # 0
        BY <2>2 DEF RInv, Numbered, Shapes
    <2>4. p \notin mine
        BY <1>1, <2>1, <2>2, <2>3 DEF Owned
    <2> QED
        BY <1>2, <2>2, <2>4
<1>7. Machines'
    BY <1>2, MachinesStay DEF RInv
<1>8. things' \subseteq things /\ raced \subseteq raced' /\ Making \subseteq raced'
    BY <1>2
<1> QED
    BY <1>2, <1>4, <1>5, <1>6, <1>7, <1>8, RemovalKeeps

LEMMA SweepOnKeeps == ASSUME RInv, NEW h \in Handlers, SweepOn(h) PROVE RInv'
<1>1. /\ task[h].pc = "swept" /\ UNCHANGED things /\ Sweep(h, things)
      /\ raced' = (IF router' = router THEN raced ELSE raced \union Making)
      /\ UNCHANGED <<workers, turn, dead, roomKey, closing>>
      /\ UNCHANGED <<ids, late, key, locker, overrun>> /\ (UNCHANGED faults \/ Fault)
    BY DEF SweepOn, workerVars, socketVars
<1>2. PICK t : Sound(t) /\ t.pc \in Unguarded /\ task' = [task EXCEPT ![h] = t]
    BY <1>1, SweepCloses
<1>3. /\ router' \in [Rooms -> RouterType] /\ open' \subseteq open
      /\ \A r \in Rooms : \/ router'[r] = router[r]
                          \/ router'[r] = NoRouter /\ \A w \in things' : w.at.id # router[r].id
      /\ \A r \in Rooms : router[r].id \in open' => router'[r] = router[r]
    BY <1>1, SweepCloses
<1>4. /\ task' = [k \in Handlers |-> task'[k]]
      /\ \A k \in Handlers : task'[k] = task[k] \/ (Sound(task'[k]) /\ task'[k].pc \in Unguarded)
    BY <1>2, OthersKeepTasks
<1>5. \A c \in things' : overrun = {} /\ c.id \notin late /\ c.kind = "consumer" =>
                            \E p \in things' : p.kind = "producer" /\ p.id = c.of /\ p.at.id = c.at.id
    BY <1>1 DEF RInv, Attached, Stands, Offers
<1>6. Machines'
    BY <1>1, MachinesStay DEF RInv
<1>7. things' \subseteq things /\ raced \subseteq raced' /\ (UNCHANGED <<router, things>> \/ Making \subseteq raced')
    BY <1>1
<1> QED
    BY <1>1, <1>3, <1>4, <1>5, <1>6, <1>7, RemovalKeeps

\* With a worker goes everything on its routers.
LEMMA WorkerDiesKeeps == ASSUME RInv, NEW i \in 1 .. WorkerCount, WorkerDies(i) PROVE RInv'
<1>1. PICK w \in Nat \ {0} : w = workers[i]
    BY DEF RInv, Machines
<1>2. PICK lost : lost = {router[r].id : r \in {q \in Rooms : router[q].pid = w}}
    OBVIOUS
<1>3. /\ router' = [r \in Rooms |-> IF router[r].pid = w THEN NoRouter ELSE router[r]]
      /\ things' = {t \in things : t.at.id \notin lost} /\ open' = open \ lost
      /\ dead' = dead \union {w} /\ raced' = raced \union Making
      /\ UNCHANGED <<workers, turn, roomKey, closing>>
      /\ UNCHANGED <<ids, late, key, locker, overrun, task>> /\ Fault
    BY <1>1, <1>2 DEF WorkerDies, socketVars
<1>4. router' \in [Rooms -> RouterType] /\ open' \subseteq open /\ things' \subseteq things
    BY <1>3, NoRouterIsRouter DEF RInv, Shapes
<1>5. \A r \in Rooms : \/ router'[r] = router[r]
                       \/ router'[r] = NoRouter /\ \A t \in things' : t.at.id # router[r].id
    BY <1>2, <1>3
<1>6. \A r \in Rooms : router[r].id \in open' => router'[r] = router[r]
    BY <1>2, <1>3
<1>7. task' = [h \in Handlers |-> task'[h]]
    BY <1>3 DEF RInv, Shapes
<1>8. ASSUME NEW c \in things', overrun = {}, c.id \notin late, c.kind = "consumer"
      PROVE  \E p \in things' : p.kind = "producer" /\ p.id = c.of /\ p.at.id = c.at.id
    <2>1. PICK p \in things : p.kind = "producer" /\ p.id = c.of /\ p.at.id = c.at.id
        BY <1>3, <1>8 DEF RInv, Attached, Stands, Offers
    <2> QED
        BY <1>3, <1>8, <2>1
<1>9. Machines'
    <2>1. IsFiniteSet(dead')
        BY <1>3, FS_AddElement DEF RInv, Machines
    <2> QED
        BY <1>3, <2>1 DEF RInv, Machines
<1>10. raced \subseteq raced' /\ Making \subseteq raced'
    BY <1>3
<1> QED
    BY <1>3, <1>4, <1>5, <1>6, <1>7, <1>8, <1>9, <1>10, RemovalKeeps
\* Nothing is left, but for numbers, room keys and the keys of the locks.
LEMMA ShutdownKeeps == ASSUME RInv, Shutdown PROVE RInv'
<1>1. /\ workers' = [i \in 1 .. WorkerCount |-> i] /\ dead' = {} /\ turn' = 1
      /\ router' = [r \in Rooms |-> NoRouter] /\ open' = {} /\ things' = {} /\ closing' = {}
      /\ task' = [h \in Handlers |-> Idle] /\ locker' = [h \in Handlers |-> Outside]
      /\ UNCHANGED <<key, overrun, ids, roomKey>> /\ Fault
    BY DEF Shutdown
<1>2. Outside = [pc |-> "out", lock |-> "none", tries |-> 0]
    BY DEF Outside, NoLock
<1>3. MaxRetries \in Nat /\ MaxRetries # 0 /\ MaxTroubles \in Nat /\ WorkerCount \in Nat /\ WorkerCount # 0
    BY MediaAssumption, LockAssumption
<1>4. LockInv'
    <2>1. faults' \in 0 .. MaxTroubles
        BY <1>1, <1>3 DEF Fault, RInv, LockInv, LockTypeOK
    <2>2. Outside \in [pc : {"out", "try", "in"}, lock : Rooms \union {NoLock}, tries : 0 .. MaxRetries - 1]
        BY <1>2, <1>3 DEF NoLock
    <2>3. LockTypeOK'
        BY <1>1, <1>2, <2>1, <2>2 DEF RInv, LockInv, LockTypeOK
    <2>4. \A h \in Handlers : locker'[h].pc = "out"
        BY <1>1, <1>2
    <2> QED
        BY <2>3, <2>4 DEF LockInv, MutualExclusion, Inside, KeyHeld
<1>5. \A h \in Handlers : task'[h] = Idle
    BY <1>1
<1>6. Idle.pc \notin Holding /\ Idle.pc \notin Locked /\ Idle.pc # "lock" /\ Idle.pc # "create"
    BY IdleIsSound DEF Holding, Locked
<1>7. Shapes'
    BY <1>1, <1>5, IdleIsSound, NoRouterIsRouter DEF RInv, Shapes, Sound
<1>8. Machines'
    BY <1>1, <1>3, FS_EmptySet DEF RInv, Machines
<1>9. Locking'
    BY <1>5, <1>6 DEF Locking, Fitting
<1>10. Numbered'
    BY <1>1, <1>5, <1>6, NoRouterIsRouter DEF Numbered
<1>11. Attached'
    BY <1>1, <1>5, <1>6 DEF Attached, Expects, Rests
<1> QED
    BY <1>4, <1>7, <1>8, <1>9, <1>10, <1>11 DEF RInv

-----------------------------------------------------------------------------

LEMMA RInit == Init => RInv
<1> SUFFICES ASSUME Init PROVE RInv
    OBVIOUS
<1>1. /\ workers = [i \in 1 .. WorkerCount |-> i] /\ dead = {} /\ turn = 1
      /\ router = [r \in Rooms |-> NoRouter] /\ open = {} /\ things = {} /\ closing = {} /\ ids = 0
      /\ roomKey = [u \in Users |-> Nowhere]
      /\ task = [h \in Handlers |-> Idle] /\ LockInit
    BY DEF Init
<1>2. WorkerCount \in Nat /\ WorkerCount # 0
    BY MediaAssumption, LockAssumption
<1>3. LockInv
    <2>1. LockInit
        BY <1>1 DEF LockInit, Outside, NoLock
    <2> QED
        BY <2>1, LockInvInit
<1>4. \A h \in Handlers : task[h] = Idle
    BY <1>1
<1>5. Idle.pc \notin Holding /\ Idle.pc \notin Locked /\ Idle.pc # "lock" /\ Idle.pc # "create"
    BY IdleIsSound DEF Holding, Locked
<1>6. Shapes
    BY <1>1, <1>4, IdleIsSound, NoRouterIsRouter DEF Shapes, Sound
<1>7. Machines
    BY <1>1, <1>2, FS_EmptySet DEF Machines
<1>8. Locking
    BY <1>4, <1>5 DEF Locking, Fitting
<1>9. Numbered
    BY <1>1, <1>4, <1>5, NoRouterIsRouter DEF Numbered
<1>10. Attached
    BY <1>1, <1>4, <1>5 DEF Attached, Expects, Rests
<1> QED
    BY <1>3, <1>6, <1>7, <1>8, <1>9, <1>10 DEF RInv

LEMMA RHandlerStep == ASSUME RInv, NEW h \in Handlers, HandlerStep(h) PROVE RInv'
BY GotLockKeeps, NoLockKeeps, FoundKeeps, SelectWorkerKeeps, RouterFailsKeeps, CreateRouterKeeps,
   CreateFailsKeeps, CountRoomKeeps, UnlockKeeps, MadeKeeps, MakeFailsKeeps, CountMadeKeeps,
   CleanUpKeeps, SweepOnKeeps, CountMembersKeeps, FetchSocketsKeeps, DropKeyKeeps, EvictKeeps,
   DropOwnKeysKeeps, SetRoomKeyKeeps
DEF HandlerStep

LEMMA RStep == RInv /\ [Next]_vars => RInv'
<1> SUFFICES ASSUME RInv, [Next]_vars PROVE RInv'
    OBVIOUS
<1>1. CASE \E h \in Handlers : HandlerStep(h)
    BY <1>1, RHandlerStep
<1>2. CASE \E h \in Handlers, u \in Users, r \in Rooms : Client(h, u, r)
    BY <1>2, AskRouterKeeps, EndKeeps, ProduceKeeps, ConsumeKeeps DEF Client
<1>3. CASE \E h \in Handlers, r \in Rooms : AskRouter(h, "caps", Nobody, r)
    BY <1>3, AskRouterKeeps
<1>4. CASE \E h \in Handlers, us \in SUBSET Users, r \in Rooms : Cardinality(us) >= 2 /\ Join(h, us, r)
    BY <1>4, JoinKeeps
<1>5. CASE \E h \in Handlers, u \in Users : EndCall(h, u)
    BY <1>5, EndCallKeeps
<1>6. CASE \E h \in Handlers : \E c \in closing : OnDisconnect(h, c[1], c[2])
    BY <1>6, OnDisconnectKeeps
<1>7. CASE \E u \in Users : Disconnect(u) \/ Connect(u) \/ \E r \in Rooms : Hear(u, r)
    BY <1>7, ConnectionsKeep
<1>8. CASE \E i \in 1 .. WorkerCount : WorkerDies(i) \/ WorkerRestarts(i)
    BY <1>8, WorkerDiesKeeps, WorkerRestartsKeeps
<1>9. CASE \E r \in Rooms : LockExpires(r)
    BY <1>9, ExpireKeeps
<1>10. CASE Shutdown
    BY <1>10, ShutdownKeeps
<1>11. CASE UNCHANGED vars
    <2>1. /\ UNCHANGED <<router, open, things, ids, late, raced, task>>
          /\ UNCHANGED <<key, locker, overrun, faults>> /\ UNCHANGED <<workers, turn, dead, roomKey, closing>>
        BY <1>11 DEF vars, lockVars, workerVars, mapVars, socketVars, history
    <2>2. LockInv' /\ Machines'
        BY <2>1, LockStays, MachinesStay DEF RInv
    <2> QED
        BY <2>1, <2>2, NothingMoves
<1> QED
    BY <1>1, <1>2, <1>3, <1>4, <1>5, <1>6, <1>7, <1>8, <1>9, <1>10, <1>11 DEF Next

LEMMA RAlways == Spec => []RInv
BY RInit, RStep, PTL DEF Spec

\* A router that is open in a worker is the router of some room (getRoomRouter):
\* handlers that find none for a room create theirs one after the other, unless
\* an operation outlasts the room's lock.
THEOREM NoRouterIsLost == Spec => []NoRouterLost
<1>1. RInv => NoRouterLost
    BY DEF RInv, Attached, NoRouterLost
<1> QED
    BY RAlways, <1>1, PTL

\* What the Maps hold is on the router its room has, and what is consumed is
\* there (createWebRtcTransport, createProducer, createConsumer, cleanUp,
\* cleanupEmptyRouters), but for what was being made while others cleaned up.
THEOREM NothingIsLeftDangling == Spec => []NothingDangles
<1>1. RInv => NothingDangles
    BY DEF RInv, Attached, Stands, Offers, NothingDangles
<1> QED
    BY RAlways, <1>1, PTL
-----------------------------------------------------------------------------
(* Handlers that neither count nor leave                                   *)

Aside == Locked \union {"idle", "lock", "make", "join"}
Harmless(t) == t.pc # "metric" /\ t.kind \notin {"end", "gone"}

\* Handler h goes from one such point to another, and the others wait.
Apart(h) ==
    /\ task[h].pc \in Aside /\ task'[h].pc \in Aside
    /\ \A k \in Handlers : k # h => task'[k] = task[k]

LEMMA ApartIsHarmless ==
    ASSUME RInv, RInv', NEW h \in Handlers, Apart(h)
    PROVE  Harmless(task[h]) /\ Harmless(task'[h]) /\ \A k \in Handlers : k # h => task'[k] = task[k]
<1>1. Sound(task[h]) /\ Sound(task[h])'
    BY DEF RInv, Shapes
<1>2. ASSUME NEW t, Sound(t), t.pc \in Aside PROVE Harmless(t)
    BY <1>2 DEF Sound, Aside, Harmless, Kinds, Locked
<1>3. Sound(task'[h])
    BY <1>1 DEF Sound
<1> QED
    BY <1>1, <1>2, <1>3 DEF Apart

LEMMA GotoTurns ==
    ASSUME RInv, NEW h \in Handlers, NEW p \in Points, Goto(h, p)
    PROVE  /\ task'[h].pc = p /\ task'[h].kind = task[h].kind /\ task'[h].room = task[h].room
           /\ task'[h].all = task[h].all /\ task'[h].rest = task[h].rest /\ task'[h].user = task[h].user
           /\ \A k \in Handlers : k # h => task'[k] = task[k]
<1>1. PICK old \in TaskType : old = task[h]
    BY TaskIsSound
<1>2. PICK t : t = [old EXCEPT !.pc = p]
    OBVIOUS
<1>3. task' = [task EXCEPT ![h] = t]
    BY <1>1, <1>2, Replaces
<1>4. task'[h] = t /\ \A k \in Handlers : k # h => task'[k] = task[k]
    BY <1>3 DEF RInv, Shapes
<1> QED
    BY <1>1, <1>2, <1>4, Moves

LEMMA FinishTurns ==
    ASSUME RInv, NEW h \in Handlers, Finish(h)
    PROVE  task'[h] = Idle /\ task'[h].pc = "idle" /\ \A k \in Handlers : k # h => task'[k] = task[k]
BY IdleIsSound DEF Finish, RInv, Shapes

LEMMA StartTurns ==
    ASSUME RInv, NEW h \in Handlers, NEW t, Start(h, t)
    PROVE  task[h].pc = "idle" /\ task'[h] = t /\ \A k \in Handlers : k # h => task'[k] = task[k]
BY DEF Start, RInv, Shapes

LEMMA LockersApart ==
    ASSUME RInv, NEW h \in Handlers,
           \/ GotLock(h) \/ LockMissed(h) \/ Found(h) \/ SelectWorker(h) \/ RouterFails(h)
           \/ CreateRouter(h) \/ CreateFails(h) \/ CountRoom(h) \/ Unlock(h) \/ MakeFails(h)
    PROVE  Apart(h)
<1>1. {"lookup", "abort", "unlock", "make"} \subseteq Points /\ {"lookup", "abort", "unlock", "make"} \subseteq Aside
    BY DEF Points, Aside, Locked
<1>2. \A p \in {"lookup", "abort", "unlock", "make"} : Goto(h, p) /\ task[h].pc \in Aside => Apart(h)
    BY <1>1, GotoTurns DEF Apart
<1>3. Finish(h) /\ task[h].pc \in Aside => Apart(h)
    BY FinishTurns DEF Apart, Aside
<1>4. task[h].pc \in Locked \union {"lock", "make"} => task[h].pc \in Aside
    BY DEF Aside
<1>5. CASE GotLock(h)
    BY <1>2, <1>4, <1>5 DEF GotLock
<1>6. CASE LockMissed(h)
    <2>1. CASE UNCHANGED task
        BY <1>4, <1>6, <2>1 DEF LockMissed, Apart
    <2>2. CASE Finish(h)
        BY <1>3, <1>4, <1>6, <2>2 DEF LockMissed
    <2> QED
        BY <1>6, <2>1, <2>2 DEF LockMissed
<1>7. CASE Found(h)
    <2>1. PICK old \in TaskType : old = task[h]
        BY TaskIsSound
    <2>2. PICK t : t = [old EXCEPT !.pc = "unlock", !.at = router[task[h].room]]
        OBVIOUS
    <2>3. task'[h] = t /\ \A k \in Handlers : k # h => task'[k] = task[k]
        BY <1>7, <2>1, <2>2 DEF Found, RInv, Shapes
    <2> QED
        BY <1>7, <2>1, <2>2, <2>3 DEF Found, Apart, Aside, Locked, TaskType
<1>8. CASE SelectWorker(h)
    <2>1. PICK old \in TaskType : old = task[h]
        BY TaskIsSound
    <2>2. PICK t : t = [old EXCEPT !.pc = "create", !.at = [id |-> 0, pid |-> workers[turn]]]
        OBVIOUS
    <2>3. task'[h] = t /\ \A k \in Handlers : k # h => task'[k] = task[k]
        BY <1>8, <2>1, <2>2 DEF SelectWorker, RInv, Shapes
    <2> QED
        BY <1>8, <2>1, <2>2, <2>3 DEF SelectWorker, Apart, Aside, Locked, TaskType
<1>9. CASE RouterFails(h)
    BY <1>2, <1>4, <1>9 DEF RouterFails, Locked
<1>10. CASE CreateRouter(h)
    <2>1. PICK old \in TaskType : old = task[h]
        BY TaskIsSound
    <2>2. PICK t : t = [old EXCEPT !.pc = "count", !.at = [task[h].at EXCEPT !.id = ids + 1]]
        OBVIOUS
    <2>3. task'[h] = t /\ \A k \in Handlers : k # h => task'[k] = task[k]
        BY <1>10, <2>1, <2>2 DEF CreateRouter, RInv, Shapes
    <2> QED
        BY <1>10, <2>1, <2>2, <2>3 DEF CreateRouter, Apart, Aside, Locked, TaskType
<1>11. CASE CreateFails(h)
    BY <1>2, <1>4, <1>11 DEF CreateFails, Locked
<1>12. CASE CountRoom(h)
    BY <1>2, <1>4, <1>12 DEF CountRoom, Locked
<1>13. CASE Unlock(h)
    BY <1>2, <1>3, <1>4, <1>13 DEF Unlock, Locked
<1>14. CASE MakeFails(h)
    BY <1>3, <1>4, <1>14 DEF MakeFails
<1> QED
    BY <1>5, <1>6, <1>7, <1>8, <1>9, <1>10, <1>11, <1>12, <1>13, <1>14

LEMMA SetRoomKeyApart == ASSUME RInv, NEW h \in Handlers, SetRoomKey(h) PROVE Apart(h)
<1>1. PICK v \in task[h].rest :
        IF task[h].rest = {v} THEN Finish(h) ELSE task' = [task EXCEPT ![h].rest = @ \ {v}]
    BY DEF SetRoomKey
<1>2. task[h].pc = "join" /\ task[h].pc \in Aside
    BY DEF SetRoomKey, Aside
<1>3. CASE Finish(h)
    BY <1>2, <1>3, FinishTurns DEF Apart, Aside
<1>4. CASE task' = [task EXCEPT ![h].rest = @ \ {v}]
    <2>1. PICK old \in TaskType : old = task[h]
        BY TaskIsSound
    <2>2. PICK t : t = [old EXCEPT !.rest = old.rest \ {v}]
        OBVIOUS
    <2>3. task'[h] = t /\ \A k \in Handlers : k # h => task'[k] = task[k]
        BY <1>4, <2>1, <2>2 DEF RInv, Shapes
    <2> QED
        BY <1>2, <2>1, <2>2, <2>3 DEF Apart, TaskType
<1> QED
    BY <1>1, <1>3, <1>4

LEMMA StartersApart ==
    ASSUME RInv, NEW h \in Handlers, NEW t, Start(h, t), t.pc \in {"lock", "make", "join"} PROVE Apart(h)
BY StartTurns DEF Apart, Aside

\* What a client asks for, and the joining of a room.
LEMMA AskersApart ==
    ASSUME RInv, NEW h \in Handlers,
           \/ \E kind, u, r : AskRouter(h, kind, u, r)
           \/ \E u, t : Produce(h, u, t)
           \/ \E u, t, p : Consume(h, u, t, p)
           \/ \E us, r : Join(h, us, r)
    PROVE  Apart(h)
<1>1. ASSUME NEW kind, NEW u, NEW r, AskRouter(h, kind, u, r) PROVE Apart(h)
    BY <1>1, StartersApart DEF AskRouter, Idle
<1>2. ASSUME NEW u, NEW t, Produce(h, u, t) PROVE Apart(h)
    BY <1>2, StartersApart DEF Produce, Idle
<1>3. ASSUME NEW u, NEW t, NEW p, Consume(h, u, t, p) PROVE Apart(h)
    BY <1>3, StartersApart DEF Consume, Idle
<1>4. ASSUME NEW us, NEW r, Join(h, us, r) PROVE Apart(h)
    BY <1>4, StartersApart DEF Join, Idle
<1> QED
    BY <1>1, <1>2, <1>3, <1>4
-----------------------------------------------------------------------------
(* The metrics                                                             *)

\* Handlers that are about to count an entry.
Counting(kind) == {h \in Handlers : task[h].pc = "metric" /\ task[h].kind = kind}

Countable ==
    /\ IsFiniteSet(things)
    /\ metric \in [Kinds \union {"room"} -> Int]
    /\ \A k \in Kinds : IsFiniteSet(Counting(k))

MInv == RInv /\ Countable /\ MetricsAgree

LEMMA FaultsStayed ==
    ASSUME RInv, UNCHANGED faults \/ Fault, faults' = 0 PROVE UNCHANGED faults
BY DEF RInv, LockInv, LockTypeOK, Fault

LEMMA RoomIsNoKind == "room" \notin Kinds
BY DEF Kinds

\* Nothing is made, counted or removed.
LEMMA CountsStay ==
    ASSUME MInv, RInv', UNCHANGED things, metric' \in [Kinds \union {"room"} -> Int],
           \A k \in Kinds : metric'[k] = metric[k],
           \A h \in Handlers : task'[h] = task[h] \/ (task[h].pc # "metric" /\ task'[h].pc # "metric"),
           faults' = 0 => UNCHANGED faults
    PROVE  MInv'
<1>1. \A k \in Kinds : Counting(k)' = Counting(k)
    BY DEF Counting
<1>2. Countable'
    BY <1>1 DEF MInv, Countable
<1>3. \A k \in Kinds : Pending(k)' = Pending(k)
    BY <1>1 DEF Pending, Counting
<1>4. \A k \in Kinds : CountOf(k, things)' = CountOf(k, things)
    BY DEF CountOf
<1>5. MetricsAgree'
    BY <1>3, <1>4 DEF MInv, MetricsAgree
<1> QED
    BY <1>2, <1>5 DEF MInv

\* Where faults are no longer counted as none, nothing is claimed.
LEMMA FaultyCounts ==
    ASSUME RInv', faults' # 0, IsFiniteSet(things'), metric' \in [Kinds \union {"room"} -> Int],
           \A k \in Kinds : IsFiniteSet(Counting(k)')
    PROVE  MInv'
BY DEF MInv, Countable, MetricsAgree

\* Sizes are numbers.
LEMMA CountsAreNumbers ==
    ASSUME NEW set, IsFiniteSet(set), NEW kind
    PROVE  CountOf(kind, set) \in Nat /\ IsFiniteSet({t \in set : t.kind = kind})
BY FS_Subset, FS_CardinalityType DEF CountOf

\* One more entry of its kind, one more to be counted.
LEMMA MadeCounts == ASSUME MInv, RInv', NEW h \in Handlers, Made(h) PROVE MInv'
<1>1. PICK old \in TaskType : old = task[h] /\ old.pc = "make" /\ old.kind \in Kinds
    BY TaskIsSound DEF Made, MInv, Sound
<1>2. PICK w : w = [id |-> ids + 1, kind |-> old.kind, user |-> old.user, room |-> old.room,
                    at |-> old.at, of |-> old.of]
    OBVIOUS
<1>3. things' = things \union {w} /\ UNCHANGED <<metric, faults>>
    BY <1>1, <1>2 DEF Made, lockVars
<1>4. w \notin things /\ w.kind = old.kind
    <2>1. ids \in Nat /\ w.id = ids + 1 /\ w.kind = old.kind
        BY <1>2 DEF MInv, RInv, Shapes
    <2> QED
        BY <2>1 DEF MInv, RInv, Numbered
<1>5. /\ task'[h].pc = "metric" /\ task'[h].kind = old.kind
      /\ \A k \in Handlers : k # h => task'[k] = task[k]
    BY <1>1, GotoTurns DEF Made, MInv, Points
<1>6. \A k \in Kinds : Counting(k)' = Counting(k) \union (IF k = old.kind THEN {h} ELSE {})
    BY <1>1, <1>5 DEF Counting
<1>7. h \notin Counting(old.kind)
    BY <1>1 DEF Counting
<1>8. Countable'
    <2>1. IsFiniteSet(things')
        BY <1>3, FS_AddElement DEF MInv, Countable
    <2>2. ASSUME NEW k \in Kinds PROVE IsFiniteSet(Counting(k)')
        <3>1. IsFiniteSet(Counting(k)) /\ IsFiniteSet(Counting(k) \union {h})
            BY FS_AddElement DEF MInv, Countable
        <3>2. Counting(k)' = Counting(k) \/ Counting(k)' = Counting(k) \union {h}
            BY <1>6
        <3> QED
            BY <3>1, <3>2
    <2> QED
        BY <1>3, <2>1, <2>2 DEF MInv, Countable
<1>9. ASSUME faults' = 0, NEW k \in Kinds
      PROVE  metric'[k] + Pending(k)' = CountOf(k, things)'
    <2>1. metric[k] + Cardinality(Counting(k)) = CountOf(k, things) /\ metric[k] \in Int
        BY <1>3, <1>9 DEF MInv, Countable, MetricsAgree, Pending, Counting
    <2>2. Pending(k)' = Cardinality(Counting(k)')
        BY DEF Pending, Counting
    <2>3. IsFiniteSet(Counting(k)) /\ IsFiniteSet(things)
        BY DEF MInv, Countable
    <2>4. CASE k = old.kind
        <3>1. Cardinality(Counting(k)') = Cardinality(Counting(k)) + 1
            BY <1>6, <1>7, <2>3, <2>4, FS_AddElement
        <3>2. {t \in things' : t.kind = k} = {t \in things : t.kind = k} \union {w}
            BY <1>3, <1>4, <2>4
        <3>3. CountOf(k, things)' = CountOf(k, things) + 1
            <4>1. PICK some : some = {t \in things : t.kind = k}
                OBVIOUS
            <4>2. IsFiniteSet(some) /\ w \notin some
                BY <1>4, <2>3, <4>1, CountsAreNumbers
            <4>3. Cardinality(some \union {w}) = Cardinality(some) + 1
                BY <4>2, FS_AddElement
            <4> QED
                BY <3>2, <4>1, <4>3 DEF CountOf
        <3>4. CountOf(k, things) \in Nat /\ Cardinality(Counting(k)) \in Nat
            BY <2>3, CountsAreNumbers, FS_CardinalityType
        <3> QED
            BY <1>3, <2>1, <2>2, <3>1, <3>3, <3>4
    <2>5. CASE k # old.kind
        <3>1. Counting(k)' = Counting(k)
            BY <1>6, <2>5
        <3>2. {t \in things' : t.kind = k} = {t \in things : t.kind = k}
            BY <1>3, <1>4, <2>5
        <3> QED
            BY <1>3, <2>1, <2>2, <3>1, <3>2 DEF CountOf
    <2> QED
        BY <2>4, <2>5
<1> QED
    BY <1>8, <1>9 DEF MInv, MetricsAgree

\* An entry is counted, or the fault says that it is not.
LEMMA CountMadeCounts == ASSUME MInv, RInv', NEW h \in Handlers, CountMade(h) PROVE MInv'
<1>1. PICK kind \in Kinds : kind = task[h].kind /\ task[h].pc = "metric"
    BY TaskIsSound DEF CountMade, MInv, Sound
<1>2. UNCHANGED things /\ task'[h].pc = "idle" /\ \A k \in Handlers : k # h => task'[k] = task[k]
    BY FinishTurns DEF CountMade, MInv
<1>3. \A k \in Kinds : Counting(k)' = Counting(k) \ (IF k = kind THEN {h} ELSE {})
    BY <1>1, <1>2 DEF Counting
<1>4. ASSUME NEW k \in Kinds PROVE IsFiniteSet(Counting(k)')
    <2>1. IsFiniteSet(Counting(k)) /\ IsFiniteSet(Counting(k) \ {h})
        BY FS_RemoveElement DEF MInv, Countable
    <2>2. Counting(k)' = Counting(k) \/ Counting(k)' = Counting(k) \ {h}
        BY <1>3
    <2> QED
        BY <2>1, <2>2
<1>5. CASE metric' = [metric EXCEPT ![task[h].kind] = @ + 1] /\ UNCHANGED faults
    <2>1. metric' \in [Kinds \union {"room"} -> Int]
        BY <1>1, <1>5 DEF MInv, Countable
    <2>2. Countable'
        BY <1>2, <1>4, <2>1 DEF MInv, Countable
    <2>3. ASSUME faults' = 0, NEW k \in Kinds
          PROVE  metric'[k] + Pending(k)' = CountOf(k, things)'
        <3>1. metric[k] + Cardinality(Counting(k)) = CountOf(k, things) /\ metric[k] \in Int
            BY <1>5, <2>3 DEF MInv, Countable, MetricsAgree, Pending, Counting
        <3>2. Pending(k)' = Cardinality(Counting(k)') /\ CountOf(k, things)' = CountOf(k, things)
            BY <1>2 DEF Pending, Counting, CountOf
        <3>3. CASE k = kind
            <4>1. h \in Counting(k) /\ IsFiniteSet(Counting(k))
                BY <1>1, <3>3 DEF Counting, MInv, Countable
            <4>2. Cardinality(Counting(k)') = Cardinality(Counting(k)) - 1 /\ Cardinality(Counting(k)) \in Nat
                BY <1>3, <3>3, <4>1, FS_RemoveElement, FS_CardinalityType
            <4>3. metric'[k] = metric[k] + 1
                BY <1>1, <1>5, <3>3 DEF MInv, Countable
            <4> QED
                BY <3>1, <3>2, <4>2, <4>3
        <3>4. CASE k # kind
            <4>1. metric'[k] = metric[k] /\ Counting(k)' = Counting(k)
                BY <1>1, <1>3, <1>5, <3>4 DEF MInv, Countable
            <4> QED
                BY <3>1, <3>2, <4>1
        <3> QED
            BY <3>3, <3>4
    <2> QED
        BY <2>2, <2>3 DEF MInv, MetricsAgree
<1>6. CASE Fault /\ UNCHANGED metric
    <2>1. faults' # 0
        BY <1>6 DEF MInv, RInv, LockInv, LockTypeOK, Fault
    <2> QED
        BY <1>2, <1>4, <1>6, <2>1, FaultyCounts DEF MInv, Countable
<1> QED
    BY <1>5, <1>6 DEF CountMade

\* Handlers that go on cleaning up count no entry themselves.
LEMMA SweepersCountNot ==
    ASSUME RInv, NEW h \in Handlers, task[h].pc \in {"clean", "swept"}, NEW left, Sweep(h, left)
    PROVE  /\ task[h].pc # "metric" /\ task'[h].pc # "metric"
           /\ \A k \in Handlers : k # h => task'[k] = task[k]
<1>1. PICK t : Sound(t) /\ t.pc \in Unguarded /\ task' = [task EXCEPT ![h] = t]
    BY SweepCloses
<1>2. task'[h] = t /\ \A k \in Handlers : k # h => task'[k] = task[k]
    BY <1>1 DEF RInv, Shapes
<1> QED
    BY <1>1, <1>2 DEF Unguarded

\* As many entries go as the metrics are lowered by.
LEMMA CleanUpCounts == ASSUME MInv, RInv', NEW h \in Handlers, CleanUp(h) PROVE MInv'
<1>1. PICK mine : mine = Owned(task[h].who)
    OBVIOUS
<1>2. /\ task[h].pc = "clean" /\ things' = things \ mine /\ Sweep(h, things \ mine)
      /\ metric' = [k \in DOMAIN metric |-> metric[k] - CountOf(k, mine)] /\ UNCHANGED faults
    BY <1>1 DEF CleanUp, Without, lockVars
<1>3. /\ task[h].pc # "metric" /\ task'[h].pc # "metric"
      /\ \A k \in Handlers : k # h => task'[k] = task[k]
    BY <1>2, SweepersCountNot DEF MInv
<1>4. \A k \in Kinds : Counting(k)' = Counting(k)
    BY <1>3 DEF Counting
<1>5. mine \subseteq things /\ IsFiniteSet(mine) /\ IsFiniteSet(things) /\ IsFiniteSet(things')
    <2>1. mine \in SUBSET things /\ things' \in SUBSET things
        BY <1>1, <1>2 DEF Owned
    <2> QED
        BY <2>1, FS_Subset DEF MInv, Countable
<1>6. Countable'
    <2>1. \A k \in Kinds \union {"room"} : CountOf(k, mine) \in Nat
        BY <1>5, CountsAreNumbers
    <2>2. metric' \in [Kinds \union {"room"} -> Int]
        BY <1>2, <2>1 DEF MInv, Countable
    <2> QED
        BY <1>4, <1>5, <2>2 DEF MInv, Countable
<1>7. ASSUME faults' = 0, NEW k \in Kinds
      PROVE  metric'[k] + Pending(k)' = CountOf(k, things)'
    <2>1. metric[k] + Pending(k) = CountOf(k, things) /\ metric[k] \in Int
        BY <1>2, <1>7 DEF MInv, Countable, MetricsAgree
    <2>2. Pending(k)' = Pending(k) /\ Pending(k) \in Nat
        BY <1>4, FS_CardinalityType DEF Pending, Counting, MInv, Countable
    <2>3. metric'[k] = metric[k] - CountOf(k, mine)
        BY <1>2 DEF MInv, Countable
    <2>4. PICK some, gone : some = {t \in things : t.kind = k} /\ gone = {t \in mine : t.kind = k}
        OBVIOUS
    <2>5. gone \subseteq some /\ {t \in things' : t.kind = k} = some \ gone
        BY <1>2, <1>5, <2>4
    <2>6. IsFiniteSet(some) /\ IsFiniteSet(gone)
        BY <1>5, <2>4, CountsAreNumbers
    <2>7. /\ Cardinality(some \ gone) = Cardinality(some) - Cardinality(some \intersect gone)
          /\ some \intersect gone = gone
        BY <2>5, <2>6, FS_Difference
    <2>8. CountOf(k, things)' = CountOf(k, things) - CountOf(k, mine)
        BY <2>4, <2>5, <2>7 DEF CountOf
    <2>9. CountOf(k, things) \in Nat /\ CountOf(k, mine) \in Nat
        BY <1>5, CountsAreNumbers
    <2> QED
        BY <2>1, <2>2, <2>3, <2>8, <2>9
<1> QED
    BY <1>6, <1>7 DEF MInv, MetricsAgree

LEMMA SweepOnCounts == ASSUME MInv, RInv', NEW h \in Handlers, SweepOn(h) PROVE MInv'
<1>1. /\ task[h].pc = "swept" /\ UNCHANGED things /\ Sweep(h, things)
      /\ (UNCHANGED faults \/ Fault)
      /\ (metric' = [metric EXCEPT !["room"] = @ - 1] \/ UNCHANGED metric)
    BY DEF SweepOn
<1>2. metric' \in [Kinds \union {"room"} -> Int] /\ \A k \in Kinds : metric'[k] = metric[k]
    BY <1>1, RoomIsNoKind DEF MInv, Countable
<1>3. /\ task[h].pc # "metric" /\ task'[h].pc # "metric"
      /\ \A k \in Handlers : k # h => task'[k] = task[k]
    BY <1>1, SweepersCountNot DEF MInv
<1>4. faults' = 0 => UNCHANGED faults
    BY <1>1, FaultsStayed DEF MInv
<1> QED
    BY <1>1, <1>2, <1>3, <1>4, CountsStay
-----------------------------------------------------------------------------
(* Handlers that leave, one by one                                         *)

\* Where they are: away from the locks, in the same room.
LeavesOn(h) ==
    /\ task[h].kind \in {"end", "gone"} /\ task'[h].kind = task[h].kind
    /\ task'[h].room = task[h].room
    /\ \A k \in Handlers : k # h => task'[k] = task[k]

LEMMA SweepTurns ==
    ASSUME RInv, NEW h \in Handlers, task[h].pc \in {"clean", "swept"}, NEW left, Sweep(h, left)
    PROVE  \/ /\ task[h].kind = "call" /\ task'[h].kind \notin {"end", "gone"}
              /\ \A k \in Handlers : k # h => task'[k] = task[k]
           \/ /\ LeavesOn(h) /\ task'[h].all = task[h].all
              /\ \/ task'[h].pc \in {"clean", "swept"}
                 \/ task'[h].pc = "members" /\ task[h].all = {}
                 \/ task'[h].pc = "drop" /\ task[h].all # {}
<1>1. PICK old \in TaskType : old = task[h] /\ old.kind \in {"call", "end", "gone"}
    BY TaskIsSound DEF Sound
<1>2. ASSUME NEW t, task' = [task EXCEPT ![h] = t] PROVE task'[h] = t /\ \A k \in Handlers : k # h => task'[k] = task[k]
    BY <1>2 DEF RInv, Shapes
<1>3. CASE AfterCleanUp(h)
    <2>1. CASE old.kind = "call"
        <3>1. task'[h] = Idle /\ \A k \in Handlers : k # h => task'[k] = task[k]
            BY <1>1, <1>3, <2>1, FinishTurns DEF AfterCleanUp
        <3> QED
            BY <1>1, <2>1, <3>1, IdleIsSound
    <2>2. CASE old.kind # "call" /\ old.all = {}
        <3>1. Goto(h, "members") /\ "members" \in Points
            BY <1>1, <1>3, <2>2 DEF AfterCleanUp, Points
        <3> QED
            BY <1>1, <2>2, <3>1, GotoTurns DEF LeavesOn
    <2>3. CASE old.kind # "call" /\ old.all # {} /\ old.rest = {}
        <3>1. PICK t : t = [old EXCEPT !.pc = "drop", !.rest = old.all]
            OBVIOUS
        <3>2. task' = [task EXCEPT ![h] = t]
            BY <1>1, <1>3, <2>3, <3>1 DEF AfterCleanUp, RInv, Shapes
        <3>3. t.pc = "drop" /\ t.kind = old.kind /\ t.room = old.room /\ t.all = old.all
            BY <3>1 DEF TaskType
        <3> QED
            BY <1>1, <1>2, <2>3, <3>2, <3>3 DEF LeavesOn
    <2>4. CASE old.kind # "call" /\ old.all # {} /\ old.rest # {}
        <3>1. PICK v \in old.rest : task' = [task EXCEPT ![h].pc = "clean", ![h].who = v,
                                                        ![h].rest = old.rest \ {v}, ![h].seen = {}]
            BY <1>1, <1>3, <2>4 DEF AfterCleanUp
        <3>2. PICK t : t = [old EXCEPT !.pc = "clean", !.who = v, !.rest = old.rest \ {v}, !.seen = {}]
            OBVIOUS
        <3>3. task' = [task EXCEPT ![h] = t]
            BY <1>1, <3>1, <3>2 DEF RInv, Shapes
        <3>4. t.pc = "clean" /\ t.kind = old.kind /\ t.room = old.room /\ t.all = old.all
            BY <3>2 DEF TaskType
        <3> QED
            BY <1>1, <1>2, <2>4, <3>3, <3>4 DEF LeavesOn
    <2> QED
        BY <2>1, <2>2, <2>3, <2>4
<1>4. ASSUME NEW seen, task' = [task EXCEPT ![h].pc = "swept", ![h].seen = @ \union seen]
      PROVE  /\ task'[h].pc = "swept" /\ task'[h].kind = old.kind /\ task'[h].room = old.room
             /\ task'[h].all = old.all /\ \A k \in Handlers : k # h => task'[k] = task[k]
    <2>1. PICK t : t = [old EXCEPT !.pc = "swept", !.seen = old.seen \union seen]
        OBVIOUS
    <2>2. task' = [task EXCEPT ![h] = t]
        BY <1>1, <1>4, <2>1 DEF RInv, Shapes
    <2>3. t.pc = "swept" /\ t.kind = old.kind /\ t.room = old.room /\ t.all = old.all
        BY <2>1 DEF TaskType
    <2> QED
        BY <1>2, <2>2, <2>3
<1>5. AfterCleanUp(h) \/ \E seen : task' = [task EXCEPT ![h].pc = "swept", ![h].seen = @ \union seen]
    BY DEF Sweep
<1> QED
    BY <1>1, <1>3, <1>4, <1>5 DEF LeavesOn

LEMMA CountMembersTurns ==
    ASSUME RInv, NEW h \in Handlers, CountMembers(h)
    PROVE  /\ LeavesOn(h) /\ task[h].pc = "members"
           /\ \/ task'[h].pc = "fetch"
              \/ task'[h].pc = "keys" /\ ~(Cardinality(Present(task[h].room)) <= 1)
<1>1. task[h].pc = "members" /\ task[h].kind \in {"end", "gone"}
    BY TaskIsSound DEF CountMembers, Sound
<1>2. \/ Goto(h, "fetch")
      \/ Goto(h, "keys") /\ ~(Cardinality(Present(task[h].room)) <= 1)
    BY DEF CountMembers
<1>3. "fetch" \in Points /\ "keys" \in Points
    BY DEF Points
<1> QED
    BY <1>1, <1>2, <1>3, GotoTurns DEF LeavesOn

LEMMA FetchSocketsTurns ==
    ASSUME RInv, NEW h \in Handlers, FetchSockets(h)
    PROVE  /\ LeavesOn(h) /\ task[h].pc = "fetch"
           /\ \/ task'[h].pc = "keys" /\ Present(task[h].room) = {}
              \/ task'[h].pc = "clean" /\ task'[h].all = Present(task[h].room) /\ task'[h].all # {}
<1>1. PICK old \in TaskType : old = task[h] /\ old.pc = "fetch" /\ old.kind \in {"end", "gone"}
    BY TaskIsSound DEF FetchSockets, Sound
<1>2. PICK there : there = Present(old.room)
    OBVIOUS
<1>3. CASE there = {} /\ Goto(h, "keys")
    <2>1. "keys" \in Points
        BY DEF Points
    <2> QED
        BY <1>1, <1>2, <1>3, <2>1, GotoTurns DEF LeavesOn
<1>4. ASSUME NEW v \in there,
             task' = [task EXCEPT ![h].pc = "clean", ![h].who = v, ![h].seen = {},
                                  ![h].all = there, ![h].rest = there \ {v}]
      PROVE  LeavesOn(h) /\ task'[h].pc = "clean" /\ task'[h].all = there
    <2>1. PICK t : t = [old EXCEPT !.pc = "clean", !.who = v, !.seen = {}, !.all = there, !.rest = there \ {v}]
        OBVIOUS
    <2>2. task' = [task EXCEPT ![h] = t]
        BY <1>1, <1>4, <2>1 DEF RInv, Shapes
    <2>3. t.pc = "clean" /\ t.kind = old.kind /\ t.room = old.room /\ t.all = there
        BY <2>1 DEF TaskType
    <2>4. task'[h] = t /\ \A k \in Handlers : k # h => task'[k] = task[k]
        BY <2>2 DEF RInv, Shapes
    <2> QED
        BY <1>1, <2>3, <2>4 DEF LeavesOn
<1>5. there # {} => \E v \in there :
            task' = [task EXCEPT ![h].pc = "clean", ![h].who = v, ![h].seen = {},
                                 ![h].all = there, ![h].rest = there \ {v}]
    BY <1>1, <1>2 DEF FetchSockets
<1>6. there = {} => Goto(h, "keys")
    BY <1>1, <1>2 DEF FetchSockets
<1> QED
    BY <1>1, <1>2, <1>3, <1>4, <1>5, <1>6

LEMMA DropKeyTurns ==
    ASSUME RInv, NEW h \in Handlers, DropKey(h)
    PROVE  /\ LeavesOn(h) /\ task[h].pc = "drop" /\ task'[h].all = task[h].all
           /\ \/ task'[h].pc = "drop"
              \/ task'[h].pc = "evict" /\ task'[h].rest = task[h].all
<1>1. PICK old \in TaskType : old = task[h] /\ old.pc = "drop" /\ old.kind \in {"end", "gone"}
    BY TaskIsSound DEF DropKey, Sound
<1>2. PICK v \in old.rest :
        task' = [task EXCEPT ![h].pc = IF old.rest = {v} THEN "evict" ELSE "drop",
                             ![h].rest = IF old.rest = {v} THEN old.all ELSE @ \ {v}]
    BY <1>1 DEF DropKey
<1>3. PICK t : t = [old EXCEPT !.pc = IF old.rest = {v} THEN "evict" ELSE "drop",
                               !.rest = IF old.rest = {v} THEN old.all ELSE old.rest \ {v}]
    OBVIOUS
<1>4. task' = [task EXCEPT ![h] = t]
    BY <1>1, <1>2, <1>3 DEF RInv, Shapes
<1>5. /\ t.kind = old.kind /\ t.room = old.room /\ t.all = old.all
      /\ t.pc = "drop" \/ (t.pc = "evict" /\ t.rest = old.all)
    BY <1>3 DEF TaskType
<1>6. task'[h] = t /\ \A k \in Handlers : k # h => task'[k] = task[k]
    BY <1>4 DEF RInv, Shapes
<1> QED
    BY <1>1, <1>5, <1>6 DEF LeavesOn

LEMMA EvictTurns ==
    ASSUME RInv, NEW h \in Handlers, Evict(h)
    PROVE  /\ LeavesOn(h) /\ task[h].pc = "evict"
           /\ \E v \in task[h].rest :
                /\ inRoom' = inRoom \ {<<v, task[h].room>>}
                /\ task'[h].rest = task[h].rest \ {v}
                /\ task'[h].pc = "evict" \/ (task'[h].pc = "keys" /\ task[h].rest = {v})
<1>1. PICK old \in TaskType : old = task[h] /\ old.pc = "evict" /\ old.kind \in {"end", "gone"}
    BY TaskIsSound DEF Evict, Sound
<1>2. PICK v \in old.rest :
        /\ inRoom' = inRoom \ {<<v, old.room>>}
        /\ task' = [task EXCEPT ![h].pc = IF old.rest = {v} THEN "keys" ELSE "evict", ![h].rest = @ \ {v}]
    BY <1>1 DEF Evict
<1>3. PICK t : t = [old EXCEPT !.pc = IF old.rest = {v} THEN "keys" ELSE "evict", !.rest = old.rest \ {v}]
    OBVIOUS
<1>4. task' = [task EXCEPT ![h] = t]
    BY <1>1, <1>2, <1>3 DEF RInv, Shapes
<1>5. /\ t.kind = old.kind /\ t.room = old.room /\ t.rest = old.rest \ {v}
      /\ t.pc = "evict" \/ (t.pc = "keys" /\ old.rest = {v})
    BY <1>3 DEF TaskType
<1>6. task'[h] = t /\ \A k \in Handlers : k # h => task'[k] = task[k]
    BY <1>4 DEF RInv, Shapes
<1> QED
    BY <1>1, <1>2, <1>5, <1>6 DEF LeavesOn

\* The first step of leaving: somebody is to be cleaned up.
LEMMA LeaveTurns ==
    ASSUME RInv, NEW h \in Handlers, NEW t, t.pc \in {"keys", "clean"}, Start(h, t)
    PROVE  /\ task[h].pc = "idle" /\ task[h].kind = "none" /\ task'[h] = t
           /\ \A k \in Handlers : k # h => task'[k] = task[k]
BY StartTurns, TaskIsSound DEF Sound

-----------------------------------------------------------------------------
(* The metrics, continued                                                  *)

LEMMA LeaversCount ==
    ASSUME MInv, RInv', NEW h \in Handlers,
           \/ CountMembers(h) \/ FetchSockets(h) \/ DropKey(h) \/ Evict(h) \/ DropOwnKeys(h)
           \/ \E u : EndCall(h, u)
           \/ \E u, r : End(h, u, r)
           \/ \E c \in closing : OnDisconnect(h, c[1], c[2])
    PROVE  MInv'
<1>1. UNCHANGED <<things, metric, faults>>
    BY DEF CountMembers, FetchSockets, DropKey, Evict, DropOwnKeys, EndCall, End, OnDisconnect, lockVars, mapVars
<1>2. ASSUME NEW t, t.pc \in {"keys", "clean"}, Start(h, t)
      PROVE  /\ task[h].pc # "metric" /\ task'[h].pc # "metric"
             /\ \A k \in Handlers : k # h => task'[k] = task[k]
    BY <1>2, LeaveTurns DEF MInv
<1>3. /\ task[h].pc # "metric" /\ task'[h].pc # "metric"
      /\ \A k \in Handlers : k # h => task'[k] = task[k]
    <2>1. CASE CountMembers(h) \/ FetchSockets(h) \/ DropKey(h) \/ Evict(h)
        BY <2>1, CountMembersTurns, FetchSocketsTurns, DropKeyTurns, EvictTurns DEF MInv, LeavesOn
    <2>2. CASE DropOwnKeys(h)
        BY <2>2, FinishTurns DEF DropOwnKeys, MInv
    <2>3. ASSUME NEW u, EndCall(h, u)
          PROVE  /\ task[h].pc # "metric" /\ task'[h].pc # "metric"
                 /\ \A k \in Handlers : k # h => task'[k] = task[k]
        <3>1. PICK t : t = [Idle EXCEPT !.pc = "clean", !.kind = "call", !.user = u, !.who = u]
            OBVIOUS
        <3>2. Start(h, t)
            BY <2>3, <3>1 DEF EndCall
        <3>3. t.pc \in {"keys", "clean"}
            BY <3>1 DEF Idle
        <3> QED
            BY <1>2, <3>2, <3>3
    <2>4. ASSUME NEW u, NEW r, End(h, u, r)
          PROVE  /\ task[h].pc # "metric" /\ task'[h].pc # "metric"
                 /\ \A k \in Handlers : k # h => task'[k] = task[k]
        <3>1. PICK t : t = [Idle EXCEPT !.pc = "clean", !.kind = "end", !.user = u, !.room = r, !.who = u]
            OBVIOUS
        <3>2. Start(h, t)
            BY <2>4, <3>1 DEF End
        <3>3. t.pc \in {"keys", "clean"}
            BY <3>1 DEF Idle
        <3> QED
            BY <1>2, <3>2, <3>3
    <2>5. ASSUME NEW c \in closing, OnDisconnect(h, c[1], c[2])
          PROVE  /\ task[h].pc # "metric" /\ task'[h].pc # "metric"
                 /\ \A k \in Handlers : k # h => task'[k] = task[k]
        <3>1. PICK t : t = [Idle EXCEPT !.pc = IF roomKey[c[1]] = Nowhere THEN "keys" ELSE "clean",
                                    !.kind = "gone", !.user = c[1], !.room = roomKey[c[1]], !.who = c[1]]
            OBVIOUS
        <3>2. Start(h, t)
            BY <2>5, <3>1 DEF OnDisconnect
        <3>3. t.pc \in {"keys", "clean"}
            BY <3>1 DEF Idle
        <3> QED
            BY <1>2, <3>2, <3>3
    <2> QED
        BY <2>1, <2>2, <2>3, <2>4, <2>5
<1>4. metric' \in [Kinds \union {"room"} -> Int]
    BY <1>1 DEF MInv, Countable
<1> QED
    BY <1>1, <1>3, <1>4, CountsStay

\* Handlers that neither make an entry nor remove one.
LEMMA ApartCounts ==
    ASSUME MInv, RInv', NEW h \in Handlers, Apart(h), UNCHANGED things,
           UNCHANGED metric \/ metric' = [metric EXCEPT !["room"] = @ + 1],
           UNCHANGED faults \/ Fault
    PROVE  MInv'
<1>1. \A k \in Handlers : task'[k] = task[k] \/ (task[k].pc # "metric" /\ task'[k].pc # "metric")
    BY ApartIsHarmless DEF MInv, Harmless
<1>2. metric' \in [Kinds \union {"room"} -> Int] /\ \A k \in Kinds : metric'[k] = metric[k]
    BY RoomIsNoKind DEF MInv, Countable
<1>3. faults' = 0 => UNCHANGED faults
    BY FaultsStayed DEF MInv
<1> QED
    BY <1>1, <1>2, <1>3, CountsStay

LEMMA LockFaults ==
    ASSUME NEW h, Acquire(h) \/ Miss(h) \/ GiveUp(h) \/ Release(h) \/ Abandon(h)
    PROVE  UNCHANGED faults \/ Fault
BY DEF Acquire, Miss, GiveUp, Missed, Release, Abandon

LEMMA LockersCount ==
    ASSUME MInv, RInv', NEW h \in Handlers,
           \/ GotLock(h) \/ LockMissed(h) \/ Found(h) \/ SelectWorker(h) \/ RouterFails(h)
           \/ CreateRouter(h) \/ CreateFails(h) \/ CountRoom(h) \/ Unlock(h) \/ MakeFails(h)
    PROVE  MInv'
<1>1. Apart(h)
    BY LockersApart DEF MInv
<1>2. UNCHANGED things /\ (UNCHANGED metric \/ metric' = [metric EXCEPT !["room"] = @ + 1])
    BY DEF GotLock, LockMissed, Found, SelectWorker, RouterFails, CreateRouter, CreateFails, CountRoom,
           Unlock, MakeFails, mapVars
<1>3. UNCHANGED faults \/ Fault
    <2>1. CASE GotLock(h) \/ LockMissed(h) \/ Unlock(h)
        BY <2>1, LockFaults DEF GotLock, LockMissed, Unlock
    <2>2. CASE Found(h) \/ SelectWorker(h) \/ RouterFails(h) \/ CreateRouter(h) \/ CreateFails(h)
               \/ CountRoom(h) \/ MakeFails(h)
        BY <2>2 DEF Found, SelectWorker, RouterFails, CreateRouter, CreateFails, CountRoom, MakeFails, lockVars
    <2> QED
        BY <2>1, <2>2
<1> QED
    BY <1>1, <1>2, <1>3, ApartCounts

LEMMA AskersCount ==
    ASSUME MInv, RInv', NEW h \in Handlers,
           \/ \E kind, u, r : AskRouter(h, kind, u, r)
           \/ \E u, t : Produce(h, u, t)
           \/ \E u, t, p : Consume(h, u, t, p)
           \/ \E us, r : Join(h, us, r)
           \/ SetRoomKey(h)
    PROVE  MInv'
<1>1. Apart(h)
    BY AskersApart, SetRoomKeyApart DEF MInv
<1>2. UNCHANGED <<things, metric, faults>>
    BY DEF AskRouter, Produce, Consume, Join, SetRoomKey, Want, mapVars, lockVars
<1> QED
    BY <1>1, <1>2, ApartCounts
LEMMA FaultIsOne == ASSUME RInv, Fault PROVE faults' # 0
BY DEF RInv, LockInv, LockTypeOK, Fault

LEMMA WorkerDiesCounts ==
    ASSUME MInv, RInv', NEW i \in 1 .. WorkerCount, WorkerDies(i) PROVE MInv'
<1>1. faults' # 0 /\ UNCHANGED <<metric, task>>
    BY FaultIsOne DEF WorkerDies, MInv
<1>2. IsFiniteSet(things')
    <2>1. things' \in SUBSET things
        BY DEF WorkerDies
    <2> QED
        BY <2>1, FS_Subset DEF MInv, Countable
<1>3. \A k \in Kinds : Counting(k)' = Counting(k)
    BY <1>1 DEF Counting
<1> QED
    BY <1>1, <1>2, <1>3, FaultyCounts DEF MInv, Countable

LEMMA ShutdownCounts == ASSUME MInv, RInv', Shutdown PROVE MInv'
<1>1. faults' # 0 /\ things' = {} /\ metric' = [k \in DOMAIN metric |-> 0] /\ task' = [h \in Handlers |-> Idle]
    BY FaultIsOne DEF Shutdown, MInv
<1>2. metric' \in [Kinds \union {"room"} -> Int]
    BY <1>1 DEF MInv, Countable
<1>3. \A k \in Kinds : Counting(k)' = {}
    BY <1>1, IdleIsSound DEF Counting
<1> QED
    BY <1>1, <1>2, <1>3, FaultyCounts, FS_EmptySet

\* Comings, goings and timers touch no entry.
LEMMA OthersCount ==
    ASSUME MInv, RInv',
           \/ \E u \in Users : Disconnect(u) \/ Connect(u) \/ \E r \in Rooms : Hear(u, r)
           \/ \E i \in 1 .. WorkerCount : WorkerRestarts(i)
           \/ \E r \in Rooms : LockExpires(r)
           \/ UNCHANGED vars
    PROVE  MInv'
<1>1. UNCHANGED <<things, metric, task>>
    BY DEF Disconnect, Connect, Hear, WorkerRestarts, LockExpires, vars, mapVars
<1>2. UNCHANGED faults \/ Fault
    BY DEF Disconnect, Connect, Hear, WorkerRestarts, LockExpires, Expire, Outlast, vars, lockVars
<1>3. faults' = 0 => UNCHANGED faults
    BY <1>2, FaultsStayed DEF MInv
<1>4. metric' \in [Kinds \union {"room"} -> Int]
    BY <1>1 DEF MInv, Countable
<1> QED
    BY <1>1, <1>3, <1>4, CountsStay

LEMMA MHandlerStep == ASSUME MInv, RInv', NEW h \in Handlers, HandlerStep(h) PROVE MInv'
BY LockersCount, MadeCounts, CountMadeCounts, CleanUpCounts, SweepOnCounts, LeaversCount, AskersCount
DEF HandlerStep

LEMMA MStep == MInv /\ [Next]_vars => MInv'
<1> SUFFICES ASSUME MInv, [Next]_vars PROVE MInv'
    OBVIOUS
<1>0. RInv'
    BY RStep DEF MInv
<1>1. CASE \E h \in Handlers : HandlerStep(h)
    BY <1>0, <1>1, MHandlerStep
<1>2. CASE \E h \in Handlers, u \in Users, r \in Rooms : Client(h, u, r)
    <2>1. PICK h \in Handlers, u \in Users, r \in Rooms : Client(h, u, r)
        BY <1>2
    <2>2. CASE End(h, u, r)
        BY <1>0, <2>2, LeaversCount
    <2>3. CASE \/ \E kind : AskRouter(h, kind, u, r)
               \/ \E t : Produce(h, u, t)
               \/ \E t, p : Consume(h, u, t, p)
        BY <1>0, <2>3, AskersCount
    <2> QED
        BY <2>1, <2>2, <2>3 DEF Client
<1>3. CASE \E h \in Handlers, r \in Rooms : AskRouter(h, "caps", Nobody, r)
    BY <1>0, <1>3, AskersCount
<1>4. CASE \E h \in Handlers, us \in SUBSET Users, r \in Rooms : Cardinality(us) >= 2 /\ Join(h, us, r)
    BY <1>0, <1>4, AskersCount
<1>5. CASE \E h \in Handlers, u \in Users : EndCall(h, u)
    BY <1>0, <1>5, LeaversCount
<1>6. CASE \E h \in Handlers : \E c \in closing : OnDisconnect(h, c[1], c[2])
    BY <1>0, <1>6, LeaversCount
<1>7. CASE \E u \in Users : Disconnect(u) \/ Connect(u) \/ \E r \in Rooms : Hear(u, r)
    BY <1>0, <1>7, OthersCount
<1>8. CASE \E i \in 1 .. WorkerCount : WorkerDies(i) \/ WorkerRestarts(i)
    BY <1>0, <1>8, WorkerDiesCounts, OthersCount
<1>9. CASE \E r \in Rooms : LockExpires(r)
    BY <1>0, <1>9, OthersCount
<1>10. CASE Shutdown
    BY <1>0, <1>10, ShutdownCounts
<1>11. CASE UNCHANGED vars
    BY <1>0, <1>11, OthersCount
<1> QED
    BY <1>1, <1>2, <1>3, <1>4, <1>5, <1>6, <1>7, <1>8, <1>9, <1>10, <1>11 DEF Next

LEMMA MInit == Init => MInv
<1> SUFFICES ASSUME Init PROVE MInv
    OBVIOUS
<1>1. /\ things = {} /\ metric = [k \in Kinds \union {"room"} |-> 0]
      /\ task = [h \in Handlers |-> Idle]
    BY DEF Init
<1>2. \A k : Counting(k) = {}
    BY <1>1, IdleIsSound DEF Counting
<1>3. Countable
    BY <1>1, <1>2, FS_EmptySet DEF Countable
<1>4. \A k : Pending(k) = 0
    BY <1>2, FS_EmptySet DEF Pending, Counting
<1>5. \A k : CountOf(k, things) = 0
    <2>1. \A k : {t \in things : t.kind = k} = {}
        BY <1>1
    <2> QED
        BY <2>1, FS_EmptySet DEF CountOf
<1>6. MetricsAgree
    BY <1>1, <1>4, <1>5 DEF MetricsAgree
<1> QED
    BY <1>3, <1>6, RInit DEF MInv

\* Without a fault each metric is the size of its Map, but for what is about to
\* be counted (updateMetrics): the counters of cleanUp and of createTransport,
\* createProducer and createConsumer meet in the end.
THEOREM MetricsAgreeAlways == Spec => []MetricsAgree
<1>1. MInv => MetricsAgree
    BY DEF MInv
<1> QED
    BY MInit, MStep, <1>1, PTL DEF Spec
-----------------------------------------------------------------------------
(* Who leaves is waited for                                                *)

\* Points at which a handler has not yet decided what becomes of its room.
Watch == {"clean", "swept", "members", "fetch", "drop", "evict"}

\* The handler has fetched who is in the room.
Snapshot(t) == t.pc = "drop" \/ (t.pc \in {"clean", "swept"} /\ t.all # {})

Leaves(t) == t.kind \in {"end", "gone"}

\* Nobody enters behind a handler that deletes the room, ...
Fetched(t, there) ==
    /\ Snapshot(t) => there \subseteq t.all
    /\ t.pc = "evict" => there \subseteq t.rest

Watched(r) ==
    \/ \E c \in closing : r \in c[2]
    \/ \E h \in Leaving(r) : task[h].pc \in Watch

\* ... and a handler is still at work on a room with one member.
Departs(r) ==
    /\ \A h \in Leaving(r) : Fetched(task[h], Present(r))
    /\ Cardinality(Present(r)) = 1 => Watched(r)

Departing == \A r \in Rooms \ excused : Departs(r)

DInv == RInv /\ Departing

\* Nobody enters or leaves.
LEMMA NobodyDeparts ==
    ASSUME Departing, UNCHANGED <<inRoom, closing>>, excused \subseteq excused',
           \A h \in Handlers : \/ task'[h] = task[h]
                               \/ (~Leaves(task[h]) \/ task[h].pc \notin Watch) /\ ~Leaves(task'[h])
    PROVE  Departing'
<1> SUFFICES ASSUME NEW r \in Rooms \ excused' PROVE Departs(r)'
    BY DEF Departing
<1>1. Departs(r)
    BY DEF Departing
<1>2. Present(r)' = Present(r)
    BY DEF Present
<1>3. \A h \in Leaving(r)' : h \in Leaving(r) /\ task'[h] = task[h]
    BY DEF Leaving, Leaves
<1>4. \A h \in Leaving(r)' : Fetched(task[h], Present(r))'
    BY <1>1, <1>2, <1>3 DEF Departs, Fetched, Snapshot
<1>5. Watched(r) => Watched(r)'
    BY DEF Watched, Leaving, Leaves
<1> QED
    BY <1>1, <1>2, <1>4, <1>5 DEF Departs

LEMMA ApartDeparts ==
    ASSUME DInv, RInv', NEW h \in Handlers, Apart(h), UNCHANGED <<inRoom, closing>>, excused \subseteq excused'
    PROVE  DInv'
<1>1. \A k \in Handlers : task'[k] = task[k] \/ (~Leaves(task[k]) /\ ~Leaves(task'[k]))
    BY ApartIsHarmless DEF DInv, Harmless, Leaves
<1> QED
    BY <1>1, NobodyDeparts DEF DInv

\* Handler h leaves room r, and has to do with no other.
LEMMA OneDeparts ==
    ASSUME DInv, RInv', NEW h \in Handlers, NEW r,
           Leaves(task[h]) => task[h].room = r, Leaves(task'[h]) => task'[h].room = r,
           \A k \in Handlers : k # h => task'[k] = task[k],
           excused \subseteq excused',
           \A q \in Rooms : q # r /\ q \notin excused' => Present(q)' = Present(q),
           \A q \in Rooms : q # r /\ q \notin excused' => \A c \in closing : q \in c[2] => c \in closing',
           r \in Rooms \ excused' =>
                /\ Present(r)' \subseteq Present(r)
                /\ Leaves(task'[h]) => Fetched(task'[h], Present(r)')
                /\ Cardinality(Present(r)') = 1 => Leaves(task'[h]) /\ task'[h].pc \in Watch
    PROVE  DInv'
<1> SUFFICES ASSUME NEW q \in Rooms \ excused' PROVE Departs(q)'
    BY DEF DInv, Departing
<1>1. Departs(q)
    BY DEF DInv, Departing
<1>2. CASE q # r
    <2>1. Present(q)' = Present(q)
        BY <1>2
    <2>2. \A k \in Handlers : (k \in Leaving(q)' <=> k \in Leaving(q)) /\ (k \in Leaving(q) => task'[k] = task[k])
        BY <1>2 DEF Leaving, Leaves
    <2>3. \A k \in Leaving(q)' : Fetched(task[k], Present(q))'
        BY <1>1, <2>1, <2>2 DEF Departs, Fetched, Snapshot, Leaving
    <2>4. Watched(q) => Watched(q)'
        BY <1>2, <2>2 DEF Watched, Leaving
    <2> QED
        BY <1>1, <2>1, <2>3, <2>4 DEF Departs
<1>3. CASE q = r
    <2>1. \A k \in Leaving(q)' : k # h => Fetched(task[k], Present(q))'
        BY <1>1, <1>3 DEF Departs, Fetched, Snapshot, Leaving
    <2>2. h \in Leaving(q)' => Fetched(task[h], Present(q))'
        BY <1>3 DEF Leaving, Leaves, Fetched, Snapshot
    <2>3. Leaves(task'[h]) /\ task'[h].pc \in Watch => Watched(q)'
        BY <1>3 DEF Watched, Leaving, Leaves
    <2> QED
        BY <1>3, <2>1, <2>2, <2>3 DEF Departs
<1> QED
    BY <1>2, <1>3

\* A leaver that goes on while everybody stays where they are.
LEMMA LeaverDeparts ==
    ASSUME DInv, RInv', NEW h \in Handlers, LeavesOn(h), UNCHANGED <<inRoom, closing, excused>>,
           task[h].room \in Rooms \ excused =>
                /\ Fetched(task[h], Present(task[h].room)) => Fetched(task'[h], Present(task[h].room))
                /\ Cardinality(Present(task[h].room)) = 1 => task'[h].pc \in Watch
    PROVE  DInv'
<1>1. PICK r : r = task[h].room
    OBVIOUS
<1>2. \A q : Present(q)' = Present(q)
    BY DEF Present
<1>3. r \in Rooms \ excused => Fetched(task[h], Present(r))
    BY <1>1 DEF DInv, Departing, Departs, Leaving, LeavesOn
<1> QED
    BY <1>1, <1>2, <1>3, OneDeparts DEF LeavesOn, Leaves

LEMMA PresentIsFinite == ASSUME NEW r PROVE IsFiniteSet(Present(r)) /\ Cardinality(Present(r)) \in Nat
<1>1. Present(r) \in SUBSET Users
    BY DEF Present
<1> QED
    BY <1>1, MediaAssumption, LockAssumption, FS_Subset, FS_CardinalityType

LEMMA SweepDeparts ==
    ASSUME DInv, RInv', NEW h \in Handlers, task[h].pc \in {"clean", "swept"}, NEW left, Sweep(h, left),
           UNCHANGED <<inRoom, closing, excused>>
    PROVE  DInv'
<1>1. CASE /\ task[h].kind = "call" /\ task'[h].kind \notin {"end", "gone"}
           /\ \A k \in Handlers : k # h => task'[k] = task[k]
    <2>1. ~Leaves(task[h]) /\ ~Leaves(task'[h])
        BY <1>1 DEF Leaves
    <2> QED
        BY <1>1, <2>1, NobodyDeparts DEF DInv
<1>2. CASE /\ LeavesOn(h) /\ task'[h].all = task[h].all
           /\ \/ task'[h].pc \in {"clean", "swept"}
              \/ task'[h].pc = "members" /\ task[h].all = {}
              \/ task'[h].pc = "drop" /\ task[h].all # {}
    <2>1. task'[h].pc \in Watch
        BY <1>2 DEF Watch
    <2>2. \A there : Fetched(task[h], there) => Fetched(task'[h], there)
        BY <1>2 DEF Fetched, Snapshot
    <2> QED
        BY <1>2, <2>1, <2>2, LeaverDeparts
<1> QED
    BY <1>1, <1>2, SweepTurns DEF DInv

LEMMA CountMembersDeparts == ASSUME DInv, RInv', NEW h \in Handlers, CountMembers(h) PROVE DInv'
<1>1. /\ LeavesOn(h)
      /\ \/ task'[h].pc = "fetch"
         \/ task'[h].pc = "keys" /\ ~(Cardinality(Present(task[h].room)) <= 1)
    BY CountMembersTurns DEF DInv
<1>2. \A there : Fetched(task'[h], there)
    BY <1>1 DEF Fetched, Snapshot
<1>3. Cardinality(Present(task[h].room)) = 1 => task'[h].pc \in Watch
    BY <1>1, PresentIsFinite DEF Watch
<1> QED
    BY <1>1, <1>2, <1>3, LeaverDeparts DEF CountMembers, socketVars, history

LEMMA FetchSocketsDeparts == ASSUME DInv, RInv', NEW h \in Handlers, FetchSockets(h) PROVE DInv'
<1>1. /\ LeavesOn(h)
      /\ \/ task'[h].pc = "keys" /\ Present(task[h].room) = {}
         \/ task'[h].pc = "clean" /\ task'[h].all = Present(task[h].room)
    BY FetchSocketsTurns DEF DInv
<1>2. Fetched(task'[h], Present(task[h].room))
    BY <1>1 DEF Fetched, Snapshot
<1>3. Cardinality(Present(task[h].room)) = 1 => task'[h].pc \in Watch
    BY <1>1, FS_EmptySet DEF Watch
<1> QED
    BY <1>1, <1>2, <1>3, LeaverDeparts DEF FetchSockets, socketVars, history

LEMMA DropKeyDeparts == ASSUME DInv, RInv', NEW h \in Handlers, DropKey(h) PROVE DInv'
<1>1. /\ LeavesOn(h) /\ task[h].pc = "drop" /\ task'[h].all = task[h].all
      /\ \/ task'[h].pc = "drop"
         \/ task'[h].pc = "evict" /\ task'[h].rest = task[h].all
    BY DropKeyTurns DEF DInv
<1>2. \A there : Fetched(task[h], there) => Fetched(task'[h], there)
    BY <1>1 DEF Fetched, Snapshot
<1>3. task'[h].pc \in Watch
    BY <1>1 DEF Watch
<1> QED
    BY <1>1, <1>2, <1>3, LeaverDeparts DEF DropKey, history

LEMMA EvictDeparts == ASSUME DInv, RInv', NEW h \in Handlers, Evict(h) PROVE DInv'
<1>1. LeavesOn(h) /\ task[h].pc = "evict" /\ UNCHANGED <<closing, excused>>
    BY EvictTurns DEF DInv, Evict, history
<1>2. PICK v \in task[h].rest :
        /\ inRoom' = inRoom \ {<<v, task[h].room>>}
        /\ task'[h].rest = task[h].rest \ {v}
        /\ task'[h].pc = "evict" \/ (task'[h].pc = "keys" /\ task[h].rest = {v})
    BY EvictTurns DEF DInv
<1>3. PICK r : r = task[h].room
    OBVIOUS
<1>4. \A q : q # r => Present(q)' = Present(q)
    BY <1>2, <1>3 DEF Present
<1>5. Present(r)' = Present(r) \ {v}
    BY <1>2, <1>3 DEF Present
<1>6. ASSUME r \in Rooms \ excused'
      PROVE  /\ Present(r)' \subseteq Present(r)
             /\ Fetched(task'[h], Present(r)')
             /\ Cardinality(Present(r)') = 1 => task'[h].pc \in Watch
    <2>1. Present(r) \subseteq task[h].rest
        BY <1>1, <1>3, <1>6 DEF DInv, Departing, Departs, Leaving, LeavesOn, Fetched
    <2>2. Fetched(task'[h], Present(r)')
        BY <1>2, <1>5, <2>1 DEF Fetched, Snapshot
    <2>3. task'[h].pc = "keys" => Present(r)' = {}
        BY <1>2, <1>5, <2>1
    <2>4. Cardinality(Present(r)') = 1 => task'[h].pc \in Watch
        BY <1>2, <2>3, FS_EmptySet DEF Watch
    <2> QED
        BY <1>5, <2>2, <2>4
<1> QED
    BY <1>1, <1>3, <1>4, <1>6, OneDeparts DEF LeavesOn, Leaves
LEMMA EndDeparts ==
    ASSUME DInv, RInv', NEW h \in Handlers, NEW u \in Users, NEW r \in Rooms, End(h, u, r) PROVE DInv'
<1>1. PICK t : t = [Idle EXCEPT !.pc = "clean", !.kind = "end", !.user = u, !.room = r, !.who = u]
    OBVIOUS
<1>2. t.pc = "clean" /\ t.kind = "end" /\ t.room = r /\ t.all = {}
    BY <1>1 DEF Idle
<1>3. Start(h, t) /\ UNCHANGED <<closing, excused>> /\ inRoom' = inRoom \ {<<u, r>>}
    BY <1>1 DEF End
<1>4. task[h].kind = "none" /\ task'[h] = t /\ \A k \in Handlers : k # h => task'[k] = task[k]
    BY <1>2, <1>3, LeaveTurns DEF DInv
<1>5. Fetched(t, Present(r)') /\ t.pc \in Watch /\ Leaves(t) /\ ~Leaves(task[h])
    BY <1>2, <1>4 DEF Fetched, Snapshot, Watch, Leaves
<1>6. Present(r)' \subseteq Present(r) /\ \A q \in Rooms : q # r => Present(q)' = Present(q)
    BY <1>3 DEF Present
<1> QED
    BY <1>2, <1>3, <1>4, <1>5, <1>6, OneDeparts

\* The room a leaver was in without having its key is excused; the room of the
\* key has a handler at work.
LEMMA OnDisconnectDeparts ==
    ASSUME DInv, RInv', NEW h \in Handlers, NEW c \in closing, OnDisconnect(h, c[1], c[2]) PROVE DInv'
<1>1. PICK u \in Users, rs \in SUBSET Rooms : c = <<u, rs>>
    BY DEF DInv, RInv, Machines
<1>2. PICK r : r = roomKey[u]
    OBVIOUS
<1>3. PICK t : t = [Idle EXCEPT !.pc = IF r = Nowhere THEN "keys" ELSE "clean",
                                !.kind = "gone", !.user = u, !.room = r, !.who = u]
    OBVIOUS
<1>4. t.pc = (IF r = Nowhere THEN "keys" ELSE "clean") /\ t.kind = "gone" /\ t.room = r /\ t.all = {}
    BY <1>3 DEF Idle
<1>5. /\ Start(h, t) /\ closing' = closing \ {c} /\ UNCHANGED inRoom
      /\ excused' = excused \union (rs \ {r})
    BY <1>1, <1>2, <1>3 DEF OnDisconnect
<1>6. task[h].kind = "none" /\ task'[h] = t /\ \A k \in Handlers : k # h => task'[k] = task[k]
    BY <1>4, <1>5, LeaveTurns DEF DInv
<1>7. Leaves(t) /\ ~Leaves(task[h])
    BY <1>4, <1>6 DEF Leaves
<1>8. \A q : Present(q)' = Present(q)
    BY <1>5 DEF Present
<1>9. r \in Rooms => t.pc \in Watch
    BY <1>4, NowhereAssumption DEF Watch
<1>10. \A there : Fetched(t, there)
    BY <1>4 DEF Fetched, Snapshot
<1>11. \A q \in Rooms : q # r /\ q \notin excused' => \A d \in closing : q \in d[2] => d \in closing'
    BY <1>1, <1>5
<1> QED
    BY <1>4, <1>5, <1>6, <1>7, <1>8, <1>9, <1>10, <1>11, OneDeparts

\* Who joins alone, or where somebody is leaving, is excused.
LEMMA JoinDeparts ==
    ASSUME DInv, RInv', NEW h \in Handlers, NEW us \in SUBSET Users, NEW r \in Rooms, Join(h, us, r)
    PROVE  DInv'
<1>1. PICK joining : joining = {<<u, r>> : u \in us \intersect socketKey \intersect online}
    OBVIOUS
<1>2. /\ inRoom' = inRoom \union joining /\ UNCHANGED closing /\ excused \subseteq excused'
      /\ (Leaving(r) # {} \/ Cardinality(Present(r) \union {m[1] : m \in joining}) = 1) => r \in excused'
    BY <1>1 DEF Join
<1>3. \A k \in Handlers : task'[k] = task[k] \/ (~Leaves(task[k]) /\ ~Leaves(task'[k]))
    BY AskersApart, ApartIsHarmless DEF DInv, Harmless, Leaves
<1>4. \A q : Leaving(q)' = Leaving(q) /\ \A k \in Leaving(q) : task'[k] = task[k]
    BY <1>3 DEF Leaving, Leaves
<1>5. ASSUME NEW q \in Rooms \ excused' PROVE Departs(q)'
    <2>1. Departs(q)
        BY <1>2, <1>5 DEF DInv, Departing
    <2>2. CASE q # r
        <3>1. Present(q)' = Present(q)
            BY <1>1, <1>2, <2>2 DEF Present
        <3>2. \A k \in Leaving(q)' : Fetched(task[k], Present(q))'
            BY <1>4, <2>1, <3>1 DEF Departs, Fetched, Snapshot
        <3>3. Watched(q) => Watched(q)'
            BY <1>2, <1>4 DEF Watched
        <3> QED
            BY <2>1, <3>1, <3>2, <3>3 DEF Departs
    <2>3. CASE q = r
        <3>1. Present(r)' = Present(r) \union {m[1] : m \in joining}
            BY <1>1, <1>2 DEF Present
        <3> QED
            BY <1>2, <1>4, <1>5, <2>3, <3>1 DEF Departs
    <2> QED
        BY <2>2, <2>3
<1> QED
    BY <1>5 DEF DInv, Departing

\* A socket that goes leaves a handler to be started, for all its rooms.
LEMMA DisconnectDeparts ==
    ASSUME DInv, RInv', NEW u \in Users, Disconnect(u) PROVE DInv'
<1>1. PICK rs : rs = {r \in Rooms : <<u, r>> \in inRoom}
    OBVIOUS
<1>2. /\ closing' = closing \union {<<u, rs>>} /\ inRoom' = {m \in inRoom : m[1] # u}
      /\ UNCHANGED <<task, excused>>
    BY <1>1 DEF Disconnect, history
<1>3. ASSUME NEW q \in Rooms \ excused' PROVE Departs(q)'
    <2>1. Departs(q) /\ Leaving(q)' = Leaving(q)
        BY <1>2, <1>3 DEF DInv, Departing, Leaving
    <2>2. Present(q)' = Present(q) \ {u}
        BY <1>2 DEF Present
    <2>3. \A k \in Leaving(q)' : Fetched(task[k], Present(q))'
        BY <1>2, <2>1, <2>2 DEF Departs, Fetched, Snapshot
    <2>4. Watched(q) => Watched(q)'
        BY <1>2, <2>1 DEF Watched
    <2>5. u \in Present(q) => Watched(q)'
        <3>1. SUFFICES ASSUME u \in Present(q) PROVE Watched(q)'
            OBVIOUS
        <3>2. q \in <<u, rs>>[2] /\ <<u, rs>> \in closing'
            BY <1>1, <1>2, <3>1 DEF Present
        <3> QED
            BY <3>2 DEF Watched
    <2>6. u \notin Present(q) => Present(q)' = Present(q)
        BY <2>2
    <2> QED
        BY <2>1, <2>3, <2>4, <2>5, <2>6 DEF Departs
<1> QED
    BY <1>3 DEF DInv, Departing

\* Everything else lets everybody where they are.
LEMMA OthersDepart ==
    ASSUME DInv, RInv',
           \/ \E h \in Handlers : CountMade(h) \/ Made(h) \/ DropOwnKeys(h)
           \/ \E h \in Handlers, u \in Users : EndCall(h, u)
           \/ \E u \in Users : Connect(u) \/ \E r \in Rooms : Hear(u, r)
           \/ \E i \in 1 .. WorkerCount : WorkerDies(i) \/ WorkerRestarts(i)
           \/ \E r \in Rooms : LockExpires(r)
           \/ UNCHANGED vars
    PROVE  DInv'
<1>1. CASE \E h \in Handlers : Made(h)
    <2>1. PICK h \in Handlers : Made(h)
        BY <1>1
    <2>2. task[h].kind \in Kinds
        BY <2>1, TaskIsSound DEF Made, Sound, DInv
    <2>3. ~Leaves(task[h]) /\ ~Leaves(task'[h]) /\ \A k \in Handlers : k # h => task'[k] = task[k]
        BY <2>1, <2>2, GotoTurns DEF Made, Leaves, DInv, Points, Kinds
    <2> QED
        BY <2>1, <2>3, NobodyDeparts DEF Made, DInv, socketVars
<1>2. CASE \E h \in Handlers : CountMade(h) \/ DropOwnKeys(h)
    <2>1. PICK h \in Handlers : CountMade(h) \/ DropOwnKeys(h)
        BY <1>2
    <2>2. Finish(h) /\ UNCHANGED <<inRoom, closing, excused>> /\ task[h].pc \notin Watch
        BY <2>1 DEF CountMade, DropOwnKeys, socketVars, history, Watch
    <2>3. ~Leaves(task'[h]) /\ \A k \in Handlers : k # h => task'[k] = task[k]
        BY <2>2, FinishTurns, IdleIsSound DEF DInv, Leaves
    <2> QED
        BY <2>2, <2>3, NobodyDeparts DEF DInv
<1>3. CASE \E h \in Handlers, u \in Users : EndCall(h, u)
    <2>1. PICK h \in Handlers, u \in Users : EndCall(h, u)
        BY <1>3
    <2>2. PICK t : t = [Idle EXCEPT !.pc = "clean", !.kind = "call", !.user = u, !.who = u]
        OBVIOUS
    <2>3. Start(h, t) /\ t.pc = "clean" /\ t.kind = "call"
        BY <2>1, <2>2 DEF EndCall, Idle
    <2>4. ~Leaves(task[h]) /\ ~Leaves(task'[h]) /\ \A k \in Handlers : k # h => task'[k] = task[k]
        BY <2>3, LeaveTurns DEF DInv, Leaves
    <2> QED
        BY <2>1, <2>4, NobodyDeparts DEF DInv, EndCall, socketVars
<1>4. CASE \/ \E u \in Users : Connect(u) \/ \E r \in Rooms : Hear(u, r)
           \/ \E i \in 1 .. WorkerCount : WorkerDies(i) \/ WorkerRestarts(i)
           \/ \E r \in Rooms : LockExpires(r)
           \/ UNCHANGED vars
    <2>1. UNCHANGED <<task, inRoom, closing, excused>>
        BY <1>4 DEF Connect, Hear, WorkerDies, WorkerRestarts, LockExpires, vars, socketVars, history
    <2> QED
        BY <2>1, NobodyDeparts DEF DInv
<1> QED
    BY <1>1, <1>2, <1>3, <1>4

LEMMA DHandlerStep == ASSUME DInv, RInv', NEW h \in Handlers, HandlerStep(h) PROVE DInv'
<1>1. CASE \/ GotLock(h) \/ LockMissed(h) \/ Found(h) \/ SelectWorker(h) \/ RouterFails(h)
           \/ CreateRouter(h) \/ CreateFails(h) \/ CountRoom(h) \/ Unlock(h) \/ MakeFails(h)
    <2>1. UNCHANGED <<inRoom, closing, excused>>
        BY <1>1 DEF GotLock, LockMissed, Found, SelectWorker, RouterFails, CreateRouter, CreateFails, CountRoom,
                    Unlock, MakeFails, socketVars, history
    <2> QED
        BY <1>1, <2>1, LockersApart, ApartDeparts DEF DInv
<1>2. CASE SetRoomKey(h)
    BY <1>2, SetRoomKeyApart, ApartDeparts DEF DInv, SetRoomKey, history
<1>3. CASE CleanUp(h) \/ SweepOn(h)
    BY <1>3, SweepDeparts DEF CleanUp, SweepOn, socketVars
<1>4. CASE Made(h) \/ CountMade(h) \/ DropOwnKeys(h)
    BY <1>4, OthersDepart
<1>5. CASE CountMembers(h) \/ FetchSockets(h) \/ DropKey(h) \/ Evict(h)
    BY <1>5, CountMembersDeparts, FetchSocketsDeparts, DropKeyDeparts, EvictDeparts
<1> QED
    BY <1>1, <1>2, <1>3, <1>4, <1>5 DEF HandlerStep

LEMMA DStep == DInv /\ [Next]_vars => DInv'
<1> SUFFICES ASSUME DInv, [Next]_vars PROVE DInv'
    OBVIOUS
<1>0. RInv'
    BY RStep DEF DInv
<1>1. CASE \E h \in Handlers : HandlerStep(h)
    BY <1>0, <1>1, DHandlerStep
<1>2. CASE \/ \E h \in Handlers, u \in Users, r \in Rooms : Client(h, u, r)
           \/ \E h \in Handlers, r \in Rooms : AskRouter(h, "caps", Nobody, r)
    <2>1. CASE \E h \in Handlers, u \in Users, r \in Rooms : End(h, u, r)
        BY <1>0, <2>1, EndDeparts
    <2>2. ASSUME NEW h \in Handlers,
                 \/ \E kind, u, r : AskRouter(h, kind, u, r)
                 \/ \E u, t : Produce(h, u, t)
                 \/ \E u, t, p : Consume(h, u, t, p)
          PROVE  DInv'
        <3>1. UNCHANGED <<inRoom, closing, excused>>
            BY <2>2 DEF AskRouter, Produce, Consume, socketVars
        <3> QED
            BY <1>0, <2>2, <3>1, AskersApart, ApartDeparts DEF DInv
    <2> QED
        BY <1>2, <2>1, <2>2 DEF Client
<1>3. CASE \E h \in Handlers, us \in SUBSET Users, r \in Rooms : Cardinality(us) >= 2 /\ Join(h, us, r)
    BY <1>0, <1>3, JoinDeparts
<1>4. CASE \E h \in Handlers : \E c \in closing : OnDisconnect(h, c[1], c[2])
    BY <1>0, <1>4, OnDisconnectDeparts
<1>5. CASE \E u \in Users : Disconnect(u)
    BY <1>0, <1>5, DisconnectDeparts
<1>6. CASE Shutdown
    BY <1>0, <1>6 DEF Shutdown, DInv, Departing
<1>7. CASE \/ \E h \in Handlers, u \in Users : EndCall(h, u)
           \/ \E u \in Users : Connect(u) \/ \E r \in Rooms : Hear(u, r)
           \/ \E i \in 1 .. WorkerCount : WorkerDies(i) \/ WorkerRestarts(i)
           \/ \E r \in Rooms : LockExpires(r)
           \/ UNCHANGED vars
    BY <1>0, <1>7, OthersDepart
<1> QED
    BY <1>1, <1>2, <1>3, <1>4, <1>5, <1>6, <1>7 DEF Next

LEMMA DInit == Init => DInv
<1> SUFFICES ASSUME Init PROVE DInv
    OBVIOUS
<1>1. inRoom = {} /\ task = [h \in Handlers |-> Idle]
    BY DEF Init
<1>2. ASSUME NEW r \in Rooms PROVE Departs(r)
    <2>1. Present(r) = {} /\ Leaving(r) = {}
        BY <1>1, IdleIsSound DEF Present, Leaving
    <2> QED
        BY <2>1, FS_EmptySet DEF Departs
<1> QED
    BY <1>2, RInit DEF DInv, Departing

\* When nobody is at work no room has one member (handleUserLeave, deleteRoom,
\* handleDisconnect): however departures meet, whoever is left alone in a room
\* is put out of it, unless the leaver had no room key or somebody joined while
\* the room was being left.
THEOREM NobodyIsLeftAlone == Spec => []NobodyLeftAlone
<1>1. ASSUME DInv, closing = {}, \A h \in Handlers : task[h].pc = "idle", NEW r \in Rooms \ excused
      PROVE  Cardinality(Present(r)) # 1
    <2>1. ~Watched(r)
        BY <1>1 DEF Watched, Leaving, Watch
    <2> QED
        BY <1>1, <2>1 DEF DInv, Departing, Departs
<1>2. DInv => NobodyLeftAlone
    BY <1>1 DEF NobodyLeftAlone
<1> QED
    BY DInit, DStep, <1>2, PTL DEF Spec

=============================================================================
