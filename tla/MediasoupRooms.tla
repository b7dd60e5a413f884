--------------------------- MODULE MediasoupRooms ---------------------------
(***************************************************************************)
(* Media rooms of the server (server/src/mediasoup): the mediasoup workers *)
(* and the router of each room, the Maps of transports, producers and      *)
(* consumers of all users, the sockets in each room, and who leaves when.  *)
(*                                                                         *)
(* The Maps live in the one server process and change between awaits; the  *)
(* calls to a mediasoup worker, to Redis and to Socket.IO are awaited, so  *)
(* that every handler may meet every other one half way. Only the creation *)
(* of a room's router is under a lock (DistLock): there is one lock for    *)
(* each room, and a handler waits for it or runs under it as there.        *)
(***************************************************************************)
EXTENDS DistLock, Sequences

CONSTANTS
    Users,
    WorkerCount,   \* mediasoup workers
    MaxJobs,       \* bound: handlers started, connections included
    MaxThings      \* bound: transports, producers and consumers made

ASSUME MediaAssumption ==
    /\ IsFiniteSet(Users)
    /\ WorkerCount \in Nat \ {0}
    /\ {MaxJobs, MaxThings} \subseteq Nat

Rooms == Locks

\* Bound: handlers started while another one runs, and faults: failed locks, dead
\* workers, outlasted locks, shutdowns.
MaxTroubles == MaxFaults

VARIABLES
    workers,   \* workers[i]: the process id of the i-th mediasoup worker
    dead,      \* process ids of workers that died
    turn,      \* currentWorkerIndex
    router,    \* roomRouters: router[r] is NoRouter or the router of r
    open,      \* ids of the routers that are open in some worker
    things,    \* webRtcTransports, producers and consumers
    metric,    \* performanceMetrics
    ids,       \* ids given away
    online,    \* users with a mediasoup socket
    closing,   \* <<u, rs>>: u's socket went from rooms rs, handler not started
    inRoom,    \* <<u, r>>: u's socket is in the Socket.IO room of r
    socketKey, \* users whose MEDIASOUP_SOCKET_KEY is set
    roomKey,   \* MEDIASOUP_ROOM_KEY of each user
    knows,     \* <<u, r>>: u's client was told of r
    task,      \* task[h]: the handler in slot h and its locals
    jobs, meetings, \* counters for the bounds
    \* History, read by no action of the program:
    raced,     \* slots whose handler was making something when users were
               \* cleaned up, a router closed or a worker died
    late,      \* ids of the things such handlers made
    excused    \* rooms a member disconnected from without having the room key,
               \* or joined alone, or while somebody was leaving

workerVars == <<workers, dead, turn>>
mapVars == <<router, open, things, metric, ids>>
socketVars == <<online, closing, inRoom, socketKey, roomKey, knows>>
history == <<raced, late, excused>>
counters == <<jobs, meetings>>
vars == <<lockVars, workerVars, mapVars, socketVars, task, counters, history>>

-----------------------------------------------------------------------------
(* Data                                                                    *)

Nobody == "nobody"
Nowhere == "nowhere"

\* The room key of a user without a room is the name of none.
ASSUME NowhereAssumption == Nowhere \notin Rooms

NoRouter == [id |-> 0, pid |-> 0]
Kinds == {"transport", "producer", "consumer"}

Idle == [pc |-> "idle", kind |-> "none", user |-> Nobody, room |-> Nowhere,
         at |-> NoRouter,   \* the router a handler works with
         via |-> 0,         \* the transport a producer or consumer is made on
         of |-> 0,          \* the producer to consume
         who |-> Nobody,    \* the user being cleaned up
         all |-> {},        \* the users of a room being deleted
         rest |-> {},       \* of these, the ones still to do
         seen |-> {}]       \* the routers cleanupEmptyRouters has passed

Transports(u) == {t \in things : t.kind = "transport" /\ t.user = u}
InMap(id) == \E t \in things : t.id = id
Present(r) == {u \in Users : <<u, r>> \in inRoom}

\* Handlers between their first look at a router, transport or producer and
\* the entry they make in a Map.
Making == {h \in Handlers : task[h].pc \in {"create", "count", "unlock", "make"}}

\* Handlers through which somebody leaves room r.
Leaving(r) == {h \in Handlers : task[h].room = r /\ task[h].kind \in {"end", "gone"}}

Goto(h, pc) == task' = [task EXCEPT ![h].pc = pc]
Finish(h) == task' = [task EXCEPT ![h] = Idle]

\* Jobs the bound leaves room for: a fault counts as two.
Slack == MaxJobs - jobs - 2 * faults

\* Bound on faults, in an action that may have had one.
Affordable == faults' = faults \/ (meetings + faults < MaxTroubles /\ Slack >= 2)

\* Slot h takes up a handler.
Start(h, t) ==
    /\ task[h].pc = "idle"
    /\ Slack > 0 /\ jobs' = jobs + 1
    /\ meetings' = IF \A k \in Handlers : task[k].pc = "idle" THEN meetings ELSE meetings + 1
    /\ meetings' + faults <= MaxTroubles
    /\ task' = [task EXCEPT ![h] = t]
    /\ UNCHANGED <<raced, late>>

Init ==
    /\ LockInit
    /\ workers = [i \in 1 .. WorkerCount |-> i] /\ dead = {} /\ turn = 1
    /\ router = [r \in Rooms |-> NoRouter] /\ open = {} /\ things = {} /\ ids = 0
    /\ metric = [k \in Kinds \union {"room"} |-> 0]
    /\ online = Users /\ socketKey = Users
    /\ closing = {} /\ inRoom = {} /\ knows = {}
    /\ roomKey = [u \in Users |-> Nowhere]
    /\ task = [h \in Handlers |-> Idle]
    /\ jobs = 0 /\ meetings = 0
    /\ raced = {} /\ late = {} /\ excused = {}

-----------------------------------------------------------------------------
(* getRoomRouter: under the lock of the room                               *)

\* getRouterRtpCapabilities, for whoever is told of a match or a call in r;
\* createWebRtcTransport, asked for by a client that knows r.
AskRouter(h, kind, u, r) ==
    /\ kind \in {"caps", "transport"}
    /\ kind = "transport" => u \in online /\ <<u, r>> \in knows /\ ids < MaxThings
    /\ Start(h, [Idle EXCEPT !.pc = "lock", !.kind = kind, !.user = u, !.room = r])
    /\ Want(h, r)
    /\ UNCHANGED <<workerVars, mapVars, socketVars, excused>>

\* Mutant of GotLock: the lock is not waited for.
GotNoLock(h) ==
    /\ task[h].pc = "lock"
    /\ AcquireAnyway(h)
    /\ Goto(h, "lookup")
    /\ UNCHANGED <<workerVars, mapVars, socketVars, counters, history>>

GotLock(h) ==
    /\ task[h].pc = "lock"
    /\ Acquire(h)
    /\ Goto(h, "lookup")
    /\ UNCHANGED <<workerVars, mapVars, socketVars, counters, history>>

LockMissed(h) ==
    /\ task[h].pc = "lock"
    /\ \/ Miss(h) /\ UNCHANGED task
       \/ GiveUp(h) /\ Finish(h)
    /\ Affordable
    /\ UNCHANGED <<workerVars, mapVars, socketVars, counters, history>>

Found(h) ==
    /\ task[h].pc = "lookup"
    /\ router[task[h].room] # NoRouter
    /\ task' = [task EXCEPT ![h].pc = "unlock", ![h].at = router[task[h].room]]
    /\ UNCHANGED <<lockVars, workerVars, mapVars, socketVars, counters, history>>

\* selectWorker: the next worker in turn, dead or alive.
SelectWorker(h) ==
    /\ task[h].pc = "lookup"
    /\ router[task[h].room] = NoRouter
    /\ turn' = (turn % WorkerCount) + 1
    /\ task' = [task EXCEPT ![h].pc = "create", ![h].at = [id |-> 0, pid |-> workers[turn]]]
    /\ UNCHANGED <<lockVars, workers, dead, mapVars, socketVars, counters, history>>

\* The lock of the worker selection, or of the metrics, is not to be had.
RouterFails(h) ==
    /\ \/ task[h].pc = "lookup" /\ router[task[h].room] = NoRouter
       \/ task[h].pc = "count"
    /\ Fault /\ Affordable
    /\ Goto(h, "abort")
    /\ UNCHANGED <<key, locker, overrun, workerVars, mapVars, socketVars, counters, history>>

\* The worker creates the router, and the entry of the room is set.
CreateRouter(h) ==
    /\ task[h].pc = "create"
    /\ task[h].at.pid \notin dead
    /\ LET new == [task[h].at EXCEPT !.id = ids + 1]
       IN  /\ router' = [router EXCEPT ![task[h].room] = new]
           /\ open' = open \union {new.id}
           /\ task' = [task EXCEPT ![h].pc = "count", ![h].at = new]
    /\ ids' = ids + 1
    /\ UNCHANGED <<lockVars, workerVars, things, metric, socketVars, counters, history>>

CreateFails(h) ==
    /\ task[h].pc = "create"
    /\ task[h].at.pid \in dead
    /\ Goto(h, "abort")
    /\ UNCHANGED <<lockVars, workerVars, mapVars, socketVars, counters, history>>

CountRoom(h) ==
    /\ task[h].pc = "count"
    /\ metric' = [metric EXCEPT !["room"] = @ + 1]
    /\ Goto(h, "unlock")
    /\ UNCHANGED <<lockVars, workerVars, router, open, things, ids, socketVars, counters, history>>

\* The lock is released, or DEL fails, which changes nothing for the caller. A
\* worker asked for a transport on a router it has closed answers with an error.
Unlock(h) ==
    /\ task[h].pc \in {"unlock", "abort"}
    /\ Release(h) \/ Abandon(h)
    /\ Affordable
    /\ IF task[h].pc = "unlock" /\ task[h].kind = "transport" /\ task[h].at.id \in open
       THEN Goto(h, "make") /\ UNCHANGED raced
       ELSE Finish(h) /\ raced' = raced \ {h}
    /\ UNCHANGED <<workerVars, mapVars, socketVars, counters, late, excused>>

-----------------------------------------------------------------------------
(* Transports, producers and consumers                                     *)

\* createProducer, on a transport of the client's own.
Produce(h, u, t) ==
    /\ t \in Transports(u) /\ u \in online /\ ids < MaxThings
    /\ t.at.id \in open
    /\ Start(h, [Idle EXCEPT !.pc = "make", !.kind = "producer", !.user = u, !.room = t.room,
                             !.at = t.at, !.via = t.id])
    /\ UNCHANGED <<lockVars, workerVars, mapVars, socketVars, excused>>

\* canConsume: the room's router is there, and the producer is one of its own.
CanConsume(p) == p.at = router[p.room] /\ p.at.id \in open

\* createConsumer: the transport is on the producer's router.
Consumable(p, t) ==
    /\ p.kind = "producer" /\ p.user # t.user
    /\ p.at.id = t.at.id
    /\ CanConsume(p)

Consume(h, u, t, p) ==
    /\ t \in Transports(u) /\ u \in online /\ ids < MaxThings
    /\ Consumable(p, t)
    /\ Start(h, [Idle EXCEPT !.pc = "make", !.kind = "consumer", !.user = u, !.room = p.room,
                             !.at = t.at, !.via = t.id, !.of = p.id])
    /\ UNCHANGED <<lockVars, workerVars, mapVars, socketVars, excused>>

\* What the worker makes something on is still there.
ParentOpen(h) ==
    /\ task[h].at.id \in open
    /\ task[h].via # 0 => InMap(task[h].via)
    /\ task[h].of # 0 => InMap(task[h].of)

\* The worker has answered, and the entry is made. A transport or producer
\* that went meanwhile went, for the worker, after it had answered.
Made(h) ==
    /\ task[h].pc = "make"
    /\ task[h].at.pid \notin dead
    /\ LET t == task[h]
       IN  things' = things \union {[id |-> ids + 1, kind |-> t.kind, user |-> t.user,
                                     room |-> t.room, at |-> t.at, of |-> t.of]}
    /\ ids' = ids + 1
    /\ late' = IF h \in raced THEN late \union {ids + 1} ELSE late
    /\ raced' = raced \ {h}
    /\ Goto(h, "metric")
    /\ UNCHANGED <<lockVars, workerVars, router, open, metric, socketVars, counters, excused>>

MakeFails(h) ==
    /\ task[h].pc = "make"
    /\ ~ParentOpen(h)
    /\ Finish(h)
    /\ raced' = raced \ {h}
    /\ UNCHANGED <<lockVars, workerVars, mapVars, socketVars, counters, late, excused>>

\* updateMetrics; without its lock the client gets an error for what was made.
CountMade(h) ==
    /\ task[h].pc = "metric"
    /\ \/ metric' = [metric EXCEPT ![task[h].kind] = @ + 1] /\ UNCHANGED faults
       \/ Fault /\ Affordable /\ UNCHANGED metric
    /\ Finish(h)
    /\ UNCHANGED <<key, locker, overrun, workerVars, router, open, things, ids, socketVars,
                   counters, history>>

-----------------------------------------------------------------------------
(* cleanUp, and the ways of leaving                                        *)

\* What is left of the handler once task[h].who is cleaned up: a call that
\* ended does no more, a leaver counts who is still there, and deleteRoom goes
\* on with the next of its users.
AfterCleanUp(h) ==
    LET t == task[h]
    IN  IF t.kind = "call" THEN Finish(h)
        ELSE IF t.all = {} THEN Goto(h, "members")
        ELSE IF t.rest = {} THEN task' = [task EXCEPT ![h].pc = "drop", ![h].rest = t.all]
        ELSE \E v \in t.rest : task' = [task EXCEPT ![h].pc = "clean", ![h].who = v,
                                                    ![h].rest = t.rest \ {v}, ![h].seen = {}]

\* cleanupEmptyRouters, up to its next await: the routers that still have
\* something are passed by, the first empty one is closed and its entry goes.
Sweep(h, left) ==
    LET unseen == {r \in Rooms : router[r] # NoRouter /\ router[r].id \notin task[h].seen}
        empty == {r \in unseen : \A t \in left : t.at.id # router[r].id}
    IN  \/ \E r \in empty, passed \in SUBSET (unseen \ empty) :
             /\ router' = [router EXCEPT ![r] = NoRouter]
             /\ open' = open \ {router[r].id}
             /\ task' = [task EXCEPT ![h].pc = "swept",
                                     ![h].seen = @ \union {router[q].id : q \in passed}]
        \/ /\ empty = {}
           /\ AfterCleanUp(h)
           /\ UNCHANGED <<router, open>>

\* Mutant of Owned: what others consume from u stays.
OwnedOnly(u) == {t \in things : t.user = u}

\* The entries of u, and the consumers of u's producers.
Owned(u) ==
    {t \in things : \/ t.user = u
                    \/ \E p \in things : p.kind = "producer" /\ p.user = u /\ t.of = p.id}

CountOf(kind, set) == Cardinality({t \in set : t.kind = kind})

\* Mutant of Without: only the user's own entries are counted.
WithoutOwn(mine, u) ==
    [k \in DOMAIN metric |-> metric[k] - CountOf(k, {t \in mine : t.user = u})]

\* The metrics once the entries of mine have been removed for u.
Without(mine, u) == [k \in DOMAIN metric |-> metric[k] - CountOf(k, mine)]

\* Everything of the user goes at once, then the empty routers.
CleanUp(h) ==
    /\ task[h].pc = "clean"
    /\ LET mine == Owned(task[h].who)
       IN  /\ things' = things \ mine
           /\ metric' = Without(mine, task[h].who)
           /\ Sweep(h, things \ mine)
    /\ raced' = raced \union Making
    /\ UNCHANGED <<lockVars, workerVars, ids, socketVars, counters, late, excused>>

\* updateMetrics has counted the closed router, or failed; on to the next one.
SweepOn(h) ==
    /\ task[h].pc = "swept"
    /\ \/ metric' = [metric EXCEPT !["room"] = @ - 1] /\ UNCHANGED faults
       \/ Fault /\ Affordable /\ UNCHANGED metric
    /\ Sweep(h, things)
    /\ raced' = IF router' = router THEN raced ELSE raced \union Making
    /\ UNCHANGED <<key, locker, overrun, workerVars, things, ids, socketVars, counters, late, excused>>

\* handleCallEnd cleans the user up, and the socket stays where it is.
EndCall(h, u) ==
    /\ Start(h, [Idle EXCEPT !.pc = "clean", !.kind = "call", !.user = u, !.who = u])
    /\ UNCHANGED <<lockVars, workerVars, mapVars, socketVars, excused>>

\* client:mediasoup_end: the socket leaves the room first.
End(h, u, r) ==
    /\ u \in online /\ <<u, r>> \in knows
    /\ Start(h, [Idle EXCEPT !.pc = "clean", !.kind = "end", !.user = u, !.room = r, !.who = u])
    /\ inRoom' = inRoom \ {<<u, r>>}
    /\ knows' = knows \ {<<u, r>>}
    /\ UNCHANGED <<lockVars, workerVars, mapVars, online, closing, socketKey, roomKey, excused>>

\* The socket of u goes, from all rooms.
Disconnect(u) ==
    /\ u \in online
    /\ Cardinality(closing) < Slack
    /\ online' = online \ {u}
    /\ closing' = closing \union {<<u, {r \in Rooms : <<u, r>> \in inRoom}>>}
    /\ inRoom' = {m \in inRoom : m[1] # u}
    /\ knows' = {m \in knows : m[1] # u}
    /\ UNCHANGED <<lockVars, workerVars, mapVars, socketKey, roomKey, task, counters, history>>

\* handleDisconnect leaves the room the key names; without a key nothing is
\* cleaned up.
OnDisconnect(h, u, rs) ==
    /\ <<u, rs>> \in closing
    /\ closing' = closing \ {<<u, rs>>}
    /\ Start(h, [Idle EXCEPT !.pc = IF roomKey[u] = Nowhere THEN "keys" ELSE "clean",
                             !.kind = "gone", !.user = u, !.room = roomKey[u], !.who = u])
    /\ excused' = excused \union (rs \ {roomKey[u]})
    /\ UNCHANGED <<lockVars, workerVars, mapVars, online, inRoom, socketKey, roomKey, knows>>

\* Mutant of CountMembers: the room goes with its last member only.
CountNobody(h) ==
    /\ task[h].pc = "members"
    /\ Goto(h, IF Present(task[h].room) = {} THEN "fetch" ELSE "keys")
    /\ UNCHANGED <<lockVars, workerVars, mapVars, socketVars, counters, history>>

\* handleUserLeave: with one member left, or none, the room is deleted.
CountMembers(h) ==
    /\ task[h].pc = "members"
    /\ Goto(h, IF Cardinality(Present(task[h].room)) <= 1 THEN "fetch" ELSE "keys")
    /\ UNCHANGED <<lockVars, workerVars, mapVars, socketVars, counters, history>>

\* deleteRoom: whoever is there is told, then fetched and cleaned up.
FetchSockets(h) ==
    /\ task[h].pc = "fetch"
    /\ LET there == Present(task[h].room)
       IN  IF there = {} THEN Goto(h, "keys")
           ELSE \E v \in there :
                task' = [task EXCEPT ![h].pc = "clean", ![h].who = v, ![h].seen = {},
                                     ![h].all = there, ![h].rest = there \ {v}]
    /\ UNCHANGED <<lockVars, workerVars, mapVars, socketVars, counters, history>>

\* ... then their room keys go, one by one, and then they leave the room.
DropKey(h) ==
    /\ task[h].pc = "drop"
    /\ \E v \in task[h].rest :
        /\ roomKey' = [roomKey EXCEPT ![v] = Nowhere]
        /\ task' = [task EXCEPT
                ![h].pc = IF task[h].rest = {v} THEN "evict" ELSE "drop",
                ![h].rest = IF task[h].rest = {v} THEN task[h].all ELSE @ \ {v}]
    /\ UNCHANGED <<lockVars, workerVars, mapVars, online, closing, inRoom, socketKey, knows,
                   counters, history>>

Evict(h) ==
    /\ task[h].pc = "evict"
    /\ \E v \in task[h].rest :
        /\ inRoom' = inRoom \ {<<v, task[h].room>>}
        /\ task' = [task EXCEPT ![h].pc = IF task[h].rest = {v} THEN "keys" ELSE "evict",
                                ![h].rest = @ \ {v}]
    /\ UNCHANGED <<lockVars, workerVars, mapVars, online, closing, socketKey, roomKey, knows,
                   counters, history>>

\* The leaver's own keys go last.
DropOwnKeys(h) ==
    /\ task[h].pc = "keys"
    /\ roomKey' = [roomKey EXCEPT ![task[h].user] = Nowhere]
    /\ socketKey' = IF task[h].kind = "gone" THEN socketKey \ {task[h].user} ELSE socketKey
    /\ Finish(h)
    /\ UNCHANGED <<lockVars, workerVars, mapVars, online, closing, inRoom, knows, counters, history>>

\* The client hears of server:mediasoup_end.
Hear(u, r) ==
    /\ <<u, r>> \in knows \ inRoom
    /\ knows' = knows \ {<<u, r>>}
    /\ UNCHANGED <<lockVars, workerVars, mapVars, online, closing, inRoom, socketKey, roomKey,
                   task, counters, history>>

-----------------------------------------------------------------------------
(* Coming and going                                                        *)

Connect(u) ==
    /\ u \notin online
    /\ Cardinality(closing) < Slack
    /\ jobs' = jobs + 1
    /\ online' = online \union {u}
    /\ socketKey' = socketKey \union {u}
    /\ UNCHANGED <<lockVars, workerVars, mapVars, closing, inRoom, roomKey, knows, task, meetings,
                   history>>

\* joinMediasoupRoom: sockets that have a key and are connected join; then
\* every user gets the room key, one after the other.
Join(h, us, r) ==
    /\ us \intersect socketKey # {}
    /\ Start(h, [Idle EXCEPT !.pc = "join", !.kind = "join", !.room = r, !.rest = us])
    /\ LET joining == {<<u, r>> : u \in us \intersect socketKey \intersect online}
       IN  /\ inRoom' = inRoom \union joining
           /\ knows' = knows \union joining
           /\ excused' = IF Leaving(r) # {} \/ Cardinality(Present(r) \union
                                                    {m[1] : m \in joining}) = 1
                         THEN excused \union {r} ELSE excused
    /\ UNCHANGED <<lockVars, workerVars, mapVars, online, closing, socketKey, roomKey>>

SetRoomKey(h) ==
    /\ task[h].pc = "join"
    /\ \E v \in task[h].rest :
        /\ roomKey' = [roomKey EXCEPT ![v] = task[h].room]
        /\ IF task[h].rest = {v} THEN Finish(h)
           ELSE task' = [task EXCEPT ![h].rest = @ \ {v}]
    /\ UNCHANGED <<lockVars, workerVars, mapVars, online, closing, inRoom, socketKey, knows,
                   counters, history>>

-----------------------------------------------------------------------------
(* Faults                                                                  *)

\* A worker process dies. restartWorker forgets its routers and all that is on
\* them (cleanupWorkerResources), and only then looks for the rooms to tell
\* (notifyClientsWorkerRestart): it finds none. The metrics are not touched.
WorkerDies(i) ==
    /\ workers[i] \notin dead
    /\ Fault /\ Affordable
    /\ LET lost == {router[r].id : r \in {q \in Rooms : router[q].pid = workers[i]}}
       IN  /\ router' = [r \in Rooms |-> IF router[r].pid = workers[i] THEN NoRouter ELSE router[r]]
           /\ things' = {t \in things : t.at.id \notin lost}
           /\ open' = open \ lost
    /\ dead' = dead \union {workers[i]}
    /\ raced' = raced \union Making
    /\ UNCHANGED <<key, locker, overrun, workers, turn, metric, ids, socketVars, task, counters,
                   late, excused>>

WorkerRestarts(i) ==
    /\ workers[i] \in dead
    /\ workers' = [workers EXCEPT ![i] = WorkerCount + Cardinality(dead) + 1]
    /\ UNCHANGED <<lockVars, dead, turn, mapVars, socketVars, task, counters, history>>

LockExpires(r) ==
    /\ Expire(r) \/ Outlast(r)
    /\ Affordable
    /\ UNCHANGED <<workerVars, mapVars, socketVars, task, counters, history>>

\* onModuleDestroy or a crash: the Redis keys outlive the process.
Shutdown ==
    /\ Fault /\ Affordable
    /\ workers' = [i \in 1 .. WorkerCount |-> i] /\ dead' = {} /\ turn' = 1
    /\ router' = [r \in Rooms |-> NoRouter] /\ open' = {} /\ things' = {}
    /\ metric' = [k \in DOMAIN metric |-> 0]
    /\ online' = {} /\ closing' = {} /\ inRoom' = {} /\ knows' = {}
    /\ task' = [h \in Handlers |-> Idle]
    /\ locker' = [h \in Handlers |-> Outside]
    /\ raced' = {} /\ late' = {} /\ excused' = Rooms
    /\ UNCHANGED <<key, overrun, ids, socketKey, roomKey, counters>>

-----------------------------------------------------------------------------

HandlerStep(h) ==
    \/ GotLock(h) \/ LockMissed(h) \/ Found(h) \/ SelectWorker(h) \/ RouterFails(h)
    \/ CreateRouter(h) \/ CreateFails(h) \/ CountRoom(h) \/ Unlock(h)
    \/ Made(h) \/ MakeFails(h) \/ CountMade(h)
    \/ CleanUp(h) \/ SweepOn(h) \/ CountMembers(h) \/ FetchSockets(h)
    \/ DropKey(h) \/ Evict(h) \/ DropOwnKeys(h) \/ SetRoomKey(h)

Client(h, u, r) ==
    \/ AskRouter(h, "transport", u, r)
    \/ End(h, u, r)
    \/ \E t \in things : Produce(h, u, t)
    \/ \E t, p \in things : Consume(h, u, t, p)

Next ==
    \/ \E h \in Handlers : HandlerStep(h)
    \/ \E h \in Handlers, u \in Users, r \in Rooms : Client(h, u, r)
    \/ \E h \in Handlers, r \in Rooms : AskRouter(h, "caps", Nobody, r)
    \/ \E h \in Handlers, us \in SUBSET Users, r \in Rooms : Cardinality(us) >= 2 /\ Join(h, us, r)
    \/ \E h \in Handlers, u \in Users : EndCall(h, u)
    \/ \E h \in Handlers : \E c \in closing : OnDisconnect(h, c[1], c[2])
    \/ \E u \in Users : Disconnect(u) \/ Connect(u) \/ \E r \in Rooms : Hear(u, r)
    \/ \E i \in 1 .. WorkerCount : WorkerDies(i) \/ WorkerRestarts(i)
    \/ \E r \in Rooms : LockExpires(r)
    \/ Shutdown

Spec == Init /\ [][Next]_vars

-----------------------------------------------------------------------------
(* Properties                                                              *)

\* A router that is open in a worker is the router of some room: none is lost
\* by two handlers that both create one for the same room, unless an
\* operation outlasts the lock of the room.
NoRouterLost ==
    overrun = {} => open \subseteq {router[r].id : r \in Rooms}

\* An entry that was not being made while somebody was cleaned up, a router
\* closed or a worker died, is on the router its room has, and a consumer's
\* producer is there: cleanUp and the closing of empty routers leave no entry
\* behind that depends on what they removed.
NothingDangles ==
    \A t \in things : t.id \notin late /\ overrun = {} =>
        /\ router[t.room] = t.at
        /\ t.kind = "consumer" => \E p \in things : p.kind = "producer" /\ p.id = t.of

Pending(kind) == Cardinality({h \in Handlers : task[h].pc = "metric" /\ task[h].kind = kind})

\* Without a fault, each counter is the size of its Map, but for the entries
\* whose handler is about to count them.
MetricsAgree ==
    faults = 0 => \A k \in Kinds : metric[k] + Pending(k) = CountOf(k, things)

\* When nobody is at work, no room is left to one member: whoever is alone in
\* a room after others left it has been put out of it, so that both ends of
\* every interleaving of departures see the room go.
NobodyLeftAlone ==
    (closing = {} /\ \A h \in Handlers : task[h].pc = "idle") =>
        \A r \in Rooms \ excused : Cardinality(Present(r)) # 1

=============================================================================
