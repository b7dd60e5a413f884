--------------------------- MODULE CallSignalling ---------------------------
(***************************************************************************)
(* Video calls in chat rooms (server/src/call/call.service.ts). All state  *)
(* is in Redis, under six kinds of keys, and every handler is a chain of   *)
(* awaited single-key commands: read a few keys, decide, write a few keys. *)
(* Nothing makes a chain atomic, so chains of several users, the expiry    *)
(* of a request and crashes interleave between any two commands.           *)
(*                                                                         *)
(* A value is abstracted to the users or rooms in it, an absent key is {}. *)
(***************************************************************************)
EXTENDS Integers, Sequences, FiniteSets

CONSTANTS
    Users,
    Rooms,
    Members,     \* Members[r]: the users in chat room r
    Handlers,    \* slots for concurrently running handlers
    MaxCalls,    \* bound: calls all users start together
    MaxTroubles  \* bound: troubles, each one a handler that starts while another
                 \* runs, a disconnection, a one-hour expiry or a crash

ASSUME CallAssumption ==
    /\ Members \in [Rooms -> SUBSET Users]
    /\ IsFiniteSet(Users)
    /\ MaxCalls \in Nat
    /\ MaxTroubles \in Nat

VARIABLES
    db,        \* Redis: db[key], {} when there is no such key
    online,    \* users with a chat socket
    closing,   \* users whose socket went, before the server looked at their call
    incoming,  \* <<u, c, r>>: u was shown c's call in r and has not answered
    task,      \* task[h]: the handler in slot h and its locals
    expired,   \* rooms whose expiry event is on its way to the server
    calls, troubles,   \* counters for the bounds
    \* History, read by no action of the program:
    consented, \* <<u, r>>: u started or accepted a call in r
    left,      \* <<u, r>>: u left a call in r that went on
    disturbed  \* two handlers, or a handler and an expiry, ran at the same
               \* time, a key expired after an hour, or the server crashed

counters == <<calls, troubles>>
history == <<consented, left, disturbed>>
vars == <<db, online, closing, incoming, task, expired, counters, history>>

-----------------------------------------------------------------------------
(* Keys and commands                                                       *)

Request(r) == <<"room:call:request", r>>
Backup(r) == <<"room:call:request:backup", r>>
Active(r) == <<"room:call:active", r>>
UserRequest(u) == <<"user:call:request", u>>
UserActive(u) == <<"user:call:active", u>>
UserResponse(u) == <<"user:call:response", u>>

Keys ==
    ({"room:call:request", "room:call:request:backup", "room:call:active"} \X Rooms)
    \union ({"user:call:request", "user:call:active", "user:call:response"} \X Users)

\* A command writes one value to a set of keys: several keys when the code
\* sends the commands together, without waiting in between.
Put(keys, value) == [keys |-> keys, value |-> value]
Del(key) == Put({key}, {})

Nobody == "nobody"
Nowhere == "nowhere"
Idle == [pc |-> "idle", user |-> Nobody, room |-> Nowhere, n |-> 0, seen |-> {}, todo |-> <<>>]

Busy(h) == task[h].pc # "idle"
InRoom(h, r) == Busy(h) /\ task[h].room = r

Trouble == troubles < MaxTroubles /\ troubles' = troubles + 1

\* Slot h takes up a handler for user u in room r.
Start(h, pc, u, r) ==
    /\ task' = [task EXCEPT ![h] = [Idle EXCEPT !.pc = pc, !.user = u, !.room = r, !.n = 1]]
    /\ IF \E k \in Handlers : Busy(k) THEN Trouble ELSE UNCHANGED troubles
    /\ disturbed' = (\/ disturbed
                     \/ \E k \in Handlers : Busy(k)
                     \/ expired # {} /\ pc # "expire")

\* What is left of the handler in slot h is to send these commands.
Run(h, commands) ==
    task' = [task EXCEPT ![h] = IF commands = <<>> THEN Idle
                                ELSE [@ EXCEPT !.pc = "run", !.todo = commands]]

Init ==
    /\ db = [k \in Keys |-> {}]
    /\ online = Users
    /\ closing = {}
    /\ incoming = {}
    /\ task = [h \in Handlers |-> Idle]
    /\ expired = {}
    /\ calls = 0 /\ troubles = 0
    /\ consented = {} /\ left = {} /\ disturbed = FALSE

\* The next command of a handler.
Execute(h) ==
    /\ task[h].pc = "run"
    /\ LET c == Head(task[h].todo)
       IN  db' = [k \in Keys |-> IF k \in c.keys THEN c.value ELSE db[k]]
    /\ Run(h, Tail(task[h].todo))
    /\ UNCHANGED <<online, closing, incoming, expired, counters, history>>

-----------------------------------------------------------------------------
(* handleCallRequest                                                       *)

Ask(h, u, r) ==
    /\ ~Busy(h)
    /\ calls < MaxCalls
    /\ u \in online \intersect Members[r]
    /\ Members[r] # {u}
    /\ calls' = calls + 1
    /\ Start(h, "ask", u, r)
    /\ UNCHANGED <<db, online, closing, incoming, expired, consented, left>>

\* The keys that stand in the way of a new call, in the order they are read.
Obstacles(u, r) ==
    <<Request(r), Active(r), UserResponse(u), UserRequest(u), UserActive(u)>>

Obstacle(h) == db[Obstacles(task[h].user, task[h].room)[task[h].n]]

AskRefused(h) ==
    /\ task[h].pc = "ask"
    /\ Obstacle(h) # {}
    /\ task' = [task EXCEPT ![h] = Idle]
    /\ UNCHANGED <<db, online, closing, incoming, expired, counters, history>>

AskNext(h) ==
    /\ task[h].pc = "ask"
    /\ Obstacle(h) = {}
    /\ task' = [task EXCEPT ![h].n = IF @ < 5 THEN @ + 1 ELSE @,
                            ![h].pc = IF task[h].n < 5 THEN "ask" ELSE "ring"]
    /\ UNCHANGED <<db, online, closing, incoming, expired, counters, history>>

\* Everybody online in the room is shown the call and marked as ringing;
\* then the request is saved.
Ring(h) ==
    /\ task[h].pc = "ring"
    /\ LET u == task[h].user
           r == task[h].room
           ringing == (online \intersect Members[r]) \ {u}
       IN  /\ incoming' = incoming \union {<<v, u, r>> : v \in ringing}
           /\ consented' = consented \union {<<u, r>>}
           /\ Run(h, <<Put({UserResponse(v) : v \in ringing}, {r}),
                       Put({Request(r)}, {u}),
                       Put({Backup(r)}, {u}),
                       Put({UserRequest(u)}, {r})>>)
    /\ UNCHANGED <<db, online, closing, expired, counters, left, disturbed>>

-----------------------------------------------------------------------------
(* handleCallResponse                                                      *)

\* The answer to a call shown earlier. Without a socket of the caller the
\* handler returns at once.
Answer(h, u, c, r, accepted) ==
    /\ ~Busy(h)
    /\ u \in online
    /\ <<u, c, r>> \in incoming
    /\ incoming' = incoming \ {<<u, c, r>>}
    /\ consented' = IF accepted THEN consented \union {<<u, r>>} ELSE consented
    /\ IF c \in online THEN Start(h, IF accepted THEN "accept" ELSE "reject", u, r)
                       ELSE UNCHANGED <<task, troubles, disturbed>>
    /\ UNCHANGED <<db, online, closing, expired, calls, left>>

\* The mark goes, accepted or not; a rejection ends there.
AnswerUnmark(h) ==
    /\ task[h].pc \in {"accept", "reject"} /\ task[h].n = 1
    /\ db' = [db EXCEPT ![UserResponse(task[h].user)] = {}]
    /\ task' = [task EXCEPT ![h] = IF @.pc = "accept" THEN [@ EXCEPT !.n = 2] ELSE Idle]
    /\ UNCHANGED <<online, closing, incoming, expired, counters, history>>

AcceptRead(h) ==
    /\ task[h].pc = "accept" /\ task[h].n = 2
    /\ task' = [task EXCEPT ![h].seen = db[Request(task[h].room)], ![h].n = 3]
    /\ UNCHANGED <<db, online, closing, incoming, expired, counters, history>>

\* Mutants of JoinRequesting: all recipients are participants; the backup of
\* the request stays.
JoinRecipients(c, u, r) ==
    IF c = u THEN <<>>
    ELSE <<Put({Active(r)}, Members[r]), Put({UserActive(c), UserActive(u)}, {r}),
           Put({Request(r), Backup(r), UserRequest(c)}, {})>>

JoinKeepingBackup(c, u, r) ==
    IF c = u THEN <<>>
    ELSE <<Put({Active(r)}, {c, u}), Put({UserActive(c), UserActive(u)}, {r}),
           Put({Request(r), UserRequest(c)}, {})>>

\* joinRequestingCall: the request of c becomes a call of c and u. A user who
\* is in the call already gets an error.
JoinRequesting(c, u, r) ==
    IF c = u THEN <<>>
    ELSE <<Put({Active(r)}, {c, u}),
           Put({UserActive(c)}, {r}),
           Put({UserActive(u)}, {r}),
           Del(Request(r)),
           Del(Backup(r)),
           Del(UserRequest(c))>>

\* joinActiveCall: u is added to the participants that were read.
JoinActive(participants, u, r) ==
    IF u \in participants THEN <<>>
    ELSE <<Put({Active(r)}, participants \union {u}),
           Put({UserActive(u)}, {r})>>

\* With neither a request nor a call the request has expired.
AcceptCommands(request, participants, u, r) ==
    IF request # {} THEN JoinRequesting(CHOOSE c \in request : TRUE, u, r)
    ELSE IF participants # {} THEN JoinActive(participants, u, r) ELSE <<>>

AcceptJoin(h) ==
    /\ task[h].pc = "accept" /\ task[h].n = 3
    /\ LET u == task[h].user
           r == task[h].room
           commands == AcceptCommands(task[h].seen, db[Active(r)], u, r)
       IN  /\ Run(h, commands)
           /\ left' = IF commands = <<>> THEN left ELSE left \ {<<u, r>>}
    /\ UNCHANGED <<db, online, closing, incoming, expired, counters, consented, disturbed>>

-----------------------------------------------------------------------------
(* handleCallEnd and handleDisconnect                                      *)

\* u's client shows the call in r, or u's own request.
ShowsCall(u, r) == u \in db[Active(r)] \/ u \in db[Request(r)]

End(h, u, r) ==
    /\ ~Busy(h)
    /\ u \in online
    /\ ShowsCall(u, r)
    /\ Start(h, "end", u, r)
    /\ UNCHANGED <<db, online, closing, incoming, expired, calls, consented, left>>

EndRead(h) ==
    /\ task[h].pc = "end" /\ task[h].n = 1
    /\ task' = [task EXCEPT ![h].seen = db[Active(task[h].room)], ![h].n = 2]
    /\ UNCHANGED <<db, online, closing, incoming, expired, counters, history>>

\* Mutant of EndCompletely: only the first participant is freed.
EndForFirst(order, r) ==
    <<Del(Active(r)),
      Put({UserActive(order[1]), UserRequest(order[1]), UserResponse(order[1])}, {})>>

\* Everybody is freed, one after the other (in the order they joined, which the
\* set abstracts).
Freeing(order) ==
    [i \in 1 .. 2 * Len(order) |-> Del(IF i % 2 = 1 THEN UserActive(order[(i + 1) \div 2])
                                                     ELSE UserRequest(order[i \div 2]))]

\* endCallCompletely.
EndCompletely(order, r) ==
    <<Del(Active(r))>>
    \o Freeing(order)
    \o <<Put({UserResponse(order[i]) : i \in DOMAIN order}, {})>>

\* leaveCall: remainingParticipants is everybody, the leaver too.
LeaveCall(participants, u, r) ==
    <<Put({Active(r)}, participants),
      Del(UserActive(u)),
      Del(UserRequest(u))>>

\* The request goes, with the user request of whoever ends it. The participants
\* of a request are its caller alone, so only the caller is unmarked.
EndRequest(c, u, r) ==
    <<Del(Request(r)),
      Del(Backup(r)),
      Del(UserRequest(u)),
      Del(UserResponse(c))>>

Orders(S) == {o \in [1 .. Cardinality(S) -> S] : \A i, j \in DOMAIN o : i # j => o[i] # o[j]}

\* What ending the call does for u, if u is in it.
CallEndings(participants, u, r) ==
    IF participants = {} THEN {<<>>}
    ELSE IF Cardinality(participants) <= 2
    THEN {EndCompletely(order, r) : order \in Orders(participants)}
    ELSE {LeaveCall(participants, u, r)}

\* An outsider of a call ends nothing, not even a request.
EndDecide(h) ==
    /\ task[h].pc = "end" /\ task[h].n = 2
    /\ LET u == task[h].user
           r == task[h].room
           participants == task[h].seen
           ofRequest == IF db[Request(r)] = {} THEN {<<>>}
                        ELSE {EndRequest(c, u, r) : c \in db[Request(r)]}
       IN  IF participants # {} /\ u \notin participants
           THEN Run(h, <<>>) /\ UNCHANGED left
           ELSE /\ \E p \in CallEndings(participants, u, r), q \in ofRequest : Run(h, p \o q)
                /\ left' = IF Cardinality(participants) > 2 THEN left \union {<<u, r>>} ELSE left
    /\ UNCHANGED <<db, online, closing, incoming, expired, counters, consented, disturbed>>

\* The chat socket of u goes.
Disconnect(u) ==
    /\ u \in online
    /\ Trouble
    /\ online' = online \ {u}
    /\ closing' = closing \union {u}
    /\ UNCHANGED <<db, incoming, task, expired, calls, history>>

\* handleDisconnect, having told u's friends, reads the room of u's call and
\* ends it there; for a user in no call it throws on the missing value, and a
\* request of u is left alone.
OnDisconnect(h, u) ==
    /\ ~Busy(h)
    /\ u \in closing
    /\ closing' = closing \ {u}
    /\ IF db[UserActive(u)] = {} THEN UNCHANGED <<task, troubles, disturbed>>
       ELSE \E r \in db[UserActive(u)] : Start(h, "end", u, r)
    /\ UNCHANGED <<db, online, incoming, expired, calls, consented, left>>

\* A user who connects is shown a pending request (checkPendingCallRequest).
Connect(u) ==
    /\ u \notin online
    /\ online' = online \union {u}
    /\ LET pending == {m \in {u} \X Users \X Rooms :
                          /\ u \in Members[m[3]]
                          /\ m[2] \in db[Request(m[3])] \ {u}}
       IN  IF pending = {} THEN UNCHANGED incoming
           ELSE \E m \in pending : incoming' = incoming \union {m}
    /\ UNCHANGED <<db, closing, task, expired, counters, history>>

-----------------------------------------------------------------------------
(* Expiry of keys, and crashes                                             *)

\* 15 seconds after it was set the request goes, and Redis publishes that.
ExpireRequest(r) ==
    /\ db[Request(r)] # {}
    /\ db' = [db EXCEPT ![Request(r)] = {}]
    /\ expired' = expired \union {r}
    /\ disturbed' = (disturbed \/ \E k \in Handlers : Busy(k))
    /\ UNCHANGED <<online, closing, incoming, task, counters, consented, left>>

\* handleCallRequestExpired: the backup tells whose request it was, and whom
\* it was for.
OnExpired(h, r) ==
    /\ ~Busy(h)
    /\ r \in expired
    /\ expired' = expired \ {r}
    /\ Start(h, "expire", Nobody, r)
    /\ UNCHANGED <<db, online, closing, incoming, calls, consented, left>>

ExpireDecide(h) ==
    /\ task[h].pc = "expire"
    /\ LET r == task[h].room
           c == CHOOSE c \in db[Backup(r)] : TRUE
       IN  Run(h, IF db[Backup(r)] = {} THEN <<>>
                  ELSE <<Put({UserResponse(v) : v \in Members[r] \ {c}}, {}),
                         Del(UserRequest(c)),
                         Del(Backup(r))>>)
    /\ UNCHANGED <<db, online, closing, incoming, expired, counters, history>>

\* The user request was set after the request, with the same 15 seconds, and
\* the backup has 10 seconds more, a long time for handlers.
ExpireUserRequest(u) ==
    /\ db[UserRequest(u)] # {}
    /\ \A r \in db[UserRequest(u)] : u \notin db[Request(r)]
    /\ db' = [db EXCEPT ![UserRequest(u)] = {}]
    /\ UNCHANGED <<online, closing, incoming, task, expired, counters, history>>

ExpireBackup(r) ==
    /\ db[Backup(r)] # {}
    /\ db[Request(r)] = {}
    /\ r \notin expired
    /\ \A h \in Handlers : ~InRoom(h, r)
    /\ db' = [db EXCEPT ![Backup(r)] = {}]
    /\ UNCHANGED <<online, closing, incoming, task, expired, counters, history>>

\* A call is forgotten an hour after the last join, and each participant an
\* hour after their own.
ExpireCall(key) ==
    /\ key \in {Active(r) : r \in Rooms} \union {UserActive(u) : u \in Users}
    /\ Trouble
    /\ disturbed' = TRUE
    /\ db[key] # {}
    /\ db' = [db EXCEPT ![key] = {}]
    /\ UNCHANGED <<online, closing, incoming, task, expired, calls, consented, left>>

\* The server dies: handlers and undelivered expiry events are lost.
Crash ==
    /\ Trouble
    /\ disturbed' = TRUE
    /\ task' = [h \in Handlers |-> Idle]
    /\ expired' = {}
    /\ online' = {}
    /\ closing' = {}
    /\ UNCHANGED <<db, incoming, calls, consented, left>>

-----------------------------------------------------------------------------

HandlerStep(h) ==
    \/ Execute(h)
    \/ AskRefused(h)
    \/ AskNext(h)
    \/ Ring(h)
    \/ AnswerUnmark(h)
    \/ AcceptRead(h)
    \/ AcceptJoin(h)
    \/ EndRead(h)
    \/ EndDecide(h)
    \/ ExpireDecide(h)

Next ==
    \/ \E h \in Handlers, u \in Users, r \in Rooms : Ask(h, u, r) \/ End(h, u, r)
    \/ \E h \in Handlers, u, c \in Users, r \in Rooms, yes \in BOOLEAN : Answer(h, u, c, r, yes)
    \/ \E h \in Handlers, u \in Users : OnDisconnect(h, u)
    \/ \E u \in Users : Disconnect(u) \/ Connect(u) \/ ExpireUserRequest(u)
    \/ \E h \in Handlers : HandlerStep(h)
    \/ \E r \in Rooms : ExpireRequest(r) \/ ExpireBackup(r)
    \/ \E h \in Handlers, r \in Rooms : OnExpired(h, r)
    \/ \E key \in Keys : ExpireCall(key)
    \/ Crash

Spec == Init /\ [][Next]_vars

-----------------------------------------------------------------------------
(* Properties                                                              *)

Phases == {"idle", "ask", "ring", "accept", "reject", "end", "expire", "run"}

\* Every variable has the shape the code gives it: room keys hold users, user
\* keys hold at most one room, and a call that exists has two participants at
\* least.
TypeOK ==
    /\ DOMAIN db = Keys
    /\ \A r \in Rooms :
        /\ db[Request(r)] \subseteq Users /\ Cardinality(db[Request(r)]) <= 1
        /\ db[Backup(r)] \subseteq Users /\ Cardinality(db[Backup(r)]) <= 1
        /\ db[Active(r)] \subseteq Users /\ Cardinality(db[Active(r)]) # 1
    /\ \A u \in Users : \A key \in {UserRequest(u), UserActive(u), UserResponse(u)} :
        db[key] \subseteq Rooms /\ Cardinality(db[key]) <= 1
    /\ online \union closing \subseteq Users
    /\ incoming \subseteq Users \X Users \X Rooms
    /\ \A h \in Handlers : task[h].pc \in Phases
    /\ expired \subseteq Rooms

\* Whoever is a participant of a call, in Redis, started or accepted a call in
\* that room: no interleaving of joins, expiries and crashes puts anybody else
\* into one.
ParticipantsConsented ==
    \A r \in Rooms : \A u \in db[Active(r)] \union db[Request(r)] : <<u, r>> \in consented

AtRest ==
    /\ \A h \in Handlers : ~Busy(h)
    /\ expired = {}
    /\ ~disturbed

\* Between handlers that never met, the request of a room, its backup and the
\* caller's own mark agree: joining, ending and expiring each clear all three.
\* (Except for a caller who answers a call of another room meanwhile: ending
\* that one clears the mark of the request.)
RequestConsistent ==
    AtRest => \A r \in Rooms :
        /\ db[Backup(r)] = db[Request(r)]
        /\ \A u \in db[Request(r)] :
              \/ \E q \in Rooms \ {r} : <<u, q>> \in consented
              \/ db[UserRequest(u)] = {r}
        /\ \A u \in Users : db[UserRequest(u)] = {r} => u \in db[Request(r)]

\* ... and the call and its participants' own marks agree: who is marked as
\* being in the call of r is one of its participants, and a participant who
\* did not leave, nor take another call meanwhile, is marked.
CallConsistent ==
    AtRest => \A r \in Rooms :
        /\ \A u \in Users : db[UserActive(u)] = {r} => u \in db[Active(r)]
        /\ \A u \in db[Active(r)] :
              \/ <<u, r>> \in left
              \/ \E q \in Rooms \ {r} : <<u, q>> \in consented
              \/ db[UserActive(u)] = {r}

\* "Depending on the number of remaining participants, end or process the
\* leaving": who left a call, and did not accept it again, is none of its
\* participants when all is at rest. VIOLATED: the participants saved are
\* those of before, the leaver included.
LeaversAreOut ==
    AtRest => \A r \in Rooms :
        \A u \in Users : <<u, r>> \in left => u \notin db[Active(r)]

=============================================================================
