------------------------------ MODULE ChatRooms ------------------------------
(***************************************************************************)
(* Chat rooms, their members and messages (chat.service.ts), and the       *)
(* Socket.IO rooms the messages go out to (chat.gateway.ts).               *)
(*                                                                         *)
(* Membership is in the database; who hears a room is decided when a       *)
(* socket connects or subscribes, and not again. A service call is a       *)
(* series of statements, each on its own; only a message is saved together *)
(* with the unread counts, in one transaction. A message is dated when its *)
(* transaction starts. An account that is removed takes its rows in all    *)
(* rooms with it (onDelete of the entities), and the rooms stay.           *)
(***************************************************************************)
EXTENDS Naturals, FiniteSets, Sequences

CONSTANTS
    Users,
    Rooms,           \* bound: rooms ever created
    Jobs,            \* bound: calls being served at the same time
    MaxMessages,     \* bound: messages there are at first or sent later
    MaxLoad          \* bound: calls, pages opened, connections and messages sent, together

ASSUME ChatAssumption ==
    IsFiniteSet(Users) /\ Rooms # {} /\ MaxMessages \in Nat /\ MaxLoad \in Nat

VARIABLES
    room,      \* chat_rooms: the type of each room, or "none", or "removed"
    member,    \* chat_room_members: the role of each user in each room, or "none"
    unread,    \* their unread counts
    gone,      \* users: whose account was removed
    message,   \* chat_messages by date, from the start of their transaction on
    job,       \* the calls being served
    socket,    \* each user's socket: "down", "connecting" or "up"
    joined,    \* the Socket.IO rooms of each socket
    found,     \* the rooms handleConnection has found for a socket
    inbox,     \* messages on their way to each page
    load,      \* what has been done of what MaxLoad allows
    \* History:
    crossed,   \* pairs whose direct rooms two calls looked for at the same time
    broken,    \* rooms whose creation or leaving failed halfway
    thinned,   \* rooms whose owner sent members away
    added,     \* <<r, u, role>>: addMemberToRoom was called for u, and made him a member
    alone,     \* rooms whose owner has had nobody else in them yet
    bereft,    \* <<r, what>>: a removed account was r's "owner", "member" or a "sender" in it
    missed     \* <<u, m>>: u's socket was not in the room when m went out

tables == <<room, member, unread, gone>>
sockets == <<socket, joined, found, inbox>>
history == <<crossed, broken, thinned, added, alone, bereft, missed>>
chat == <<room, member, unread, gone, message, job, socket, joined, found, inbox,
          load, crossed, broken, thinned, added, alone, bereft, missed>>

-----------------------------------------------------------------------------
Messages == 1 .. MaxMessages
Types == {"direct", "group"}
Roles == {"owner", "member"}     \* an admin may do what a member may
Exists(r) == room[r] \in Types
MembersOf(r) == {u \in Users : member[r][u] # "none"}
RoomsOf(u) == {r \in Rooms : member[r][u] # "none"}

NoMessage == [room |-> "none", from |-> "nobody", state |-> "none"]
Saved(r) == {m \in Messages : message[m].room = r /\ message[m].state \in {"saved", "sent"}}

Idle == [op |-> "idle", pc |-> "done", user |-> "nobody", type |-> "none",
         room |-> "none", role |-> "none", left |-> {}, pair |-> {}, message |-> 0]
At(h, op, pc) == job[h].op = op /\ job[h].pc = pc
Goto(h, pc) == job' = [job EXCEPT ![h].pc = pc]
Finish(h) == job' = [job EXCEPT ![h] = Idle]
GoOn(h, ok, pc) == IF ok THEN Goto(h, pc) ELSE Finish(h)

Spend(n) == load' = load + n /\ load' <= MaxLoad

Start(h, c) ==
    /\ job[h] = Idle
    /\ Spend(1)
    /\ job' = [job EXCEPT ![h] = c]
    /\ UNCHANGED <<tables, message, sockets, history>>

\* At first there is no room, or one group with messages sent in it, and everybody
\* is connected, since before he was made a member or after.
NoMembers == [u \in Users |-> "none"]
FirstRoom == CHOOSE r \in Rooms : TRUE
Group(o, others) ==
    [u \in Users |-> CASE u = o -> "owner" [] u \in others -> "member" [] OTHER -> "none"]

RInit ==
    /\ \E o \in Users, others \in SUBSET Users, old \in {0, MaxMessages - 1} :
         LET there == others # {} /\ o \notin others
         IN  /\ room = [r \in Rooms |-> IF r = FirstRoom /\ there THEN "group" ELSE "none"]
             /\ member = [r \in Rooms |-> IF r = FirstRoom /\ there THEN Group(o, others) ELSE NoMembers]
             /\ message = [m \in Messages |-> IF m <= old /\ there
                    THEN [room |-> FirstRoom, from |-> o, state |-> "sent"] ELSE NoMessage]
    /\ unread = [r \in Rooms |-> [u \in Users |-> 0]]
    /\ job = [h \in Jobs |-> Idle]
    /\ socket = [u \in Users |-> "up"]
    /\ joined \in {[u \in Users |-> RoomsOf(u) \ late] : late \in {{}, Rooms}}
    /\ found = [u \in Users |-> {}]
    /\ inbox = [u \in Users |-> <<>>]
    /\ load = 0
    /\ gone = {}
    /\ crossed = {} /\ broken = {} /\ thinned = {} /\ missed = {}
    /\ added = {} /\ alone = {} /\ bereft = {}

-----------------------------------------------------------------------------
(* createChatRoom, findDirectChatRoom, addMemberToRoom                     *)

\* A direct room is for one other user, a group for any number, also none.
Create(h, u, type, others) ==
    /\ u \notin others /\ (type = "direct" => Cardinality(others) = 1)
    /\ Start(h, [Idle EXCEPT !.op = "create", !.user = u, !.left = others, !.type = type,
                     !.pc = IF type = "direct" THEN "find" ELSE "save",
                     !.pair = IF type = "direct" THEN {u} \union others ELSE {}])

\* Mutant of FindDirect: the room is not looked for.
FindNothing(h) ==
    /\ At(h, "create", "find")
    /\ Goto(h, "save")
    /\ UNCHANGED <<tables, message, sockets, load, history>>

FindDirect(h) ==
    /\ At(h, "create", "find")
    /\ LET pair == job[h].pair IN
       /\ IF \E r \in Rooms : room[r] = "direct" /\ pair \subseteq MembersOf(r)
          THEN Finish(h) ELSE Goto(h, "save")
       /\ crossed' = IF \E g \in Jobs \ {h} : job[g].pair = pair /\ job[g].pc # "find"
                     THEN crossed \union {pair} ELSE crossed
    /\ UNCHANGED <<tables, message, sockets, load, broken, thinned, added, alone, bereft, missed>>

SaveRoom(h) ==
    /\ At(h, "create", "save")
    /\ \E r \in Rooms : room[r] = "none"
    /\ IF job[h].user \in gone
       THEN Finish(h) /\ UNCHANGED room
       ELSE LET r == CHOOSE q \in Rooms : room[q] = "none" IN
            /\ room' = [room EXCEPT ![r] = job[h].type]
            /\ job' = [job EXCEPT ![h].room = r, ![h].pc = "owner"]
    /\ UNCHANGED <<member, unread, gone, message, sockets, load, history>>

\* addMemberToRoom: a row is inserted unless there is one; the index on room and
\* user and the foreign keys refuse what the look before did not see.
MayInsert(r, u) == Exists(r) /\ u \notin gone
Insert(r, u, role) ==
    /\ member' = [member EXCEPT ![r][u] = IF @ = "none" THEN role ELSE @]
    /\ UNCHANGED unread

\* What is refused ends the call, and the room stays as it is.
Refuse(h) ==
    /\ Finish(h)
    /\ broken' = broken \union {job[h].room}
    /\ UNCHANGED <<member, unread, alone>>

SaveOwner(h) ==
    /\ At(h, "create", "owner")
    /\ IF MayInsert(job[h].room, job[h].user)
       THEN /\ Insert(job[h].room, job[h].user, "owner")
            /\ GoOn(h, job[h].left # {}, "members")
            /\ alone' = IF job[h].left = {} THEN alone \union {job[h].room} ELSE alone
            /\ UNCHANGED broken
       ELSE Refuse(h)
    /\ UNCHANGED <<room, gone, message, sockets, load, crossed, thinned, added, bereft, missed>>

SaveMember(h, u) ==
    /\ At(h, "create", "members") /\ u \in job[h].left
    /\ IF MayInsert(job[h].room, u)
       THEN /\ Insert(job[h].room, u, "member")
            /\ IF job[h].left = {u} THEN Finish(h) ELSE job' = [job EXCEPT ![h].left = @ \ {u}]
            /\ UNCHANGED <<broken, alone>>
       ELSE Refuse(h)
    /\ UNCHANGED <<room, gone, message, sockets, load, crossed, thinned, added, bereft, missed>>

\* Anybody may add anybody to a room, of either type and in any role (who does is not
\* asked); but nobody knows a room before its creator is in it.
Add(h, r, v, role) ==
    /\ Exists(r)
    /\ \A g \in Jobs : ~(At(g, "create", "owner") /\ job[g].room = r)
    /\ Start(h, [Idle EXCEPT !.op = "add", !.pc = "insert", !.room = r, !.left = {v}, !.role = role])

AddMember(h) ==
    /\ At(h, "add", "insert")
    /\ \E v \in job[h].left :
         LET r == job[h].room
             role == job[h].role
         IN  IF MayInsert(r, v) /\ v \notin MembersOf(r)
             THEN /\ Insert(r, v, role)
                  /\ added' = added \union {<<r, v, role>>}
                  /\ alone' = IF MembersOf(r) = {} THEN alone ELSE alone \ {r}
             ELSE UNCHANGED <<member, unread, added, alone>>
    /\ Finish(h)
    /\ UNCHANGED <<room, gone, message, sockets, load, crossed, broken, thinned, bereft, missed>>

-----------------------------------------------------------------------------
(* leaveChatRoom, removeMemberFromRoom, deleteChatRoom                     *)

\* Removing a room takes its members and messages with it.
RemoveRoom(r) ==
    /\ room' = [room EXCEPT ![r] = IF @ = "none" THEN @ ELSE "removed"]
    /\ member' = [member EXCEPT ![r] = NoMembers]
    /\ unread' = [unread EXCEPT ![r] = [u \in Users |-> 0]]
    /\ UNCHANGED gone
    /\ message' = [m \in Messages |-> IF m \in Saved(r)
                                      THEN [message[m] EXCEPT !.state = "gone"] ELSE message[m]]

RemoveMember(r, u) ==
    /\ member' = [member EXCEPT ![r][u] = "none"]
    /\ unread' = [unread EXCEPT ![r][u] = 0]
    /\ UNCHANGED <<room, gone, message>>

Leave(h, u, r) ==
    /\ u \in MembersOf(r)
    /\ Start(h, [Idle EXCEPT !.op = "leave", !.pc = "look", !.user = u, !.room = r])

LookUpMember(h) ==
    /\ At(h, "leave", "look")
    /\ GoOn(h, Exists(job[h].room) /\ job[h].user \in MembersOf(job[h].room),
            IF member[job[h].room][job[h].user] = "owner" THEN "close" ELSE "go")
    /\ UNCHANGED <<tables, message, sockets, load, history>>

Go(h) ==
    /\ At(h, "leave", "go")
    /\ RemoveMember(job[h].room, job[h].user)
    /\ Goto(h, "count")
    /\ UNCHANGED <<sockets, load, history>>

\* Mutant of CountLeft: only an empty room is removed.
CountNobody(h) ==
    /\ At(h, "leave", "count")
    /\ GoOn(h, MembersOf(job[h].room) = {}, "close")
    /\ UNCHANGED <<tables, message, sockets, load, history>>

\* A room of one is removed, whoever is left.
CountLeft(h) ==
    /\ At(h, "leave", "count")
    /\ GoOn(h, Cardinality(MembersOf(job[h].room)) <= 1, "close")
    /\ UNCHANGED <<tables, message, sockets, load, history>>

\* The owner's leaving ends the room, and so does deleteChatRoom.
Close(h) ==
    /\ job[h].op \in {"leave", "delete"} /\ job[h].pc = "close"
    /\ RemoveRoom(job[h].room)
    /\ Finish(h)
    /\ UNCHANGED <<sockets, load, history>>

\* Mutant of MayExpel: the owner may remove anybody, also the owner.
MayExpelAnybody(u, r, v) == Exists(r) /\ member[r][u] = "owner" /\ v \in MembersOf(r)

\* Only the owner removes members, and never the owner.
MayExpel(u, r, v) == Exists(r) /\ member[r][u] = "owner" /\ v \in MembersOf(r) /\ u # v

Expel(h, u, r, v) ==
    /\ u \in MembersOf(r)
    /\ Start(h, [Idle EXCEPT !.op = "expel", !.pc = "look", !.user = u, !.room = r, !.left = {v}])

LookUpTarget(h) ==
    /\ At(h, "expel", "look")
    /\ GoOn(h, \A v \in job[h].left : MayExpel(job[h].user, job[h].room, v), "go")
    /\ UNCHANGED <<tables, message, sockets, load, history>>

RemoveTarget(h) ==
    /\ At(h, "expel", "go")
    /\ \A v \in job[h].left : RemoveMember(job[h].room, v)
    /\ thinned' = thinned \union {job[h].room}
    /\ Finish(h)
    /\ UNCHANGED <<sockets, load, crossed, broken, added, alone, bereft, missed>>

Delete(h, u, r) ==
    /\ u \in MembersOf(r)
    /\ Start(h, [Idle EXCEPT !.op = "delete", !.pc = "look", !.user = u, !.room = r])

LookUpOwner(h) ==
    /\ At(h, "delete", "look")
    /\ GoOn(h, Exists(job[h].room) /\ member[job[h].room][job[h].user] = "owner", "close")
    /\ UNCHANGED <<tables, message, sockets, load, history>>

-----------------------------------------------------------------------------
(* sendMessage                                                             *)

Send(h, u, r) ==
    /\ socket[u] # "down" /\ job[h] = Idle
    /\ \E m \in Messages : message[m] = NoMessage
    /\ Spend(1)
    /\ job' = [job EXCEPT ![h] = [Idle EXCEPT !.op = "send", !.pc = "look", !.user = u, !.room = r]]
    /\ UNCHANGED <<tables, message, sockets, history>>

LookUpSender(h) ==
    /\ At(h, "send", "look")
    /\ GoOn(h, job[h].user \in MembersOf(job[h].room), "begin")
    /\ UNCHANGED <<tables, message, sockets, load, history>>

\* The transaction starts: the message is dated.
Begin(h) ==
    /\ At(h, "send", "begin")
    /\ \E m \in Messages :
         /\ message[m] = NoMessage /\ \A n \in 1 .. m - 1 : message[n] # NoMessage
         /\ message' = [message EXCEPT ![m] =
                [room |-> job[h].room, from |-> job[h].user, state |-> "begun"]]
         /\ job' = [job EXCEPT ![h].message = m, ![h].pc = "commit"]
    /\ UNCHANGED <<tables, sockets, load, history>>

Raised(counts, r, from) ==
    [u \in Users |-> IF u \in MembersOf(r) \ {from} THEN counts[u] + 1 ELSE counts[u]]

\* It ends: the message is there and unread by the others, or the room is gone, or
\* the sender's account.
Commit(h) ==
    /\ At(h, "send", "commit")
    /\ LET r == job[h].room IN
       IF Exists(r) /\ job[h].user \notin gone
       THEN /\ message' = [message EXCEPT ![job[h].message].state = "saved"]
            /\ unread' = [unread EXCEPT ![r] = Raised(@, r, job[h].user)]
            /\ Goto(h, "emit")
       ELSE /\ message' = [message EXCEPT ![job[h].message].state = "gone"]
            /\ unread' = unread
            /\ Finish(h)
    /\ UNCHANGED <<room, member, gone, sockets, load, history>>

\* message-received goes to the sockets in the room at this moment.
Emit(h) ==
    /\ At(h, "send", "emit")
    /\ LET r == job[h].room
           m == job[h].message
           here == {u \in Users : socket[u] # "down" /\ r \in joined[u]}
       IN  /\ inbox' = [u \in Users |-> IF u \in here THEN Append(inbox[u], m) ELSE inbox[u]]
           /\ message' = [message EXCEPT ![m].state = IF @ = "saved" THEN "sent" ELSE @]
           /\ missed' = missed \union {<<u, m>> : u \in Users \ here}
    /\ Finish(h)
    /\ UNCHANGED <<tables, socket, joined, found, load, crossed, broken, thinned, added, alone, bereft>>

-----------------------------------------------------------------------------
(* withdrawAccount, deleteUser                                             *)

\* The user's rows and messages go, whatever role he had; no room is closed, and
\* nobody counts who is left. (The creator of a room is forgotten, and never read.)
RemoveAccount(u) ==
    /\ u \notin gone /\ Spend(1)
    /\ gone' = gone \union {u}
    /\ member' = [r \in Rooms |-> [member[r] EXCEPT ![u] = "none"]]
    /\ unread' = [r \in Rooms |-> [unread[r] EXCEPT ![u] = 0]]
    /\ LET sent == {m \in Messages : message[m].from = u /\ message[m].state \in {"saved", "sent"}} IN
       /\ message' = [m \in Messages |-> IF m \in sent THEN [message[m] EXCEPT !.state = "gone"]
                                                         ELSE message[m]]
       /\ bereft' = bereft \union {<<r, member[r][u]>> : r \in RoomsOf(u)}
                           \union {<<message[m].room, "sender">> : m \in sent}
    /\ UNCHANGED <<room, job, sockets, crossed, broken, thinned, added, alone, missed>>

-----------------------------------------------------------------------------
(* handleConnection, handleSubscribeRoom, handleDisconnect                 *)

\* The page may use the socket before handleConnection is done.
Connect(u) ==
    /\ socket[u] = "down" /\ Spend(1)
    /\ socket' = [socket EXCEPT ![u] = "connecting"]
    /\ UNCHANGED <<tables, message, job, joined, found, inbox, history>>

FindRooms(u) ==
    /\ socket[u] = "connecting"
    /\ socket' = [socket EXCEPT ![u] = "joining"]
    /\ found' = [found EXCEPT ![u] = RoomsOf(u)]
    /\ UNCHANGED <<tables, message, job, joined, inbox, load, history>>

JoinFound(u) ==
    /\ socket[u] = "joining"
    /\ socket' = [socket EXCEPT ![u] = "up"]
    /\ joined' = [joined EXCEPT ![u] = @ \union found[u]]
    /\ found' = [found EXCEPT ![u] = {}]
    /\ UNCHANGED <<tables, message, job, inbox, load, history>>

\* What was on its way is lost with the connection.
Lost(u) == {<<u, inbox[u][i]>> : i \in DOMAIN inbox[u]}

Disconnect(u) ==
    /\ socket[u] # "down"
    /\ socket' = [socket EXCEPT ![u] = "down"]
    /\ joined' = [joined EXCEPT ![u] = {}]
    /\ found' = [found EXCEPT ![u] = {}]
    /\ inbox' = [inbox EXCEPT ![u] = <<>>]
    /\ missed' = missed \union Lost(u)
    /\ UNCHANGED <<tables, message, job, load, crossed, broken, thinned, added, alone, bereft>>

\* A call fails between two of its statements. (The save of a room is undone by
\* nothing: a room without its owner stays.)
Fail(h) ==
    /\ job[h].op \in {"create", "leave", "send"} /\ job[h].pc \in {"owner", "members", "count", "commit"}
    /\ Finish(h)
    /\ message' = IF job[h].op = "send" THEN [message EXCEPT ![job[h].message].state = "gone"] ELSE message
    /\ broken' = IF job[h].op = "send" THEN broken ELSE broken \union {job[h].room}
    /\ UNCHANGED <<tables, sockets, load, crossed, thinned, added, alone, bereft, missed>>

Serve(h) ==
    \/ FindDirect(h) \/ SaveRoom(h) \/ SaveOwner(h) \/ \E u \in Users : SaveMember(h, u)
    \/ AddMember(h) \/ LookUpMember(h) \/ Go(h) \/ CountLeft(h) \/ Close(h)
    \/ LookUpTarget(h) \/ RemoveTarget(h) \/ LookUpOwner(h)
    \/ LookUpSender(h) \/ Begin(h) \/ Commit(h) \/ Emit(h)

\* The calls of chat.controller.ts, each by a user there is (JwtStrategy).
Request(h, u) ==
    /\ load < MaxLoad /\ job[h] = Idle /\ u \notin gone
    /\ \/ \E type \in Types, others \in SUBSET Users : Create(h, u, type, others)
       \/ \E r \in Rooms : Leave(h, u, r) \/ Delete(h, u, r)
       \/ \E r \in Rooms, v \in Users : Expel(h, u, r, v) \/ \E role \in Roles : Add(h, r, v, role)

RNext ==
    \/ \E h \in Jobs : Serve(h) \/ Fail(h) \/ \E u \in Users : Request(h, u)
    \/ \E u \in Users : FindRooms(u) \/ JoinFound(u) \/ RemoveAccount(u)

-----------------------------------------------------------------------------
(* Properties                                                              *)

\* Type invariant: every room has a type and every user a role in it or none, and
\* only rooms that exist have members, and only users there are are members.
RTypeOK ==
    /\ room \in [Rooms -> Types \union {"none", "removed"}]
    /\ member \in [Rooms -> [Users -> Roles \union {"none"}]]
    /\ \A r \in Rooms, u \in Users : member[r][u] # "none" => Exists(r) /\ u \notin gone

\* Those of a room who came to it with its creation, and the direct rooms of a pair
\* of them.
Founders(r) == {u \in MembersOf(r) : \A role \in Roles : <<r, u, role>> \notin added}
DirectRooms(a, b) == {r \in Rooms : room[r] = "direct" /\ {a, b} \subseteq Founders(r)}

\* Two users have one direct room (createChatRoom returns the one there is),
\* unless both opened it at the same moment: it is looked for, then saved, and
\* its members come later still. Not counted are direct rooms one of the two was
\* added to later: addMemberToRoom asks for no type.
OneDirectRoom ==
    \A a, b \in Users : a # b /\ {a, b} \notin crossed => Cardinality(DirectRooms(a, b)) <= 1

\* Rooms of which nothing is said about the owner: their creation or somebody's
\* leaving was cut off, the owner's account was removed, or another owner was added
\* (two owners can remove each other).
Unowned ==
    broken \union {r \in Rooms : <<r, "owner">> \in bereft
                                \/ \E u \in Users : <<r, u, "owner">> \in added}

\* Any other room has its owner, who alone can remove it or its members, for as
\* long as it exists: the owner cannot be removed, and does not leave it behind,
\* whatever other members do at the same time.
OwnerStays ==
    \A r \in Rooms : Exists(r) /\ MembersOf(r) # {} /\ r \notin Unowned =>
        \E u \in Users : member[r][u] = "owner"

\* Rooms where one may be alone without anybody's leaving: the creation or a leaving
\* was cut off, the owner removed the members or has had none, or a member's account
\* was removed, after which nobody counts.
Deserted == broken \union thinned \union alone
                   \union {r \in Rooms : \E role \in Roles : <<r, role>> \in bereft}

\* Nobody is left behind alone in any other room by those who leave it, however many
\* leave at the same time: the last of them to count removes it.
NobodyLeftBehind ==
    \A r \in Rooms : Exists(r) /\ r \notin Deserted /\ Cardinality(MembersOf(r)) = 1 =>
        \E h \in Jobs : job[h].room = r /\ job[h].op \in {"create", "leave", "delete"}
=============================================================================
