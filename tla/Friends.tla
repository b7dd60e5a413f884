------------------------------- MODULE Friends -------------------------------
(***************************************************************************)
(* Friend requests and friendships (friends.service.ts), with the client   *)
(* that shows and answers them (useFriendActions, AddFriendModal).         *)
(*                                                                         *)
(* Both tables are plain rows: nothing in the schema makes a pair of users *)
(* unique. A call looks rows up, decides, and saves what it decided in a   *)
(* later statement, with the row it looked up; TypeORM's save inserts a    *)
(* row that is gone by then, and remove of such a row does nothing. A call *)
(* is a job; each of its statements is a step. The client reads again      *)
(* every thirty seconds, but a page, a tab or a result of a search may     *)
(* still show what was read long ago: calls come from anything ever shown. *)
(***************************************************************************)
EXTENDS Naturals, FiniteSets

CONSTANTS
    Users,
    Requests,        \* bound: ids of friend requests ever made
    Friendships,     \* bound: ids of friendships ever made
    Jobs,            \* bound: calls being served at the same time
    MaxCalls         \* bound: calls that may change something; the last one is served alone

ASSUME FriendsAssumption ==
    /\ IsFiniteSet(Users) /\ IsFiniteSet(Requests) /\ IsFiniteSet(Friendships)
    /\ MaxCalls \in Nat

VARIABLES
    requests,    \* friend_requests: a row for each id, or NoRow, or Deleted
    friendships, \* friendships: a pair of users for each id, or NoPair, or Parted
    job,         \* the calls being served
    shown,       \* what a client was ever shown
    calls,       \* calls made
    \* History, read by no action of the program:
    asked,       \* <<a, b>>: a asked b, and they were not parted since
    agreed,      \* <<a, b>>: b accepted a request of a, and they were not parted since
    crossed,     \* pairs with two calls of one kind served at the same time
    reopened,    \* pairs with a request answered after it had been answered
    revived,     \* pairs with a request made pending that was not pending any more
    unsaved      \* pairs befriended by an answer that failed before it was saved

friends == <<requests, friendships, job, shown, calls, asked, agreed, crossed, reopened, revived, unsaved>>

-----------------------------------------------------------------------------
(* Rows, jobs and views                                                    *)

Statuses == {"pending", "accepted", "rejected", "cancelled"}
Rows == [from : Users, to : Users, status : Statuses]
NoRow == [from |-> "nobody"]
Deleted == [from |-> "deleted"]
NoRequest == "none"
Pairs == {p \in SUBSET Users : Cardinality(p) = 2}
NoPair == {}
Parted == {"nobody"}

Used == {r \in Requests : requests[r] \notin {NoRow, Deleted}}
Between(a, b) == {r \in Used : {requests[r].from, requests[r].to} = {a, b}}
Open(r) == r \in Used /\ requests[r].status = "pending"
FriendRows(a, b) == {f \in Friendships : friendships[f] = {a, b}}

Befriended(u) == (UNION {friendships[f] : f \in {g \in Friendships : u \in friendships[g]}}) \ {u}

\* The next id: the database draws a fresh UUID, never one of a deleted row.
FreshRequest(r) == r = CHOOSE q \in Requests : requests[q] = NoRow
FreshFriendship(f) == f = CHOOSE g \in Friendships : friendships[g] = NoPair

Idle == [op |-> "idle", pc |-> "done", user |-> "nobody", peer |-> "nobody",
         req |-> NoRequest, status |-> "none", row |-> NoRow]
Call(op, pc, u, v, r, s) ==
    [op |-> op, pc |-> pc, user |-> u, peer |-> v, req |-> r, status |-> s, row |-> NoRow]
At(h, op, pc) == job[h].op = op /\ job[h].pc = pc
Goto(h, pc) == job' = [job EXCEPT ![h].pc = pc]
Finish(h) == job' = [job EXCEPT ![h] = Idle]

First(S) == CHOOSE x \in S : TRUE
OldRows == {row \in Rows : row.from # row.to /\ row.status \in {"pending", "accepted"}}

\* One pair may be friends from before, and one request is left from before;
\* the two it is between have seen it.
FInit ==
    /\ \E old \in OldRows \union {NoRow} :
         requests = [r \in Requests |-> IF r = First(Requests) THEN old ELSE NoRow]
    /\ \E old \in Pairs \union {NoPair} :
         /\ \A r \in Used : Open(r) => {requests[r].from, requests[r].to} # old
         /\ friendships = [f \in Friendships |-> IF f = First(Friendships) THEN old ELSE NoPair]
    /\ job = [h \in Jobs |-> Idle]
    /\ shown = [u \in Users |-> [received |-> {r \in Used : requests[r].to = u},
                                 sent |-> {r \in Used : requests[r].from = u},
                                 friends |-> Befriended(u)]]
    /\ calls = 0
    /\ agreed = {p \in Users \X Users : \E f \in Friendships : friendships[f] = {p[1], p[2]}}
    /\ asked = agreed \union {<<requests[r].from, requests[r].to>> : r \in {q \in Used : Open(q)}}
    /\ crossed = {}
    /\ reopened = {}
    /\ revived = {}
    /\ unsaved = {}

database == <<requests, friendships>>
history == <<asked, agreed, crossed, reopened, revived, unsaved>>

\* A call arrives: friends.controller.ts takes the user from the token. The
\* pairs of calls of one kind that meet are remembered.
Start(h, c, p) ==
    /\ job[h] = Idle
    /\ calls < MaxCalls
    /\ calls + 1 = MaxCalls => \A g \in Jobs : job[g] = Idle
    /\ calls' = calls + 1
    /\ job' = [job EXCEPT ![h] = c]
    /\ crossed' = IF \E g \in Jobs : job[g].op = c.op /\ {job[g].user, job[g].peer} = p
                  THEN crossed \union {p} ELSE crossed
    /\ UNCHANGED <<database, shown, asked, agreed, reopened, revived, unsaved>>

-----------------------------------------------------------------------------
(* createFriendRequest                                                     *)

\* The client offers "add" for users found and not marked. Results of a search
\* are kept for minutes, so anybody may have been found.
Ask(h, u, v) == u # v /\ Start(h, Call("ask", "open", u, v, NoRequest, "none"), {u, v})

\* Mutant of LookForOpen: only requests of the same user are looked for.
LookForOwnOpen(h) ==
    /\ At(h, "ask", "open")
    /\ IF \E r \in Between(job[h].user, job[h].peer) : Open(r) /\ requests[r].from = job[h].user
       THEN Finish(h) ELSE Goto(h, "friends")
    /\ UNCHANGED <<database, shown, calls, history>>

\* Step 3 of the code: an open request of either to the other is a conflict.
LookForOpen(h) ==
    /\ At(h, "ask", "open")
    /\ IF \E r \in Between(job[h].user, job[h].peer) : Open(r)
       THEN Finish(h) ELSE Goto(h, "friends")
    /\ UNCHANGED <<database, shown, calls, history>>

\* Mutant of LookForFriend: friends may ask.
LookForNoFriend(h) ==
    /\ At(h, "ask", "friends")
    /\ Goto(h, "insert")
    /\ UNCHANGED <<database, shown, calls, history>>

\* Step 4: friends need not ask.
LookForFriend(h) ==
    /\ At(h, "ask", "friends")
    /\ IF FriendRows(job[h].user, job[h].peer) # {} THEN Finish(h) ELSE Goto(h, "insert")
    /\ UNCHANGED <<database, shown, calls, history>>

InsertRequest(h) ==
    /\ At(h, "ask", "insert")
    /\ \E r \in Requests :
         /\ requests[r] = NoRow /\ FreshRequest(r)
         /\ requests' = [requests EXCEPT ![r] =
                [from |-> job[h].user, to |-> job[h].peer, status |-> "pending"]]
    /\ asked' = asked \union {<<job[h].user, job[h].peer>>}
    /\ Finish(h)
    /\ UNCHANGED <<friendships, shown, calls, agreed, crossed, reopened, revived, unsaved>>

-----------------------------------------------------------------------------
(* updateFriendRequest                                                     *)

\* Answering a request the client knows of. The pages offer to accept and to
\* reject the received ones; the API takes any status for any request.
Answer(h, u, r, status) ==
    /\ r \in shown[u].received \union shown[u].sent
    /\ Start(h, Call("answer", "read", u, "nobody", r, status),
             IF r \in Used THEN {requests[r].from, u} ELSE {u})

\* The page of sent requests passes the id of the recipient where the id of
\* the request belongs: there is no such request.
CancelSent(h, u, r) ==
    /\ r \in shown[u].sent
    /\ Start(h, Call("answer", "read", u, "nobody", NoRequest, "cancelled"), {u})

\* Who may answer: the recipient accepts or rejects, the requester cancels,
\* either makes the request pending again.
Allowed(h, row) ==
    job[h].user \in CASE job[h].status = "cancelled" -> {row.from}
                      [] job[h].status \in {"accepted", "rejected"} -> {row.to}
                      [] OTHER -> {row.from, row.to}

\* The row is looked up once; whether it is still pending is not asked.
ReadRequest(h) ==
    /\ At(h, "answer", "read")
    /\ LET r == job[h].req IN
       IF r \notin Used \/ (r \in Used /\ ~Allowed(h, requests[r]))
       THEN Finish(h) /\ UNCHANGED <<crossed, reopened>>
       ELSE LET pair == {requests[r].from, requests[r].to} IN
            /\ job' = [job EXCEPT ![h].row = requests[r],
                                  ![h].peer = CHOOSE v \in pair : v # job[h].user,
                                  ![h].pc = IF job[h].status = "accepted"
                                            THEN "friends" ELSE "save"]
            /\ reopened' = IF Open(r) THEN reopened ELSE reopened \union {pair}
            /\ crossed' = IF \E g \in Jobs : g # h /\ job[g].op = "answer" /\ job[g].row # NoRow
                                             /\ {job[g].row.from, job[g].row.to} = pair
                          THEN crossed \union {pair} ELSE crossed
    /\ UNCHANGED <<database, shown, calls, asked, agreed, revived, unsaved>>

CheckFriend(h) ==
    /\ At(h, "answer", "friends")
    /\ IF FriendRows(job[h].user, job[h].peer) # {} THEN Finish(h) ELSE Goto(h, "befriend")
    /\ UNCHANGED <<database, shown, calls, history>>

Befriend(h) ==
    /\ At(h, "answer", "befriend")
    /\ \E f \in Friendships :
         /\ friendships[f] = NoPair /\ FreshFriendship(f)
         /\ friendships' = [friendships EXCEPT ![f] = {job[h].user, job[h].peer}]
    /\ Goto(h, "save")
    /\ agreed' = agreed \union {<<job[h].row.from, job[h].user>>}
    /\ reopened' = IF Open(job[h].req) THEN reopened
                   ELSE reopened \union {{job[h].user, job[h].peer}}
    /\ UNCHANGED <<requests, shown, calls, asked, crossed, revived, unsaved>>

Revives(h) == job[h].status = "pending" /\ ~Open(job[h].req)

\* Mutant of SaveAnswer: the request is saved as it was read.
SaveUnanswered(h) ==
    /\ At(h, "answer", "save")
    /\ requests' = [requests EXCEPT ![job[h].req] = job[h].row]
    /\ IF job[h].status = "rejected" THEN Goto(h, "remove") ELSE Finish(h)
    /\ revived' = IF Revives(h) THEN revived \union {{job[h].user, job[h].peer}} ELSE revived
    /\ UNCHANGED <<friendships, shown, calls, asked, agreed, crossed, reopened, unsaved>>

\* save writes the row as it was read, with the new status: a row that was
\* deleted meanwhile is inserted again, one that was answered may be made pending.
SaveAnswer(h) ==
    /\ At(h, "answer", "save")
    /\ requests' = [requests EXCEPT ![job[h].req] = [job[h].row EXCEPT !.status = job[h].status]]
    /\ IF job[h].status = "rejected" THEN Goto(h, "remove") ELSE Finish(h)
    /\ revived' = IF Revives(h) THEN revived \union {{job[h].user, job[h].peer}} ELSE revived
    /\ UNCHANGED <<friendships, shown, calls, asked, agreed, crossed, reopened, unsaved>>

\* A rejected request is not kept.
RemoveRejected(h) ==
    /\ At(h, "answer", "remove")
    /\ requests' = [requests EXCEPT ![job[h].req] = Deleted]
    /\ Finish(h)
    /\ UNCHANGED <<friendships, shown, calls, history>>

-----------------------------------------------------------------------------
(* deleteFriendRequest, deleteFriend                                       *)

\* DELETE requests/:recipientId takes the other user, not a request.
Withdraw(h, u, v) == u # v /\ Start(h, Call("withdraw", "find", u, v, NoRequest, "none"), {u, v})

\* findOne takes any request of u to v, whatever its status.
FindSent(h) ==
    /\ At(h, "withdraw", "find")
    /\ LET rows == {r \in Used : requests[r].from = job[h].user /\ requests[r].to = job[h].peer} IN
       IF rows = {} THEN Finish(h)
       ELSE \E r \in rows : job' = [job EXCEPT ![h].req = r, ![h].pc = "drop"]
    /\ UNCHANGED <<database, shown, calls, history>>

DropRequest(h) ==
    /\ At(h, "withdraw", "drop")
    /\ requests' = [requests EXCEPT ![job[h].req] = Deleted]
    /\ Finish(h)
    /\ UNCHANGED <<friendships, shown, calls, history>>

Unfriend(h, u, v) ==
    /\ v \in shown[u].friends
    /\ Start(h, Call("unfriend", "find", u, v, NoRequest, "none"), {u, v})

FindFriendship(h) ==
    /\ At(h, "unfriend", "find")
    /\ LET rows == FriendRows(job[h].user, job[h].peer) IN
       IF rows = {} THEN Finish(h)
       ELSE \E f \in rows : job' = [job EXCEPT ![h].req = f, ![h].pc = "drop"]
    /\ UNCHANGED <<database, shown, calls, history>>

Without(ways, pair) == {p \in ways : {p[1], p[2]} # pair}

\* What the two asked and agreed before is over with the friendship.
DropFriendship(h) ==
    /\ At(h, "unfriend", "drop")
    /\ friendships' = [friendships EXCEPT ![job[h].req] = Parted]
    /\ Finish(h)
    /\ asked' = Without(asked, friendships[job[h].req])
    /\ agreed' = Without(agreed, friendships[job[h].req])
    /\ UNCHANGED <<requests, shown, calls, crossed, reopened, revived, unsaved>>

-----------------------------------------------------------------------------
(* The queries: getFriendRequests, getFriends, searchUsers                 *)

\* Lists are read whole, and replace each other in the page that read them; a
\* call may come from any of them.
Received(u) == {r \in Used : requests[r].to = u /\ Open(r)}
Sent(u) == {r \in Used : requests[r].from = u /\ Open(r)}

Lists(u) == [received |-> Received(u), sent |-> Sent(u), friends |-> Befriended(u)]

\* Every thirty seconds, and after a call of one's own.
Refetch(u, part) ==
    /\ shown' = [shown EXCEPT ![u][part] = @ \union Lists(u)[part]]
    /\ UNCHANGED <<database, job, calls, history>>

\* A search finds who is not a friend, and marks the open requests of those it
\* found; it is shown, and kept, beside the lists.
Search(u) ==
    /\ LET found == Users \ (Befriended(u) \union {u})
           received == {r \in Received(u) : requests[r].from \in found}
       IN  shown' = [shown EXCEPT ![u].received = @ \union received]
    /\ UNCHANGED <<database, job, calls, history>>

-----------------------------------------------------------------------------
Serve(h) ==
    \/ LookForOpen(h) \/ LookForFriend(h) \/ InsertRequest(h)
    \/ ReadRequest(h) \/ CheckFriend(h) \/ Befriend(h) \/ SaveAnswer(h) \/ RemoveRejected(h)
    \/ FindSent(h) \/ DropRequest(h)
    \/ FindFriendship(h) \/ DropFriendship(h)

\* A statement fails, or the server stops: what was written before it stays.
HalfDone(h) == IF At(h, "answer", "save") /\ job[h].status = "accepted"
               THEN {{job[h].row.from, job[h].row.to}} ELSE {}

Fail(h) ==
    /\ job[h] # Idle
    /\ Finish(h)
    /\ unsaved' = unsaved \union HalfDone(h)
    /\ UNCHANGED <<database, shown, calls, asked, agreed, crossed, reopened, revived>>

Click(h, u) ==
    \/ \E v \in Users : Ask(h, u, v) \/ Withdraw(h, u, v) \/ Unfriend(h, u, v)
    \/ \E r \in Requests : CancelSent(h, u, r)
    \/ \E r \in Requests, s \in Statuses : Answer(h, u, r, s)

Parts == {"received", "sent", "friends"}

FNext ==
    \/ \E h \in Jobs : Serve(h) \/ Fail(h) \/ \E u \in Users : Click(h, u)
    \/ \E u \in Users : Search(u) \/ \E part \in Parts : Refetch(u, part)

-----------------------------------------------------------------------------
(* Properties                                                              *)

View == [received : SUBSET Requests, sent : SUBSET Requests, friends : SUBSET Users]

\* Type invariant: rows name users, a friendship is between two users, jobs
\* and views refer to ids.
FTypeOK ==
    /\ requests \in [Requests -> Rows \union {NoRow, Deleted}]
    /\ friendships \in [Friendships -> Pairs \union {NoPair, Parted}]
    /\ \A h \in Jobs : job[h] # Idle =>
         /\ job[h].user \in Users /\ job[h].row \in Rows \union {NoRow}
         /\ job[h].req \in Requests \union Friendships \union {NoRequest}
    /\ \A u \in Users : shown[u] \in View
    /\ calls \in 0 .. MaxCalls
    /\ asked \in SUBSET (Users \X Users) /\ agreed \in SUBSET (Users \X Users)

\* Two users never have two open requests between them, in either direction
\* (createFriendRequest refuses the second), and are friends by one row only, or
\* unfriending would leave the other (updateFriendRequest looks before it
\* inserts). Except for pairs with calls of one kind that were served at the same
\* time, nothing in the schema helps; and a request that was answered, or
\* withdrawn meanwhile, and is saved as pending again may come beside another,
\* nothing looks for that one.
OnePerPair ==
    \A a, b \in Users : a # b /\ {a, b} \notin crossed =>
        /\ {a, b} \notin revived => Cardinality({r \in Between(a, b) : Open(r)}) <= 1
        /\ Cardinality(FriendRows(a, b)) <= 1

\* Pairs whose requests were not answered once, one call after the other: what
\* a request says of them need not be true any more.
Excused == crossed \union reopened \union revived \union unsaved

\* The answer that is about to be saved.
Saving(h, r) == At(h, "answer", "save") /\ job[h].req = r /\ job[h].status = "accepted"

\* Friends have no open request between them, once the one they became friends
\* by is saved: createFriendRequest looks for open requests before friendships,
\* and updateFriendRequest saves the friendship before the request, so no
\* interleaving of the two slips through. Excepted are pairs with a request
\* answered or made pending although it was not open any more (nothing looks at
\* its status), and those whose answer failed between the two saves.
NotAskedOfFriends ==
    \A a, b \in Users : a # b /\ {a, b} \notin Excused /\ FriendRows(a, b) # {} =>
        \A r \in Between(a, b) : Open(r) => \E h \in Jobs : Saving(h, r)

\* Friendship takes two, each time anew: since the friends were last apart one of
\* them asked the other and that one accepted, however calls interleave and
\* however stale the views they came from; what was asked and agreed before an
\* unfriending does not bring the friendship back. Excepted are pairs with a
\* request that was answered or made pending when it was not open any more: the
\* recipient of an old request can have the friendship back without being asked.
FriendsAgreed ==
    \A f \in Friendships : friendships[f] \in Pairs \ Excused =>
        \E a, b \in friendships[f] : a # b /\ <<a, b>> \in asked \intersect agreed

FSpec == FInit /\ [][FNext]_friends
=============================================================================
