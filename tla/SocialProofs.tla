---------------------------- MODULE SocialProofs ----------------------------
(***************************************************************************)
(* Theorems about friendships (Friends) and the presence beside them       *)
(* (Presence), for every set of users, sockets and scheduled jobs, every   *)
(* number of calls served at the same time, and every bound.               *)
(*                                                                         *)
(* Friendships: rows and calls are well formed, a pair has one open        *)
(* request and one friendship, friends are not asked, and each friendship  *)
(* was asked for and agreed to anew. OnePerPair is not inductive: it       *)
(* depends on what a call knows between the statement that looked and the  *)
(* one that inserts, which Looked says, and on the calls that might have   *)
(* invalidated it having been noticed (Crossed). FriendsAgreed depends on  *)
(* what an open request stands for (Backed).                               *)
(*                                                                         *)
(* Presence: what is proved of friendships holds beside it, its own        *)
(* variables keep their shape, the key and the set of a user agree, and    *)
(* friends hear who goes. PresenceAgrees speaks of users at rest. In       *)
(* between, what a handler or a job has done so far, and has still to do,  *)
(* says how far the two may be apart (Written), and that takes that nobody *)
(* else is about the same user (Apart).                                    *)
(***************************************************************************)
EXTENDS Presence, FiniteSetTheorems, TLAPS

-----------------------------------------------------------------------------
(* Friendships                                                             *)

Somebody == Users \union {"nobody"}
Ops == {"idle", "ask", "answer", "withdraw", "unfriend"}
Points == {"done", "open", "friends", "insert", "read", "befriend", "save", "remove",
           "find", "drop"}
JobType == [op : Ops, pc : Points, user : Somebody, peer : Somebody,
            req : Requests \union Friendships \union {NoRequest},
            status : Statuses \union {"none"}, row : Rows \union {NoRow}]

Types ==
    /\ requests \in [Requests -> Rows \union {NoRow, Deleted}]
    /\ friendships \in [Friendships -> Pairs \union {NoPair, Parted}]
    /\ job \in [Jobs -> JobType]
    /\ shown \in [Users -> View]
    /\ calls \in 0 .. MaxCalls
    /\ asked \in SUBSET (Users \X Users) /\ agreed \in SUBSET (Users \X Users)

\* The users a call is about, and whether it has read a row to answer.
PairOf(j) == {j.user, j.peer}
HasRow(j) == j.op = "answer" /\ j.pc \in {"friends", "befriend", "save", "remove"}

\* What a call carries from one statement to the next.
WellFormed(j) ==
    /\ j.op = "idle" => j = Idle
    /\ j.op # "idle" => j.user \in Users
    /\ j.op \in {"ask", "withdraw", "unfriend"} => j.peer \in Users
    /\ j.op = "ask" => j.user # j.peer
    /\ j.op = "answer" => /\ j.status \in Statuses
                          /\ HasRow(j) \/ (j.pc = "read" /\ j.row = NoRow)
    /\ HasRow(j) => /\ j.row \in Rows /\ j.req \in Requests /\ j.peer \in Users
                    /\ j.row.from # j.row.to /\ PairOf(j) = {j.row.from, j.row.to}
                    /\ j.status \in {"accepted", "rejected"} => j.user = j.row.to /\ j.peer = j.row.from
                    /\ j.pc \in {"friends", "befriend"} => j.status = "accepted"
    /\ j.op = "withdraw" /\ j.pc = "drop" => j.req \in Requests
    /\ j.op = "unfriend" /\ j.pc = "drop" => j.req \in Friendships

Carried == \A h \in Jobs : WellFormed(job[h])

\* Nobody asks himself.
TwoSided == \A r \in Used : requests[r].from # requests[r].to

\* Two calls of one kind about one pair have been noticed.
Meet(i, j) ==
    /\ PairOf(i) = PairOf(j)
    /\ (i.op = "ask" /\ j.op = "ask") \/ (HasRow(i) /\ HasRow(j))

Crossed == \A g, h \in Jobs : g # h /\ Meet(job[g], job[h]) => PairOf(job[h]) \in crossed

\* What a call found when it looked still holds when it inserts.
Knows(j) ==
    PairOf(j) \notin crossed =>
        /\ PairOf(j) \notin revived /\ j.op = "ask" /\ j.pc \in {"friends", "insert"} =>
             \A r \in Requests : Open(r) => {requests[r].from, requests[r].to} # PairOf(j)
        /\ j.op = "answer" /\ j.pc = "befriend" =>
             \A f \in Friendships : friendships[f] # PairOf(j)

Looked == \A h \in Jobs : Knows(job[h])

\* OnePerPair without counting.
OpenFor(r, p) == Open(r) /\ {requests[r].from, requests[r].to} = p
Single ==
    \A p \in Pairs \ crossed :
        /\ p \notin revived => \A r, q \in Requests : OpenFor(r, p) /\ OpenFor(q, p) => r = q
        /\ \A f, g \in Friendships : friendships[f] = p /\ friendships[g] = p => f = g

RInv == Types /\ Carried /\ TwoSided /\ Crossed /\ Looked /\ Single

Ends(row) == <<row.from, row.to>>

\* The request a call answers is still from and to the same users, if it is still
\* there: a row keeps its two users, and the id of a deleted one is not used again.
About(j) ==
    HasRow(j) => /\ requests[j.req] # NoRow
                 /\ requests[j.req] # Deleted => Ends(requests[j.req]) = Ends(j.row)

-----------------------------------------------------------------------------
(* Rows and pairs                                                          *)

LEMMA RowIsNot == ASSUME NEW row \in Rows PROVE row # NoRow /\ row # Deleted
BY DEF Rows, NoRow, Deleted

LEMMA UsedRow ==
    ASSUME Types, NEW r \in Used
    PROVE  r \in Requests /\ requests[r] \in Rows
BY DEF Types, Used

LEMMA PairOfTwo ==
    ASSUME NEW a \in Users, NEW b \in Users, a # b
    PROVE  {a, b} \in Pairs
<1>1. Cardinality({a, b}) = 2
  <2>1. IsFiniteSet({b}) /\ Cardinality({b}) = 1
    BY FS_Singleton
  <2>2. Cardinality({b} \union {a}) = 2
    BY <2>1, FS_AddElement
  <2> QED BY <2>2, {b} \union {a} = {a, b}
<1> QED BY <1>1 DEF Pairs

LEMMA NoPairs == NoPair \notin Pairs /\ Parted \notin Pairs
<1>1. Cardinality({}) = 0
    BY FS_EmptySet
<1>2. Cardinality({"nobody"}) = 1
    BY FS_Singleton
<1> QED
    BY <1>1, <1>2 DEF NoPair, Parted, Pairs

LEMMA TwoMembers ==
    ASSUME NEW S, Cardinality(S) = 2, IsFiniteSet(S)
    PROVE  \E a, b \in S : a # b /\ S = {a, b}
<1>1. PICK a : a \in S
    BY FS_EmptySet
<1>2. IsFiniteSet(S \ {a}) /\ Cardinality(S \ {a}) = 1
    BY <1>1, FS_RemoveElement
<1>3. PICK b : S \ {a} = {b}
    BY <1>2, FS_Singleton
<1> QED
    BY <1>1, <1>3

LEMMA AtMostOne ==
    ASSUME NEW S, \A x, y \in S : x = y
    PROVE  Cardinality(S) <= 1
<1>1. CASE S = {}
    BY <1>1, FS_EmptySet
<1>2. CASE S # {}
    <2>1. PICK x : S = {x}
        BY <1>2
    <2> QED
        BY <2>1, FS_Singleton
<1> QED
    BY <1>1, <1>2

LEMMA IdleForm == Idle \in JobType /\ WellFormed(Idle) /\ ~HasRow(Idle) /\ Idle.op = "idle"
BY DEF Idle, JobType, Ops, Points, Somebody, WellFormed, HasRow

-----------------------------------------------------------------------------
(* Steps that insert nothing                                               *)

\* No request is opened, or it is noted, and no friendship made.
StaysOpen(r) == /\ Open(r)
                /\ requests'[r].from = requests[r].from
                /\ requests'[r].to = requests[r].to
Shrinks ==
    /\ \A r \in Requests : Open(r)' => StaysOpen(r) \/ {requests'[r].from, requests'[r].to} \in revived'
    /\ \A f \in Friendships : friendships'[f] \in {friendships[f], Parted}

LEMMA StepKeeps ==
    ASSUME RInv, NEW h \in Jobs, NEW j \in JobType, job' = [job EXCEPT ![h] = j],
           Types', TwoSided', Shrinks, crossed \subseteq crossed', revived \subseteq revived',
           WellFormed(j), Knows(j)',
           \A g \in Jobs \ {h} : Meet(job[g], j) => PairOf(j) \in crossed'
    PROVE  RInv'
<1>1. job' \in [Jobs -> JobType] /\ job'[h] = j /\ \A g \in Jobs \ {h} : job'[g] = job[g]
    BY DEF RInv, Types
<1>2. Carried'
    BY <1>1 DEF RInv, Carried
<1>4. Crossed'
    <2> SUFFICES ASSUME NEW g \in Jobs, NEW k \in Jobs, g # k, Meet(job'[g], job'[k])
                 PROVE  PairOf(job'[k]) \in crossed'
        BY <1>1 DEF Crossed
    <2>1. CASE g # h /\ k # h
        BY <1>1, <2>1 DEF RInv, Crossed
    <2>2. CASE k = h
        BY <1>1, <2>2
    <2>3. CASE g = h
        BY <1>1, <2>3 DEF Meet
    <2> QED
        BY <2>1, <2>2, <2>3
<1>5. ASSUME NEW g \in Jobs \ {h} PROVE Knows(job[g])'
    <2>1. Knows(job[g]) /\ WellFormed(job[g])
        BY DEF RInv, Looked, Carried
    <2>2. job[g].op = "answer" /\ job[g].pc = "befriend" => PairOf(job[g]) # Parted
        <3> SUFFICES ASSUME job[g].op = "answer", job[g].pc = "befriend"
                     PROVE  PairOf(job[g]) # Parted
            OBVIOUS
        <3>1. PairOf(job[g]) = {job[g].row.from, job[g].row.to} /\ job[g].row.from # job[g].row.to
            BY <2>1 DEF WellFormed, HasRow
        <3> QED
            BY <3>1 DEF Parted
    <2>3. job[g].op = "ask" /\ job[g].pc \in {"friends", "insert"}
          /\ PairOf(job[g]) \notin crossed' /\ PairOf(job[g]) \notin revived'
          => \A r \in Requests : Open(r)' => {requests'[r].from, requests'[r].to} # PairOf(job[g])
        BY <2>1 DEF Knows, Shrinks, StaysOpen
    <2>4. job[g].op = "answer" /\ job[g].pc = "befriend" /\ PairOf(job[g]) \notin crossed'
          => \A f \in Friendships : friendships'[f] # PairOf(job[g])
        BY <2>1, <2>2 DEF Knows, Shrinks
    <2> QED
        BY <1>1, <2>3, <2>4 DEF Knows
<1>6. Looked'
    BY <1>1, <1>5 DEF Looked
<1>7. Single'
    <2> SUFFICES ASSUME NEW p \in Pairs, p \notin crossed'
                 PROVE  /\ p \notin revived' =>
                             \A r, q \in Requests : OpenFor(r, p)' /\ OpenFor(q, p)' => r = q
                        /\ \A f, g \in Friendships : friendships'[f] = p /\ friendships'[g] = p
                              => f = g
        BY DEF Single
    <2>1. ASSUME p \notin revived', NEW r \in Requests, OpenFor(r, p)' PROVE OpenFor(r, p)
        BY <2>1 DEF Shrinks, StaysOpen, OpenFor
    <2>2. p \notin revived' =>
              \A r, q \in Requests : OpenFor(r, p)' /\ OpenFor(q, p)' => r = q
        BY <2>1 DEF RInv, Single
    <2>3. \A f, g \in Friendships : friendships'[f] = p /\ friendships'[g] = p => f = g
        BY NoPairs DEF RInv, Single, Shrinks
    <2> QED
        BY <2>2, <2>3
<1> QED
    BY <1>2, <1>4, <1>6, <1>7 DEF RInv

\* A call goes on or ends, and the tables stay as they are.
LEMMA Quiet ==
    ASSUME RInv, NEW h \in Jobs, NEW j \in JobType, job' = [job EXCEPT ![h] = j],
           UNCHANGED <<database, shown, calls, asked, agreed>>
    PROVE  Types' /\ TwoSided' /\ Shrinks
BY DEF RInv, Types, TwoSided, Shrinks, StaysOpen, Used, Open, database

LEMMA Onward ==
    ASSUME RInv, NEW h \in Jobs, NEW j \in JobType, job' = [job EXCEPT ![h] = j],
           UNCHANGED <<database, shown, calls, asked, agreed, crossed, revived>>,
           WellFormed(j), Knows(j)', PairOf(j) = PairOf(job[h]),
           j.op = "ask" => job[h].op = "ask", HasRow(j) => HasRow(job[h])
    PROVE  RInv'
<1>1. Types' /\ TwoSided' /\ Shrinks
    BY Quiet
<1>2. \A g \in Jobs \ {h} : Meet(job[g], j) => PairOf(j) \in crossed'
    BY DEF RInv, Crossed, Meet
<1> QED
    BY <1>1, <1>2, StepKeeps

LEMMA Finishes ==
    ASSUME RInv, NEW h \in Jobs, Finish(h), UNCHANGED <<shown, calls>>,
           asked' \in SUBSET (Users \X Users), agreed' \in SUBSET (Users \X Users),
           requests' \in [Requests -> Rows \union {NoRow, Deleted}],
           friendships' \in [Friendships -> Pairs \union {NoPair, Parted}],
           TwoSided', Shrinks, crossed \subseteq crossed', revived \subseteq revived'
    PROVE  RInv'
<1>1. job' = [job EXCEPT ![h] = Idle] /\ Types'
    BY IdleForm DEF Finish, RInv, Types
<1>2. Knows(Idle)' /\ \A g \in Jobs : ~Meet(job[g], Idle)
    BY IdleForm DEF Knows, Meet
<1> QED
    BY <1>1, <1>2, IdleForm, StepKeeps

LEMMA QuietlyFinishes ==
    ASSUME RInv, NEW h \in Jobs, Finish(h),
           UNCHANGED <<database, shown, calls, asked, agreed>>,
           crossed \subseteq crossed', revived \subseteq revived'
    PROVE  RInv'
<1>1. TwoSided' /\ Shrinks
    BY IdleForm, Quiet DEF Finish
<1>2. /\ requests' \in [Requests -> Rows \union {NoRow, Deleted}]
      /\ friendships' \in [Friendships -> Pairs \union {NoPair, Parted}]
      /\ asked' \in SUBSET (Users \X Users) /\ agreed' \in SUBSET (Users \X Users)
    BY DEF RInv, Types, database
<1> QED
    BY <1>1, <1>2, Finishes DEF database

\* A call arrives. It has looked at nothing, and was noticed if it asks and
\* another one of its pair does.
LEMMA StartKeeps ==
    ASSUME RInv, NEW h \in Jobs, NEW j \in JobType, NEW p, Start(h, j, p),
           WellFormed(j), ~HasRow(j), j.pc \notin {"friends", "insert", "befriend"},
           j.op = "ask" => p = PairOf(j)
    PROVE  RInv'
<1>1. /\ job' = [job EXCEPT ![h] = j] /\ crossed \subseteq crossed'
      /\ UNCHANGED <<requests, friendships, shown, asked, agreed, revived>>
      /\ calls < MaxCalls /\ calls' = calls + 1
    BY DEF Start, database
<1>2. calls' \in 0 .. MaxCalls
    BY <1>1, FriendsAssumption DEF RInv, Types
<1>3. Types'
    BY <1>1, <1>2 DEF RInv, Types
<1>4. TwoSided' /\ Shrinks
    BY <1>1 DEF RInv, TwoSided, Shrinks, StaysOpen, Used, Open
<1>5. Knows(j)'
    BY DEF Knows
<1>6. \A g \in Jobs : Meet(job[g], j) => PairOf(j) \in crossed'
    BY DEF Meet, Start, PairOf
<1> QED
    BY <1>1, <1>3, <1>4, <1>5, <1>6, StepKeeps

-----------------------------------------------------------------------------
(* The steps, one by one                                                   *)

LEMMA LookForOpenKeeps == ASSUME RInv, NEW h \in Jobs, LookForOpen(h) PROVE RInv'
<1>1. CASE Finish(h)
    BY <1>1, QuietlyFinishes DEF LookForOpen, history
<1>2. CASE /\ Goto(h, "friends")
           /\ \A r \in Between(job[h].user, job[h].peer) : ~Open(r)
    <2>1. PICK j \in JobType : j = [job[h] EXCEPT !.pc = "friends"]
        BY DEF RInv, Types, JobType, Points
    <2>2. /\ j.op = "ask" /\ job[h].op = "ask" /\ j.pc = "friends"
          /\ j.user = job[h].user /\ j.peer = job[h].peer
        BY <2>1 DEF RInv, Types, JobType, LookForOpen, At
    <2>3. job' = [job EXCEPT ![h] = j]
        BY <1>2, <2>1 DEF Goto, RInv, Types
    <2>4. WellFormed(j)
        BY <2>2 DEF RInv, Carried, WellFormed, HasRow
    <2>5. Knows(j)'
        BY <1>2, <2>2 DEF LookForOpen, database, Knows, PairOf, Between, Open, Used
    <2> QED
        BY <2>2, <2>3, <2>4, <2>5, Onward DEF LookForOpen, history, PairOf, HasRow
<1> QED
    BY <1>1, <1>2 DEF LookForOpen

LEMMA LookForFriendKeeps == ASSUME RInv, NEW h \in Jobs, LookForFriend(h) PROVE RInv'
<1>1. CASE Finish(h)
    BY <1>1, QuietlyFinishes DEF LookForFriend, history
<1>2. CASE Goto(h, "insert")
    <2>1. PICK j \in JobType : j = [job[h] EXCEPT !.pc = "insert"]
        BY ZenonT(30) DEF RInv, Types, JobType, Points
    <2>2. /\ j.op = "ask" /\ job[h].op = "ask" /\ job[h].pc = "friends" /\ j.pc = "insert"
          /\ \A x \in {"user", "peer", "req", "status", "row"} : j[x] = job[h][x]
        BY <2>1 DEF RInv, Types, JobType, LookForFriend, At
    <2>3. job' = [job EXCEPT ![h] = j]
        BY <1>2, <2>1 DEF Goto, RInv, Types
    <2>4. WellFormed(j)
        BY <2>2 DEF RInv, Carried, WellFormed, HasRow, PairOf
    <2>5. Knows(j)'
        BY <2>2 DEF LookForFriend, RInv, Looked, database, history, Knows, PairOf, Open, Used
    <2> QED
        BY <2>2, <2>3, <2>4, <2>5, Onward DEF LookForFriend, history, PairOf, HasRow
<1> QED
    BY <1>1, <1>2 DEF LookForFriend

LEMMA CheckFriendKeeps == ASSUME RInv, NEW h \in Jobs, CheckFriend(h) PROVE RInv'
<1>1. CASE Finish(h)
    BY <1>1, QuietlyFinishes DEF CheckFriend, history
<1>2. CASE Goto(h, "befriend") /\ FriendRows(job[h].user, job[h].peer) = {}
    <2>1. PICK j \in JobType : j = [job[h] EXCEPT !.pc = "befriend"]
        BY DEF RInv, Types, JobType, Points
    <2>2. /\ j.op = "answer" /\ job[h].op = "answer" /\ job[h].pc = "friends" /\ j.pc = "befriend"
          /\ \A x \in {"user", "peer", "req", "status", "row"} : j[x] = job[h][x]
        BY <2>1 DEF RInv, Types, JobType, CheckFriend, At
    <2>3. job' = [job EXCEPT ![h] = j]
        BY <1>2, <2>1 DEF Goto, RInv, Types
    <2>4. WellFormed(j)
        BY <2>2 DEF RInv, Carried, WellFormed, HasRow, PairOf
    <2>5. Knows(j)'
        BY <1>2, <2>2 DEF CheckFriend, database, Knows, PairOf, FriendRows
    <2> QED
        BY <2>2, <2>3, <2>4, <2>5, Onward DEF CheckFriend, history, PairOf, HasRow
<1> QED
    BY <1>1, <1>2 DEF CheckFriend

LEMMA FindSentKeeps == ASSUME RInv, NEW h \in Jobs, FindSent(h) PROVE RInv'
<1>1. CASE Finish(h)
    BY <1>1, QuietlyFinishes DEF FindSent, history
<1>2. CASE \E r \in Requests : job' = [job EXCEPT ![h].req = r, ![h].pc = "drop"]
    <2>1. PICK r \in Requests : job' = [job EXCEPT ![h].req = r, ![h].pc = "drop"]
        BY <1>2
    <2>2. PICK j \in JobType : j = [job[h] EXCEPT !.req = r, !.pc = "drop"]
        BY ZenonT(30) DEF RInv, Types, JobType, Points
    <2>3. /\ j.op = "withdraw" /\ job[h].op = "withdraw" /\ j.pc = "drop" /\ j.req = r
          /\ j.user = job[h].user /\ j.peer = job[h].peer
        BY <2>2 DEF RInv, Types, JobType, FindSent, At
    <2>4. job' = [job EXCEPT ![h] = j]
        BY <2>1, <2>2 DEF RInv, Types
    <2>5. WellFormed(j) /\ Knows(j)'
        BY <2>3 DEF RInv, Carried, WellFormed, HasRow, Knows
    <2> QED
        BY <2>3, <2>4, <2>5, Onward DEF FindSent, history, PairOf, HasRow
<1> QED
    BY <1>1, <1>2 DEF FindSent, Used

LEMMA FindFriendshipKeeps == ASSUME RInv, NEW h \in Jobs, FindFriendship(h) PROVE RInv'
<1>1. CASE Finish(h)
    BY <1>1, QuietlyFinishes DEF FindFriendship, history
<1>2. CASE \E r \in Friendships : job' = [job EXCEPT ![h].req = r, ![h].pc = "drop"]
    <2>1. PICK r \in Friendships : job' = [job EXCEPT ![h].req = r, ![h].pc = "drop"]
        BY <1>2
    <2>2. PICK j \in JobType : j = [job[h] EXCEPT !.req = r, !.pc = "drop"]
        BY DEF RInv, Types, JobType, Points
    <2>3. /\ j.op = "unfriend" /\ job[h].op = "unfriend" /\ j.pc = "drop" /\ j.req = r
          /\ j.user = job[h].user /\ j.peer = job[h].peer
        BY <2>2 DEF RInv, Types, JobType, FindFriendship, At
    <2>4. job' = [job EXCEPT ![h] = j]
        BY <2>1, <2>2 DEF RInv, Types
    <2>5. WellFormed(j) /\ Knows(j)'
        BY <2>3 DEF RInv, Carried, WellFormed, HasRow, Knows
    <2> QED
        BY <2>3, <2>4, <2>5, Onward DEF FindFriendship, history, PairOf, HasRow
<1> QED
    BY <1>1, <1>2 DEF FindFriendship, FriendRows

\* A request saved with an answer, or deleted, is not open; one that is made
\* pending was, or is noted.
LEMMA ShutShrinks ==
    ASSUME RInv, NEW r, NEW row \in Rows \union {Deleted}, UNCHANGED friendships,
           requests' = [requests EXCEPT ![r] = row], revived \subseteq revived',
           row # Deleted => row.from # row.to,
           row # Deleted /\ row.status = "pending" =>
               \/ Open(r) /\ row.from = requests[r].from /\ row.to = requests[r].to
               \/ {row.from, row.to} \in revived'
    PROVE  /\ requests' \in [Requests -> Rows \union {NoRow, Deleted}]
           /\ friendships' \in [Friendships -> Pairs \union {NoPair, Parted}]
           /\ TwoSided' /\ Shrinks
<1>1. /\ requests' \in [Requests -> Rows \union {NoRow, Deleted}]
      /\ friendships' \in [Friendships -> Pairs \union {NoPair, Parted}]
    BY DEF RInv, Types
<1>2. \A q \in Requests : requests'[q] = IF q = r THEN row ELSE requests[q]
    BY DEF RInv, Types
<1>3. TwoSided'
    BY <1>2 DEF RInv, TwoSided, Used
<1>4. ASSUME NEW q \in Requests, Open(q)'
      PROVE  StaysOpen(q) \/ {requests'[q].from, requests'[q].to} \in revived'
    <2>1. CASE q = r
        BY <1>2, <1>4, <2>1 DEF StaysOpen, Open, Used
    <2>2. CASE q # r
        BY <1>2, <1>4, <2>2 DEF StaysOpen, Open, Used
    <2> QED BY <2>1, <2>2
<1>5. Shrinks
    BY <1>4 DEF Shrinks
<1> QED
    BY <1>1, <1>3, <1>5

\* The row an answer saves: the one it read, with its status.
LEMMA SaveAnswerSaves ==
    ASSUME RInv, NEW h \in Jobs, SaveAnswer(h), About(job[h])
    PROVE  /\ HasRow(job[h]) /\ WellFormed(job[h]) /\ job[h].op = "answer"
           /\ job[h].req \in Requests /\ job[h].row \in Rows /\ job[h].pc = "save"
           /\ \E row \in Rows :
                /\ row.from # row.to /\ row.status = job[h].status
                /\ Ends(row) = Ends(job[h].row) /\ {row.from, row.to} = PairOf(job[h])
                /\ requests' = [requests EXCEPT ![job[h].req] = row]
           /\ requests' \in [Requests -> Rows \union {NoRow, Deleted}]
           /\ friendships' \in [Friendships -> Pairs \union {NoPair, Parted}]
           /\ TwoSided' /\ Shrinks
           /\ revived \subseteq revived'
           /\ UNCHANGED <<friendships, shown, calls, asked, agreed, crossed, reopened, unsaved>>
<1>1. /\ HasRow(job[h]) /\ WellFormed(job[h]) /\ job[h].op = "answer" /\ job[h].pc = "save"
      /\ job[h].req \in Requests /\ job[h].status \in Statuses /\ job[h].row \in Rows
    BY DEF SaveAnswer, At, RInv, Carried, HasRow, WellFormed
<1>2. PICK row \in Rows : row = [job[h].row EXCEPT !.status = job[h].status]
    BY <1>1 DEF Rows, Statuses
<1>3. row.from = job[h].row.from /\ row.to = job[h].row.to /\ row.status = job[h].status
    BY <1>1, <1>2 DEF Rows
<1>4. /\ row.from # row.to /\ Ends(row) = Ends(job[h].row) /\ {row.from, row.to} = PairOf(job[h])
      /\ requests' = [requests EXCEPT ![job[h].req] = row]
    BY <1>1, <1>2, <1>3 DEF WellFormed, SaveAnswer, Ends
<1>5. /\ revived \subseteq revived'
      /\ UNCHANGED <<friendships, shown, calls, asked, agreed, crossed, reopened, unsaved>>
      /\ row.status = "pending" /\ ~Open(job[h].req) => PairOf(job[h]) \in revived'
    BY <1>3 DEF SaveAnswer, Revives, PairOf
<1>6. Open(job[h].req) => row.from = requests[job[h].req].from /\ row.to = requests[job[h].req].to
    BY <1>1, <1>3, RowIsNot DEF About, Open, Used, Ends
<1>7. /\ requests' \in [Requests -> Rows \union {NoRow, Deleted}]
      /\ friendships' \in [Friendships -> Pairs \union {NoPair, Parted}]
      /\ TwoSided' /\ Shrinks
    BY <1>4, <1>5, <1>6, ShutShrinks
<1> QED
    BY <1>1, <1>3, <1>4, <1>5, <1>7

LEMMA SaveAnswerKeeps == ASSUME RInv, NEW h \in Jobs, SaveAnswer(h), About(job[h]) PROVE RInv'
<1>1. HasRow(job[h]) /\ WellFormed(job[h]) /\ job[h].op = "answer" /\ job[h].pc = "save"
    BY SaveAnswerSaves
<1>4. /\ requests' \in [Requests -> Rows \union {NoRow, Deleted}]
      /\ friendships' \in [Friendships -> Pairs \union {NoPair, Parted}]
      /\ TwoSided' /\ Shrinks /\ revived \subseteq revived'
      /\ UNCHANGED <<shown, calls, asked, agreed, crossed>>
      /\ asked' \in SUBSET (Users \X Users) /\ agreed' \in SUBSET (Users \X Users)
    BY SaveAnswerSaves DEF RInv, Types
<1>5. CASE Finish(h)
    BY <1>4, <1>5, Finishes
<1>6. CASE Goto(h, "remove")
    <2>1. PICK j \in JobType : j = [job[h] EXCEPT !.pc = "remove"]
        BY DEF RInv, Types, JobType, Points
    <2>2. /\ j.op = "answer" /\ j.pc = "remove"
          /\ \A x \in {"user", "peer", "req", "status", "row"} : j[x] = job[h][x]
        BY <1>1, <2>1 DEF JobType, RInv, Types
    <2>3. job' = [job EXCEPT ![h] = j] /\ Types'
        BY <1>4, <1>6, <2>1 DEF Goto, RInv, Types
    <2>4. WellFormed(j) /\ Knows(j)'
        BY <1>1, <2>2 DEF WellFormed, HasRow, PairOf, Knows
    <2>5. \A g \in Jobs \ {h} : Meet(job[g], j) => PairOf(j) \in crossed'
        BY <1>1, <1>4, <2>2 DEF RInv, Crossed, Meet, PairOf
    <2> QED
        BY <1>4, <2>3, <2>4, <2>5, StepKeeps
<1> QED
    BY <1>5, <1>6 DEF SaveAnswer

LEMMA DropsKeep ==
    ASSUME RInv, NEW h \in Jobs, RemoveRejected(h) \/ DropRequest(h) PROVE RInv'
<1>1. /\ requests' = [requests EXCEPT ![job[h].req] = Deleted] /\ Finish(h)
      /\ UNCHANGED <<friendships, shown, calls, asked, agreed, crossed, revived>>
    BY DEF RemoveRejected, DropRequest, history
<1>2. asked' \in SUBSET (Users \X Users) /\ agreed' \in SUBSET (Users \X Users)
    BY <1>1 DEF RInv, Types
<1> QED
    BY <1>1, <1>2, ShutShrinks, Finishes

LEMMA DropFriendshipKeeps == ASSUME RInv, NEW h \in Jobs, DropFriendship(h) PROVE RInv'
<1>1. /\ requests' \in [Requests -> Rows \union {NoRow, Deleted}]
      /\ friendships' \in [Friendships -> Pairs \union {NoPair, Parted}]
      /\ TwoSided' /\ Shrinks
      /\ asked' \in SUBSET (Users \X Users) /\ agreed' \in SUBSET (Users \X Users)
    BY DEF DropFriendship, Without, RInv, Types, TwoSided, Used, Shrinks, StaysOpen, Open
<1> QED
    BY <1>1, Finishes DEF DropFriendship

\* A call that has read the request it answers, and may answer it.
LEMMA ReadRequestReads ==
    ASSUME RInv, NEW h \in Jobs, ReadRequest(h), ~(Finish(h) /\ UNCHANGED crossed)
    PROVE  /\ job[h].req \in Used
           /\ \E j \in JobType :
                /\ job' = [job EXCEPT ![h] = j]
                /\ WellFormed(j) /\ HasRow(j) /\ j.req = job[h].req /\ j.row = requests[j.req]
                /\ j.op = "answer" /\ j.pc \in {"friends", "save"}
                /\ PairOf(j) = {j.row.from, j.row.to}
<1>1. job[h].req \in Used /\ Allowed(h, requests[job[h].req])
    BY DEF ReadRequest
<1> DEFINE r == job[h].req
           pair == {requests[r].from, requests[r].to}
           pc == IF job[h].status = "accepted" THEN "friends" ELSE "save"
<1>2. /\ requests[r] \in Rows /\ requests[r].from # requests[r].to /\ r \in Requests
      /\ requests[r].from \in Users /\ requests[r].to \in Users
    BY <1>1, UsedRow DEF RInv, TwoSided, Rows
<1>3. job[h].op = "answer" /\ WellFormed(job[h]) /\ job[h].status \in Statuses
    BY DEF ReadRequest, At, RInv, Carried, WellFormed
<1>4. /\ job[h].user \in pair
      /\ job[h].status \in {"accepted", "rejected"} => job[h].user = requests[r].to
    BY <1>1 DEF Allowed
<1>5. PICK v \in pair : v = CHOOSE w \in pair : w # job[h].user
    BY <1>2
<1>6. v # job[h].user /\ {job[h].user, v} = pair
    <2>1. PICK x, y, z : x = requests[r].from /\ y = requests[r].to /\ z = job[h].user
        OBVIOUS
    <2>2. pair = {x, y} /\ x # y /\ z \in {x, y} /\ v \in {x, y}
        BY <1>2, <1>4, <1>5, <2>1
    <2>3. \E w \in {x, y} : w # z
        BY <2>2
    <2>4. v # z
        BY <1>5, <2>1, <2>2, <2>3
    <2> QED
        BY <2>1, <2>2, <2>4
<1>7. PICK j \in JobType : j = [job[h] EXCEPT !.row = requests[r], !.peer = v, !.pc = pc]
    <2>1. job[h] \in JobType /\ requests[r] \in Rows \union {NoRow}
        BY <1>2 DEF RInv, Types
    <2>2. v \in Somebody /\ pc \in Points
        BY <1>2, <1>5 DEF Somebody, Points
    <2> QED
        BY <2>1, <2>2 DEF JobType
<1>8. job' = [job EXCEPT ![h] = j]
    BY <1>1, <1>5, <1>7 DEF ReadRequest, RInv, Types
<1>9. /\ j.op = "answer" /\ j.pc = pc /\ j.row = requests[r] /\ j.peer = v /\ j.req = r
      /\ j.user = job[h].user /\ j.status = job[h].status
    BY <1>3, <1>7 DEF RInv, Types, JobType
<1>10. PairOf(j) = pair
    BY <1>6, <1>9 DEF PairOf
<1>11. WellFormed(j)
    BY <1>2, <1>3, <1>4, <1>6, <1>9, <1>10 DEF WellFormed, HasRow
<1> QED
    BY <1>1, <1>8, <1>9, <1>10, <1>11 DEF HasRow

LEMMA ReadRequestKeeps == ASSUME RInv, NEW h \in Jobs, ReadRequest(h) PROVE RInv'
<1>1. CASE Finish(h) /\ UNCHANGED crossed
    BY <1>1, QuietlyFinishes DEF ReadRequest
<1>2. CASE ~(Finish(h) /\ UNCHANGED crossed)
    <2>1. PICK j \in JobType :
            /\ job' = [job EXCEPT ![h] = j]
            /\ WellFormed(j) /\ HasRow(j) /\ j.req = job[h].req /\ j.row = requests[j.req]
            /\ j.op = "answer" /\ j.pc \in {"friends", "save"}
            /\ PairOf(j) = {j.row.from, j.row.to}
        BY <1>2, ReadRequestReads
    <2>2. Knows(j)'
        BY <2>1 DEF Knows
    <2>3. /\ crossed \subseteq crossed'
          /\ UNCHANGED <<database, shown, calls, asked, agreed, revived>>
        BY <1>2 DEF ReadRequest
    <2>4. ASSUME NEW g \in Jobs \ {h}, Meet(job[g], j) PROVE PairOf(j) \in crossed'
        <3>1. HasRow(job[g]) /\ WellFormed(job[g])
            BY <2>1, <2>4 DEF Meet, RInv, Carried
        <3>2. /\ job[g].op = "answer" /\ job[g].row # NoRow
              /\ {job[g].row.from, job[g].row.to} = PairOf(j)
            BY <2>4, <3>1, RowIsNot DEF WellFormed, HasRow, Meet
        <3>3. PairOf(j) = {requests[job[h].req].from, requests[job[h].req].to}
            BY <2>1
        <3>4. \E k \in Jobs : k # h /\ job[k].op = "answer" /\ job[k].row # NoRow
                              /\ {job[k].row.from, job[k].row.to} = PairOf(j)
            BY <3>2
        <3> QED
            BY <1>2, <3>3, <3>4 DEF ReadRequest
    <2>5. Types' /\ TwoSided' /\ Shrinks
        BY <2>1, <2>3, Quiet
    <2> QED
        BY <2>1, <2>2, <2>3, <2>4, <2>5, StepKeeps
<1> QED
    BY <1>1, <1>2

\* A request is inserted by a call that found none, and the only one of its pair
\* that is asking, or the pair is noticed.
LEMMA InsertRequestKeeps == ASSUME RInv, NEW h \in Jobs, InsertRequest(h) PROVE RInv'
<1> DEFINE u == job[h].user
           v == job[h].peer
<1>1. /\ job[h].op = "ask" /\ job[h].pc = "insert" /\ u \in Users /\ v \in Users /\ u # v
      /\ UNCHANGED <<friendships, shown, calls, agreed, crossed, revived>>
      /\ asked' = asked \union {<<u, v>>}
    BY DEF InsertRequest, At, RInv, Carried, WellFormed
<1>2. PICK n \in Requests :
        requests' = [requests EXCEPT ![n] = [from |-> u, to |-> v, status |-> "pending"]]
    BY DEF InsertRequest
<1>3. PICK row \in Rows : row = [from |-> u, to |-> v, status |-> "pending"]
    BY <1>1 DEF Rows, Statuses
<1>4. /\ row.from = u /\ row.to = v
      /\ \A q \in Requests : requests'[q] = IF q = n THEN row ELSE requests[q]
    BY <1>2, <1>3 DEF RInv, Types
<1>5. job' \in [Jobs -> JobType] /\ job'[h] = Idle /\ \A g \in Jobs \ {h} : job'[g] = job[g]
    BY IdleForm DEF InsertRequest, Finish, RInv, Types
<1>6. Types'
    BY <1>1, <1>2, <1>3, <1>5 DEF RInv, Types
<1>7. Carried'
    BY <1>5, IdleForm DEF RInv, Carried
<1>8. TwoSided'
    BY <1>1, <1>4 DEF RInv, TwoSided, Used
<1>10. Crossed'
    BY <1>1, <1>5, IdleForm DEF RInv, Crossed, Meet
<1>11. Looked'
    <2>1. Knows(job[h])'
        BY <1>5, IdleForm DEF Knows
    <2>2. ASSUME NEW g \in Jobs \ {h} PROVE Knows(job[g])'
        <3>1. Knows(job[g]) /\ (Meet(job[g], job[h]) => PairOf(job[g]) \in crossed)
            BY DEF RInv, Looked, Crossed, Meet
        <3>2. ASSUME PairOf(job[g]) \notin crossed, PairOf(job[g]) \notin revived,
                     job[g].op = "ask", job[g].pc \in {"friends", "insert"}, NEW q \in Requests, Open(q)'
              PROVE  {requests'[q].from, requests'[q].to} # PairOf(job[g])
            <4>1. CASE q = n
                BY <1>1, <1>4, <3>1, <3>2, <4>1 DEF Meet, PairOf
            <4>2. CASE q # n
                BY <1>4, <3>1, <3>2, <4>2 DEF Knows, Open, Used
            <4> QED BY <4>1, <4>2
        <3> QED
            BY <1>1, <1>5, <3>1, <3>2 DEF Knows
    <2> QED
        BY <1>5, <2>1, <2>2 DEF Looked
<1>12. Single'
    <2> SUFFICES ASSUME NEW p \in Pairs, p \notin crossed
                 PROVE  /\ p \notin revived =>
                             \A r, q \in Requests : OpenFor(r, p)' /\ OpenFor(q, p)' => r = q
                        /\ \A f, g \in Friendships : friendships[f] = p /\ friendships[g] = p
                              => f = g
        BY <1>1 DEF Single
    <2>1. \A f, g \in Friendships : friendships[f] = p /\ friendships[g] = p => f = g
        BY DEF RInv, Single
    <2>2. \A q \in Requests \ {n} : OpenFor(q, p)' => OpenFor(q, p)
        BY <1>4 DEF OpenFor, Open, Used
    <2>3. CASE p = {u, v}
        <3>1. p \notin revived => \A q \in Requests : ~OpenFor(q, p)
            BY <1>1, <2>3 DEF RInv, Looked, Knows, PairOf, OpenFor
        <3> QED
            BY <2>1, <2>2, <3>1
    <2>4. CASE p # {u, v}
        <3>1. ~OpenFor(n, p)'
            BY <1>4, <2>4 DEF OpenFor
        <3> QED
            BY <2>1, <2>2, <3>1 DEF RInv, Single
    <2> QED
        BY <2>3, <2>4
<1> QED
    BY <1>6, <1>7, <1>8, <1>10, <1>11, <1>12 DEF RInv

\* A friendship is inserted by the recipient of a request, who accepted it.
LEMMA BefriendKeeps == ASSUME RInv, NEW h \in Jobs, Befriend(h) PROVE RInv'
<1> DEFINE u == job[h].user
           v == job[h].row.from
<1>1. /\ job[h].op = "answer" /\ job[h].pc = "befriend" /\ HasRow(job[h])
      /\ u \in Users /\ v \in Users /\ u # v /\ job[h].peer = v
      /\ UNCHANGED <<requests, shown, calls, asked, crossed, revived>>
    BY DEF Befriend, At, RInv, Carried, WellFormed, HasRow, Rows
<1>2. PICK n \in Friendships : friendships' = [friendships EXCEPT ![n] = {u, v}]
    BY <1>1 DEF Befriend
<1>3. {u, v} \in Pairs
    BY <1>1, PairOfTwo
<1>4. \A f \in Friendships : friendships'[f] = IF f = n THEN {u, v} ELSE friendships[f]
    BY <1>2 DEF RInv, Types
<1>5. PICK j \in JobType : j = [job[h] EXCEPT !.pc = "save"]
    BY DEF RInv, Types, JobType, Points
<1>6. /\ j.op = "answer" /\ j.pc = "save"
      /\ \A x \in {"user", "peer", "req", "status", "row"} : j[x] = job[h][x]
    BY <1>1, <1>5 DEF JobType, RInv, Types
<1>7. /\ job' \in [Jobs -> JobType] /\ job'[h] = j
      /\ \A g \in Jobs \ {h} : job'[g] = job[g]
    BY <1>5 DEF Befriend, Goto, RInv, Types
<1>8. agreed' = agreed \union {<<v, u>>}
    BY DEF Befriend
<1>9. Types'
    BY <1>1, <1>2, <1>3, <1>7, <1>8 DEF RInv, Types
<1>10. Carried'
    <2>1. WellFormed(j)
        BY <1>1, <1>6 DEF RInv, Carried, WellFormed, HasRow, PairOf
    <2> QED
        BY <1>7, <2>1 DEF RInv, Carried
<1>11. TwoSided'
    BY <1>1 DEF RInv, TwoSided, Used
<1>13. Crossed'
    <2>1. \A g \in Jobs \ {h} : Meet(job[g], j) <=> Meet(job[g], job[h])
        BY <1>1, <1>6 DEF Meet, PairOf, HasRow
    <2>2. \A g \in Jobs \ {h} : Meet(j, job[g]) <=> Meet(job[h], job[g])
        BY <1>1, <1>6 DEF Meet, PairOf, HasRow
    <2>3. PairOf(j) = PairOf(job[h])
        BY <1>6 DEF PairOf
    <2> QED
        BY <1>1, <1>7, <2>1, <2>2, <2>3 DEF RInv, Crossed
<1>14. Looked'
    <2>1. Knows(job[h])'
        BY <1>6, <1>7 DEF Knows
    <2>2. ASSUME NEW g \in Jobs \ {h} PROVE Knows(job[g])'
        <3>1. /\ Knows(job[g]) /\ WellFormed(job[g])
              /\ Meet(job[g], job[h]) => PairOf(job[g]) \in crossed
            BY DEF RInv, Carried, Looked, Crossed, Meet
        <3>2. ASSUME PairOf(job[g]) \notin crossed, job[g].op = "answer",
                     job[g].pc = "befriend", NEW f \in Friendships
              PROVE  friendships'[f] # PairOf(job[g])
            BY <1>1, <1>4, <3>1, <3>2 DEF Meet, PairOf, HasRow, Knows
        <3> QED
            BY <1>1, <1>7, <3>1, <3>2 DEF Knows, Open, Used
    <2> QED
        BY <1>7, <2>1, <2>2 DEF Looked
<1>15. Single'
    <2> SUFFICES ASSUME NEW p \in Pairs, p \notin crossed
                 PROVE  /\ p \notin revived =>
                             \A r, q \in Requests : OpenFor(r, p) /\ OpenFor(q, p) => r = q
                        /\ \A f, g \in Friendships : friendships'[f] = p /\ friendships'[g] = p
                              => f = g
        BY <1>1 DEF Single, OpenFor, Open, Used
    <2>1. CASE p = {u, v}
        <3>1. \A f \in Friendships : friendships[f] # p
            BY <1>1, <2>1 DEF RInv, Looked, Knows, PairOf
        <3> QED
            BY <1>4, <3>1 DEF RInv, Single
    <2>2. CASE p # {u, v}
        BY <1>4, <2>2 DEF RInv, Single
    <2> QED
        BY <2>1, <2>2
<1> QED
    BY <1>9, <1>10, <1>11, <1>13, <1>14, <1>15 DEF RInv

LEMMA ClickKeeps == ASSUME RInv, NEW h \in Jobs, NEW u \in Users, Click(h, u) PROVE RInv'
<1>1. ASSUME NEW v \in Users, Ask(h, u, v) PROVE RInv'
    <2>1. PICK j : j = Call("ask", "open", u, v, NoRequest, "none")
        OBVIOUS
    <2>2. j \in JobType /\ WellFormed(j) /\ ~HasRow(j) /\ j.pc = "open" /\ PairOf(j) = {u, v}
        BY <1>1, <2>1 DEF Call, JobType, Ops, Points, Somebody, WellFormed, HasRow, PairOf, Ask
    <2> QED
        BY <1>1, <2>1, <2>2, StartKeeps DEF Ask
<1>2. ASSUME NEW v \in Users, Withdraw(h, u, v) PROVE RInv'
    <2>1. PICK j : j = Call("withdraw", "find", u, v, NoRequest, "none")
        OBVIOUS
    <2>2. j \in JobType /\ WellFormed(j) /\ ~HasRow(j) /\ j.pc = "find" /\ j.op = "withdraw"
        BY <2>1 DEF Call, JobType, Ops, Points, Somebody, WellFormed, HasRow
    <2> QED
        BY <1>2, <2>1, <2>2, StartKeeps DEF Withdraw
<1>3. ASSUME NEW v \in Users, Unfriend(h, u, v) PROVE RInv'
    <2>1. PICK j : j = Call("unfriend", "find", u, v, NoRequest, "none")
        OBVIOUS
    <2>2. j \in JobType /\ WellFormed(j) /\ ~HasRow(j) /\ j.pc = "find" /\ j.op = "unfriend"
        BY <2>1 DEF Call, JobType, Ops, Points, Somebody, WellFormed, HasRow
    <2> QED
        BY <1>3, <2>1, <2>2, StartKeeps DEF Unfriend
<1>4. ASSUME NEW r \in Requests \union {NoRequest},
             NEW s \in Statuses, NEW p,
             Start(h, Call("answer", "read", u, "nobody", r, s), p)
      PROVE  RInv'
    <2>1. PICK j : j = Call("answer", "read", u, "nobody", r, s)
        OBVIOUS
    <2>2. j \in JobType /\ WellFormed(j) /\ ~HasRow(j) /\ j.pc = "read" /\ j.op = "answer"
        BY <2>1 DEF Call, JobType, Ops, Points, Somebody, WellFormed, HasRow, Statuses
    <2> QED
        BY <1>4, <2>1, <2>2, StartKeeps
<1>5. ASSUME NEW r \in Requests, CancelSent(h, u, r) PROVE RInv'
    BY <1>4, <1>5 DEF CancelSent, Statuses
<1>6. ASSUME NEW r \in Requests, NEW s \in Statuses, Answer(h, u, r, s) PROVE RInv'
    <2>1. PICK p : p = IF r \in Used THEN {requests[r].from, u} ELSE {u}
        OBVIOUS
    <2> QED
        BY <1>4, <1>6, <2>1 DEF Answer
<1> QED
    BY <1>1, <1>2, <1>3, <1>5, <1>6 DEF Click

LEMMA FailKeeps == ASSUME RInv, NEW h \in Jobs, Fail(h) PROVE RInv'
BY QuietlyFinishes DEF Fail

\* What a client shows is read from the tables and read by no call of the server.
LEMMA ViewKeeps ==
    ASSUME RInv, NEW u \in Users, Search(u) \/ \E part \in Parts : Refetch(u, part)
    PROVE  RInv'
<1>1. Received(u) \in SUBSET Requests /\ Sent(u) \in SUBSET Requests
    BY DEF Received, Sent, Used
<1>2. Befriended(u) \in SUBSET Users
    <2>1. \A f \in Friendships : u \in friendships[f] => friendships[f] \subseteq Users
        BY DEF RInv, Types, Pairs, NoPair, Parted
    <2> QED
        BY <2>1 DEF Befriended
<1>3. shown' \in [Users -> View]
    <2>1. /\ shown[u] \in View /\ shown \in [Users -> View]
          /\ {r \in Received(u) : requests[r].from \in Users \ (Befriended(u) \union {u})}
                 \in SUBSET Requests
        BY <1>1 DEF RInv, Types
    <2>2. ASSUME NEW S \in SUBSET Requests
          PROVE  /\ [shown[u] EXCEPT !.received = shown[u].received \union S] \in View
                 /\ [shown[u] EXCEPT !.sent = shown[u].sent \union S] \in View
        BY <2>1 DEF View
    <2>3. [shown[u] EXCEPT !.friends = shown[u].friends \union Befriended(u)] \in View
        BY <1>2, <2>1 DEF View
    <2>4. CASE Search(u)
        BY <2>1, <2>2, <2>4 DEF Search
    <2>5. CASE Refetch(u, "received")
        <3>1. shown' = [shown EXCEPT ![u] = [shown[u] EXCEPT !.received = shown[u].received \union Received(u)]]
            BY <2>1, <2>5 DEF Refetch, Lists
        <3> QED
            BY <1>1, <2>1, <2>2, <3>1
    <2>6. CASE Refetch(u, "sent")
        <3>1. shown' = [shown EXCEPT ![u] = [shown[u] EXCEPT !.sent = shown[u].sent \union Sent(u)]]
            BY <2>1, <2>6 DEF Refetch, Lists
        <3> QED
            BY <1>1, <2>1, <2>2, <3>1
    <2>7. CASE Refetch(u, "friends")
        <3>1. shown' = [shown EXCEPT ![u] = [shown[u] EXCEPT !.friends = shown[u].friends \union Befriended(u)]]
            BY <2>1, <2>7 DEF Refetch, Lists
        <3> QED
            BY <2>1, <2>3, <3>1
    <2> QED
        BY <2>4, <2>5, <2>6, <2>7 DEF Parts
<1>4. UNCHANGED <<requests, friendships, job, calls, asked, agreed, crossed, revived>>
    BY DEF Search, Refetch, database, history
<1>5. Types'
    BY <1>3, <1>4 DEF RInv, Types
<1> QED
    BY <1>4, <1>5 DEF RInv, Carried, TwoSided, Crossed, Looked, Single, Knows, OpenFor, Open, Used

LEMMA SingleIsOne == RInv => OnePerPair
<1>1. ASSUME RInv, NEW a \in Users, NEW b \in Users, a # b, {a, b} \notin crossed
      PROVE  /\ {a, b} \notin revived => Cardinality({r \in Between(a, b) : Open(r)}) <= 1
             /\ Cardinality(FriendRows(a, b)) <= 1
    <2>1. {a, b} \in Pairs
        BY <1>1, PairOfTwo
    <2>2. {a, b} \notin revived => \A r, q \in {n \in Between(a, b) : Open(n)} : r = q
        BY <1>1, <2>1 DEF RInv, Single, OpenFor, Between, Used
    <2>3. \A f, g \in FriendRows(a, b) : f = g
        BY <1>1, <2>1 DEF RInv, Single, FriendRows
    <2> QED
        BY <2>2, <2>3, AtMostOne
<1> QED
    BY <1>1 DEF OnePerPair

-----------------------------------------------------------------------------
(* What a request says of its pair: friends are not asked, and who is a      *)
(* friend was asked                                                          *)

\* The calls that answer know the pairs their requests are still about.
Rooted == \A h \in Jobs : About(job[h])

SameRequest(i, j) == HasRow(i) /\ HasRow(j) /\ i.req = j.req
Agreeing == \A g, h \in Jobs : SameRequest(job[g], job[h]) => Ends(job[g].row) = Ends(job[h].row)

\* A call that is about to insert a request does so for users who are not friends.
Stranger(j) ==
    j.op = "ask" /\ j.pc = "insert" /\ PairOf(j) \notin Excused =>
        \A f \in Friendships : friendships[f] # PairOf(j)
Strangers == \A h \in Jobs : Stranger(job[h])

\* Friends have an open request only while the call that befriended them saves it.
Saves(j, r) == j.op = "answer" /\ j.pc = "save" /\ j.req = r /\ j.status = "accepted"
SavedBySome(r) == \E h \in Jobs : Saves(job[h], r)
Settled ==
    \A p \in Pairs \ Excused : \A f \in Friendships : friendships[f] = p =>
        \A r \in Requests : OpenFor(r, p) => SavedBySome(r)

\* An open request stands for a question asked since its pair was last apart, but
\* for the moment in which the answer to it is saved.
Backed ==
    \A r \in Requests : Open(r) /\ {requests[r].from, requests[r].to} \notin Excused =>
        Ends(requests[r]) \in asked \/ SavedBySome(r)

SInv == Rooted /\ Agreeing /\ Strangers /\ Settled /\ Backed /\ FriendsAgreed

\* What a step may do to the requests: delete some, or write the one a call
\* answers with the users it had.
Rewrites(h) ==
    \A r \in Requests :
        \/ requests'[r] \in {requests[r], Deleted}
        \/ /\ HasRow(job[h]) /\ r = job[h].req
           /\ requests'[r] # NoRow /\ Ends(requests'[r]) = Ends(job[h].row)

\* A call that saves an accepted request goes on only when it is saved, or the
\* failure is noted.
LetsGo(h, j) ==
    \A r \in Requests : Saves(job[h], r) =>
        Saves(j, r) \/ ~Open(r)' \/ PairOf(job[h]) \in Excused'

\* What was asked and agreed is not forgotten while it matters.
Remembers ==
    /\ \A f \in Friendships : friendships'[f] \in Pairs \ Excused' =>
         \A a, b \in friendships'[f] : a # b /\ <<a, b>> \in asked \intersect agreed =>
             <<a, b>> \in asked' \intersect agreed'
    /\ \A r \in Requests : StaysOpen(r) /\ {requests[r].from, requests[r].to} \notin Excused' =>
         (Ends(requests[r]) \in asked => Ends(requests[r]) \in asked') \/ SavedBySome(r)

\* A step of a call that inserts nothing keeps all of this.
LEMMA PassingKeeps ==
    ASSUME RInv, SInv, NEW h \in Jobs, NEW j \in JobType, job' = [job EXCEPT ![h] = j],
           Excused \subseteq Excused', Shrinks, Rewrites(h), Stranger(j)', LetsGo(h, j), Remembers,
           HasRow(j) => SameRequest(job[h], j) /\ j.row = job[h].row /\ PairOf(j) = PairOf(job[h])
    PROVE  SInv'
<1>1. job'[h] = j /\ \A g \in Jobs \ {h} : job'[g] = job[g]
    BY DEF RInv, Types
<1>2. ASSUME NEW i, HasRow(i), i.req \in Requests, About(i),
             HasRow(job[h]) /\ i.req = job[h].req => Ends(i.row) = Ends(job[h].row)
      PROVE  About(i)'
    <2>1. requests'[i.req] # NoRow
        BY <1>2, RowIsNot DEF Rewrites, About, NoRow, Deleted
    <2>2. ASSUME requests'[i.req] # Deleted PROVE Ends(requests'[i.req]) = Ends(i.row)
        BY <1>2, <2>2 DEF Rewrites, About
    <2> QED
        BY <2>1, <2>2 DEF About
<1>3. \A g \in Jobs : HasRow(job[g]) => job[g].req \in Requests
    BY DEF RInv, Carried, WellFormed
<1>4. Rooted'
    <2>1. ASSUME NEW g \in Jobs \ {h} PROVE About(job[g])'
        <3>1. CASE HasRow(job[g])
            BY <1>1, <1>2, <1>3, <3>1 DEF SInv, Rooted, Agreeing, SameRequest
        <3>2. CASE ~HasRow(job[g])
            BY <1>1, <3>2 DEF About
        <3> QED BY <3>1, <3>2
    <2>2. CASE HasRow(j)
        <3>1. About(j)
            BY <2>2 DEF SInv, Rooted, About, SameRequest
        <3> QED
            BY <1>1, <1>2, <1>3, <2>1, <2>2, <3>1 DEF Rooted, SameRequest, About
    <2>3. CASE ~HasRow(j)
        BY <1>1, <2>1, <2>3 DEF Rooted, About
    <2> QED BY <2>2, <2>3
<1>5. Agreeing'
    <2> SUFFICES ASSUME NEW g \in Jobs, NEW k \in Jobs, SameRequest(job'[g], job'[k])
                 PROVE  Ends(job'[g].row) = Ends(job'[k].row)
        BY DEF Agreeing
    <2>1. SameRequest(job[g], job[k]) /\ job'[g].row = job[g].row /\ job'[k].row = job[k].row
        BY <1>1 DEF SameRequest
    <2> QED
        BY <2>1 DEF SInv, Agreeing
<1>6. Strangers'
    <2>1. ASSUME NEW g \in Jobs \ {h}, job[g].op = "ask", job[g].pc = "insert",
                 PairOf(job[g]) \notin Excused', NEW f \in Friendships
          PROVE  friendships'[f] # PairOf(job[g])
        <3>1. friendships[f] # PairOf(job[g])
            BY <2>1 DEF SInv, Strangers, Stranger
        <3>2. PairOf(job[g]) # Parted
            <4>1. WellFormed(job[g])
                BY DEF RInv, Carried
            <4> QED
                BY <2>1, <4>1 DEF WellFormed, PairOf, Parted
        <3> QED
            BY <3>1, <3>2 DEF Shrinks
    <2> QED
        BY <1>1, <2>1 DEF Strangers, Stranger
\* The answer of h is only let go when it is saved, or noted.
<1>7. ASSUME NEW r \in Requests, Open(r)', StaysOpen(r), SavedBySome(r),
             {requests[r].from, requests[r].to} \notin Excused'
      PROVE  SavedBySome(r)'
    <2>1. PICK g \in Jobs : Saves(job[g], r)
        BY <1>7 DEF SavedBySome
    <2>2. CASE g # h
        BY <1>1, <2>1, <2>2 DEF SavedBySome
    <2>3. CASE g = h
        <3>1. PairOf(job[h]) = {requests[r].from, requests[r].to}
            <4>1. HasRow(job[h]) /\ job[h].req = r /\ About(job[h]) /\ WellFormed(job[h])
                BY <2>1, <2>3 DEF Saves, HasRow, SInv, Rooted, RInv, Carried
            <4>2. Ends(requests[r]) = Ends(job[h].row)
                BY <1>7, <4>1 DEF About, StaysOpen, Open, Used
            <4> QED
                BY <4>1, <4>2 DEF WellFormed, Ends
        <3>2. Saves(j, r)
            BY <1>7, <2>1, <2>3, <3>1 DEF LetsGo
        <3> QED
            BY <1>1, <3>2 DEF SavedBySome
    <2> QED BY <2>2, <2>3
<1>8. Settled'
    <2> SUFFICES ASSUME NEW p \in Pairs, p \notin Excused', NEW f \in Friendships,
                        friendships'[f] = p, NEW r \in Requests, OpenFor(r, p)'
                 PROVE  SavedBySome(r)'
        BY DEF Settled
    <2>1. {requests'[r].from, requests'[r].to} = p /\ Open(r)' /\ p \notin revived'
        BY DEF OpenFor, Excused
    <2>2. StaysOpen(r)
        BY <2>1 DEF Shrinks
    <2>3. {requests[r].from, requests[r].to} = p /\ OpenFor(r, p) /\ friendships[f] = p
        BY <2>1, <2>2, NoPairs DEF Shrinks, OpenFor, StaysOpen
    <2>4. SavedBySome(r)
        BY <2>3 DEF SInv, Settled
    <2> QED
        BY <1>7, <2>1, <2>2, <2>3, <2>4
<1>9. Backed'
    <2> SUFFICES ASSUME NEW r \in Requests, Open(r)',
                        {requests'[r].from, requests'[r].to} \notin Excused'
                 PROVE  Ends(requests'[r]) \in asked' \/ SavedBySome(r)'
        BY DEF Backed
    <2>1. StaysOpen(r)
        BY DEF Shrinks, Excused
    <2>2. /\ {requests[r].from, requests[r].to} \notin Excused' /\ Open(r)
          /\ Ends(requests'[r]) = Ends(requests[r])
        BY <2>1 DEF StaysOpen, Ends
    <2>3. Ends(requests[r]) \in asked \/ SavedBySome(r)
        BY <2>2 DEF SInv, Backed
    <2>4. CASE SavedBySome(r)
        BY <1>7, <2>1, <2>2, <2>4
    <2>5. CASE ~SavedBySome(r)
        BY <2>1, <2>2, <2>3, <2>5 DEF Remembers
    <2> QED BY <2>4, <2>5
<1>10. FriendsAgreed'
    <2> SUFFICES ASSUME NEW f \in Friendships, friendships'[f] \in Pairs \ Excused'
                 PROVE  \E a, b \in friendships'[f] : a # b /\ <<a, b>> \in asked' \intersect agreed'
        BY DEF FriendsAgreed
    <2>1. friendships'[f] = friendships[f]
        BY NoPairs DEF Shrinks
    <2>2. PICK a, b \in friendships'[f] : a # b /\ <<a, b>> \in asked \intersect agreed
        BY <2>1 DEF SInv, FriendsAgreed
    <2> QED
        BY <2>2 DEF Remembers
<1> QED
    BY <1>4, <1>5, <1>6, <1>8, <1>9, <1>10 DEF SInv

LEMMA NothingForgotten == ASSUME UNCHANGED <<asked, agreed>> PROVE Remembers
BY DEF Remembers

\* A call that ends without having to save an answer.
LEMMA PassingAway ==
    ASSUME RInv, SInv, NEW h \in Jobs, Finish(h), Excused \subseteq Excused', Shrinks,
           Rewrites(h), Remembers,
           \A r \in Requests : Saves(job[h], r) => ~Open(r)' \/ PairOf(job[h]) \in Excused'
    PROVE  SInv'
<1>1. Stranger(Idle)' /\ LetsGo(h, Idle)
    BY IdleForm DEF Stranger, LetsGo
<1> QED
    BY <1>1, IdleForm, PassingKeeps DEF Finish

LEMMA Unwritten ==
    ASSUME RInv, UNCHANGED database, NEW h PROVE Shrinks /\ Rewrites(h)
BY DEF Shrinks, StaysOpen, Rewrites, Open, Used, database

\* The steps that ask, look and find, one by one.
LEMMA LookKeepsSettled ==
    ASSUME RInv, SInv, NEW h \in Jobs,
           LookForOpen(h) \/ LookForFriend(h) \/ CheckFriend(h) \/ FindSent(h) \/ FindFriendship(h)
    PROVE  SInv'
<1>1. UNCHANGED <<database, asked, agreed, crossed, reopened, revived, unsaved>>
    BY DEF LookForOpen, LookForFriend, CheckFriend, FindSent, FindFriendship, history
<1>2. Excused' = Excused /\ Shrinks /\ Rewrites(h) /\ Remembers /\ \A r : ~Saves(job[h], r)
    BY <1>1, Unwritten, NothingForgotten DEF Excused, Saves, LookForOpen, LookForFriend, CheckFriend, FindSent,
                           FindFriendship, At
<1>3. CASE Finish(h)
    BY <1>2, <1>3, PassingAway
<1>4. ASSUME NEW pc \in {"friends", "insert", "befriend"}, Goto(h, pc),
             pc = "friends" => job[h].op = "ask",
             pc = "insert" => job[h].op = "ask" /\ FriendRows(job[h].user, job[h].peer) = {},
             pc = "befriend" => At(h, "answer", "friends")
      PROVE  SInv'
    <2>1. PICK j \in JobType : j = [job[h] EXCEPT !.pc = pc]
        BY DEF RInv, Types, JobType, Points
    <2>2. j.pc = pc /\ \A x \in {"op", "user", "peer", "req", "status", "row"} : j[x] = job[h][x]
        BY <2>1 DEF RInv, Types, JobType
    <2>3. job' = [job EXCEPT ![h] = j]
        BY <1>4, <2>1 DEF Goto, RInv, Types
    <2>4. HasRow(j) => SameRequest(job[h], j) /\ j.row = job[h].row /\ PairOf(j) = PairOf(job[h])
        BY <1>4, <2>2 DEF HasRow, SameRequest, PairOf, At
    <2>5. Stranger(j)' /\ LetsGo(h, j)
        BY <1>1, <1>2, <1>4, <2>2 DEF Stranger, PairOf, FriendRows, database, LetsGo
    <2> QED
        BY <1>2, <2>3, <2>4, <2>5, PassingKeeps
<1>5. ASSUME NEW r, job' = [job EXCEPT ![h].req = r, ![h].pc = "drop"],
             r \in Requests \union Friendships, job[h].op \in {"withdraw", "unfriend"}
      PROVE  SInv'
    <2>1. PICK j \in JobType : j = [job[h] EXCEPT !.req = r, !.pc = "drop"]
        BY <1>5 DEF RInv, Types, JobType, Points
    <2>2. j.pc = "drop"
        BY <2>1 DEF RInv, Types, JobType
    <2>3. job' = [job EXCEPT ![h] = j]
        BY <1>5, <2>1 DEF RInv, Types
    <2>4. ~HasRow(j) /\ Stranger(j)' /\ LetsGo(h, j)
        BY <1>2, <2>2 DEF HasRow, Stranger, LetsGo
    <2> QED
        BY <1>2, <2>3, <2>4, PassingKeeps
<1>6. CASE LookForOpen(h)
    BY <1>3, <1>4, <1>6 DEF LookForOpen, At
<1>7. CASE LookForFriend(h)
    BY <1>3, <1>4, <1>7 DEF LookForFriend, At
<1>8. CASE CheckFriend(h)
    BY <1>3, <1>4, <1>8 DEF CheckFriend
<1>9. CASE FindSent(h)
    BY <1>3, <1>5, <1>9 DEF FindSent, At, Used
<1>10. CASE FindFriendship(h)
    BY <1>3, <1>5, <1>10 DEF FindFriendship, At, FriendRows
<1> QED
    BY <1>6, <1>7, <1>8, <1>9, <1>10

LEMMA DropKeepsSettled ==
    ASSUME RInv, SInv, NEW h \in Jobs, RemoveRejected(h) \/ DropRequest(h)
    PROVE  SInv'
<1>1. /\ Finish(h) /\ Excused' = Excused /\ \A r : ~Saves(job[h], r)
      /\ UNCHANGED <<friendships, asked, agreed, revived>>
      /\ requests' = [requests EXCEPT ![job[h].req] = Deleted]
    BY DEF RemoveRejected, DropRequest, Excused, history, Saves, At
<1>2. Shrinks /\ Remembers
    BY <1>1, ShutShrinks, NothingForgotten
<1>3. Rewrites(h)
    BY <1>1 DEF Rewrites, RInv, Types
<1> QED
    BY <1>1, <1>2, <1>3, PassingAway

\* Unfriending ends the one friendship of the pair, and no request of the pair is
\* open but the one that is being saved: what is forgotten matters no more.
LEMMA DropFriendshipKeepsSettled ==
    ASSUME RInv, SInv, NEW h \in Jobs, DropFriendship(h) PROVE SInv'
<1>1. /\ Finish(h) /\ Excused' = Excused /\ \A r : ~Saves(job[h], r)
      /\ job[h].req \in Friendships /\ UNCHANGED <<requests, revived>>
    BY DEF DropFriendship, Excused, Saves, At, RInv, Carried, WellFormed
<1>2. PICK p : p = friendships[job[h].req]
    OBVIOUS
<1>3. /\ asked' = {q \in asked : {q[1], q[2]} # p} /\ agreed' = {q \in agreed : {q[1], q[2]} # p}
      /\ \A f \in Friendships : friendships'[f] = IF f = job[h].req THEN Parted ELSE friendships[f]
    <2>1. \A f \in Friendships : friendships'[f] = IF f = job[h].req THEN Parted ELSE friendships[f]
        BY DEF DropFriendship, RInv, Types
    <2>2. asked' = Without(asked, p) /\ agreed' = Without(agreed, p)
        BY <1>2 DEF DropFriendship
    <2> QED
        BY <2>1, <2>2 DEF Without
<1>4. Shrinks /\ Rewrites(h)
    BY <1>1, <1>3 DEF Shrinks, StaysOpen, Open, Used, Rewrites
<1>5. ASSUME NEW f \in Friendships, friendships'[f] \in Pairs \ Excused',
             NEW a \in friendships'[f], NEW b \in friendships'[f], a # b,
             <<a, b>> \in asked \intersect agreed
      PROVE  <<a, b>> \in asked' \intersect agreed'
    <2>1. f # job[h].req /\ friendships'[f] = friendships[f]
        BY <1>3, <1>5, NoPairs
    <2>2. friendships[f] # p
        BY <1>1, <1>2, <1>5, <2>1 DEF RInv, Single, Excused
    <2>3. friendships[f] = {a, b}
        <3>1. Cardinality(friendships[f]) = 2 /\ IsFiniteSet(friendships[f])
            BY <1>5, <2>1, FriendsAssumption, FS_Subset DEF Pairs
        <3>2. PICK c, d \in friendships[f] : c # d /\ friendships[f] = {c, d}
            BY <3>1, TwoMembers
        <3> QED
            BY <1>5, <2>1, <3>2
    <2> QED
        BY <1>3, <1>5, <2>2, <2>3
<1>6. ASSUME NEW r \in Requests, StaysOpen(r), {requests[r].from, requests[r].to} \notin Excused',
             Ends(requests[r]) \in asked, ~SavedBySome(r)
      PROVE  Ends(requests[r]) \in asked'
    <2>1. {requests[r].from, requests[r].to} # p
        <3>1. ASSUME {requests[r].from, requests[r].to} = p PROVE FALSE
            <4>1. OpenFor(r, p)
                BY <1>6, <3>1 DEF OpenFor, StaysOpen
            <4>2. requests[r] \in Rows /\ requests[r].from # requests[r].to
                BY <1>6, UsedRow DEF StaysOpen, Open, RInv, TwoSided
            <4>3. p \in Pairs
                BY <3>1, <4>2, PairOfTwo DEF Rows
            <4> QED
                BY <1>1, <1>2, <1>6, <3>1, <4>1, <4>3 DEF SInv, Settled
        <3> QED BY <3>1
    <2> QED
        BY <1>3, <1>6, <2>1 DEF Ends
<1>7. Remembers
    BY <1>5, <1>6 DEF Remembers
<1> QED
    BY <1>1, <1>4, <1>7, PassingAway

LEMMA StartKeepsSettled ==
    ASSUME RInv, SInv, NEW h \in Jobs, NEW j \in JobType, NEW p, Start(h, j, p),
           ~HasRow(j), j.pc # "insert"
    PROVE  SInv'
<1>1. job' = [job EXCEPT ![h] = j]
      /\ UNCHANGED <<database, asked, agreed, reopened, revived, unsaved>>
      /\ crossed \subseteq crossed' /\ job[h] = Idle
    BY DEF Start
<1>2. Excused \subseteq Excused' /\ Shrinks /\ Rewrites(h) /\ Remembers
    BY <1>1, Unwritten, NothingForgotten DEF Excused
<1>3. Stranger(j)' /\ LetsGo(h, j)
    BY <1>1, IdleForm DEF Stranger, LetsGo, Saves
<1> QED
    BY <1>1, <1>2, <1>3, PassingKeeps

LEMMA ClickKeepsSettled ==
    ASSUME RInv, SInv, NEW h \in Jobs, NEW u \in Users, Click(h, u) PROVE SInv'
<1>1. ASSUME NEW v \in Users, NEW op \in {"ask", "withdraw", "unfriend"},
             NEW pc \in {"open", "find"},
             Start(h, Call(op, pc, u, v, NoRequest, "none"), {u, v})
      PROVE  SInv'
    <2>1. PICK j : j = Call(op, pc, u, v, NoRequest, "none")
        OBVIOUS
    <2>2. j \in JobType /\ ~HasRow(j) /\ j.pc # "insert"
        BY <2>1 DEF Call, JobType, Ops, Points, Somebody, HasRow
    <2> QED
        BY <1>1, <2>1, <2>2, StartKeepsSettled
<1>2. ASSUME NEW r \in Requests \union {NoRequest},
             NEW s \in Statuses, NEW p,
             Start(h, Call("answer", "read", u, "nobody", r, s), p)
      PROVE  SInv'
    <2>1. PICK j : j = Call("answer", "read", u, "nobody", r, s)
        OBVIOUS
    <2>2. j \in JobType /\ ~HasRow(j) /\ j.pc # "insert"
        BY <2>1 DEF Call, JobType, Ops, Points, Somebody, HasRow, Statuses
    <2> QED
        BY <1>2, <2>1, <2>2, StartKeepsSettled
<1>3. ASSUME NEW v \in Users, Ask(h, u, v) \/ Withdraw(h, u, v) \/ Unfriend(h, u, v) PROVE SInv'
    BY <1>1, <1>3 DEF Ask, Withdraw, Unfriend
<1>4. ASSUME NEW r \in Requests, CancelSent(h, u, r) PROVE SInv'
    BY <1>2, <1>4 DEF CancelSent, Statuses
<1>5. ASSUME NEW r \in Requests, NEW s \in Statuses, Answer(h, u, r, s) PROVE SInv'
    <2>1. PICK p : p = IF r \in Used THEN {requests[r].from, u} ELSE {u}
        OBVIOUS
    <2> QED
        BY <1>2, <1>5, <2>1 DEF Answer
<1> QED
    BY <1>3, <1>4, <1>5 DEF Click

\* A failure between the two saves of an answer is noted.
LEMMA FailKeepsSettled == ASSUME RInv, SInv, NEW h \in Jobs, Fail(h) PROVE SInv'
<1>1. /\ Finish(h) /\ UNCHANGED <<database, asked, agreed, crossed, reopened, revived>>
      /\ unsaved' = unsaved \union HalfDone(h)
    BY DEF Fail
<1>2. Excused \subseteq Excused' /\ Shrinks /\ Rewrites(h) /\ Remembers
    BY <1>1, Unwritten, NothingForgotten DEF Excused
<1>3. ASSUME NEW r \in Requests, Saves(job[h], r) PROVE PairOf(job[h]) \in Excused'
    <2>1. WellFormed(job[h]) /\ HasRow(job[h]) /\ At(h, "answer", "save")
        BY <1>3 DEF RInv, Carried, Saves, HasRow, At
    <2>2. HalfDone(h) = {PairOf(job[h])}
        BY <1>3, <2>1 DEF WellFormed, HalfDone, Saves
    <2> QED
        BY <1>1, <2>2 DEF Excused
<1> QED
    BY <1>1, <1>2, <1>3, PassingAway

LEMMA ViewKeepsSettled ==
    ASSUME RInv, SInv, NEW u \in Users, Search(u) \/ \E part \in Parts : Refetch(u, part)
    PROVE  SInv'
<1>1. UNCHANGED <<requests, friendships, job, asked, agreed, crossed, reopened, revived, unsaved>>
    BY DEF Search, Refetch, database, history
<1> QED
    BY <1>1 DEF SInv, Rooted, About, Agreeing, Strangers, Stranger, Settled, Backed, FriendsAgreed,
                SavedBySome, Excused, OpenFor, Open, Used

\* The request that is read now is about the pair it was about for every call
\* that read it before.
LEMMA ReadRequestKeepsSettled == ASSUME RInv, SInv, NEW h \in Jobs, ReadRequest(h) PROVE SInv'
<1>1. /\ UNCHANGED <<database, asked, agreed, revived, unsaved>> /\ At(h, "answer", "read")
      /\ Excused \subseteq Excused'
    BY DEF ReadRequest, Excused
<1>2. Shrinks /\ Rewrites(h) /\ Remembers /\ \A r : ~Saves(job[h], r)
    BY <1>1, Unwritten, NothingForgotten DEF Saves, At
<1>3. CASE Finish(h) /\ UNCHANGED crossed
    BY <1>1, <1>2, <1>3, PassingAway
<1>4. CASE ~(Finish(h) /\ UNCHANGED crossed)
    <2>1. job[h].req \in Used
        BY <1>4, ReadRequestReads
    <2>2. PICK j \in JobType :
            /\ job' = [job EXCEPT ![h] = j]
            /\ HasRow(j) /\ j.req = job[h].req /\ j.row = requests[j.req]
            /\ j.op = "answer" /\ j.pc \in {"friends", "save"}
        BY <1>4, ReadRequestReads
    <2>3. job'[h] = j /\ \A g \in Jobs \ {h} : job'[g] = job[g]
        BY <2>2 DEF RInv, Types
    <2>4. About(j)
        BY <2>1, <2>2 DEF About, Used
    <2>5. \A g \in Jobs : SameRequest(job[g], j) => Ends(job[g].row) = Ends(j.row)
        BY <2>1, <2>2 DEF SInv, Rooted, About, SameRequest, Used
    <2>6. Rooted'
        BY <1>1, <2>3, <2>4 DEF SInv, Rooted, About, database
    <2>7. Agreeing'
        BY <2>3, <2>5 DEF SInv, Agreeing, SameRequest
    <2>8. Strangers'
        BY <1>1, <2>2, <2>3 DEF SInv, Strangers, Stranger, database
    <2>9. \A r \in Requests : SavedBySome(r) => SavedBySome(r)'
        BY <1>2, <2>3 DEF SavedBySome
    <2>10. Settled'
        BY <1>1, <2>9 DEF SInv, Settled, OpenFor, Open, Used, database
    <2>11. Backed' /\ FriendsAgreed'
        BY <1>1, <2>9 DEF SInv, Backed, FriendsAgreed, Open, Used, database
    <2> QED
        BY <2>6, <2>7, <2>8, <2>10, <2>11 DEF SInv
<1> QED
    BY <1>3, <1>4

\* The row is saved with the answer, and is not open then unless it is made pending.
LEMMA SaveAnswerKeepsSettled == ASSUME RInv, SInv, NEW h \in Jobs, SaveAnswer(h) PROVE SInv'
<1>1. About(job[h])
    BY DEF SInv, Rooted
<1>2. /\ HasRow(job[h]) /\ WellFormed(job[h]) /\ job[h].op = "answer" /\ job[h].req \in Requests
      /\ Shrinks /\ revived \subseteq revived'
      /\ UNCHANGED <<asked, agreed, crossed, reopened, unsaved>>
    BY <1>1, SaveAnswerSaves
<1>3. PICK row \in Rows : /\ row.status = job[h].status /\ Ends(row) = Ends(job[h].row)
                          /\ requests' = [requests EXCEPT ![job[h].req] = row]
    BY <1>1, SaveAnswerSaves
<1>4. Excused \subseteq Excused' /\ Remembers
    BY <1>2, NothingForgotten DEF Excused
<1>5. Rewrites(h)
    BY <1>2, <1>3, RowIsNot DEF Rewrites, RInv, Types
<1>6. \A r : Saves(job[h], r) => ~Open(r)'
    BY <1>2, <1>3 DEF Saves, Open, Used, RInv, Types
<1>7. CASE Finish(h)
    BY <1>2, <1>4, <1>5, <1>6, <1>7, PassingAway
<1>8. CASE Goto(h, "remove")
    <2>1. PICK j \in JobType : j = [job[h] EXCEPT !.pc = "remove"]
        BY DEF RInv, Types, JobType, Points
    <2>2. /\ j.op = "answer" /\ j.pc = "remove"
          /\ \A x \in {"user", "peer", "req", "status", "row"} : j[x] = job[h][x]
        BY <1>2, <2>1 DEF JobType, RInv, Types
    <2>3. job' = [job EXCEPT ![h] = j]
        BY <1>8, <2>1 DEF Goto, RInv, Types
    <2>4. /\ Stranger(j)' /\ LetsGo(h, j) /\ SameRequest(job[h], j) /\ j.row = job[h].row
          /\ PairOf(j) = PairOf(job[h])
        BY <1>2, <1>6, <2>2 DEF Stranger, LetsGo, SameRequest, HasRow, PairOf
    <2> QED
        BY <1>2, <1>4, <1>5, <2>3, <2>4, PassingKeeps
<1> QED
    BY <1>7, <1>8 DEF SaveAnswer

\* A request is inserted for strangers, under an id no call has heard of.
LEMMA InsertRequestKeepsSettled ==
    ASSUME RInv, SInv, NEW h \in Jobs, InsertRequest(h) PROVE SInv'
<1>1. /\ At(h, "ask", "insert") /\ WellFormed(job[h]) /\ job[h].user \in Users
      /\ UNCHANGED <<friendships, agreed, crossed, reopened, revived, unsaved>>
      /\ asked' = asked \union {<<job[h].user, job[h].peer>>}
      /\ job[h].peer \in Users /\ PairOf(job[h]) = {job[h].user, job[h].peer}
    BY DEF InsertRequest, RInv, Carried, At, WellFormed, PairOf
<1>2. PICK n \in Requests : /\ requests[n] = NoRow
        /\ requests' = [requests EXCEPT ![n] =
               [from |-> job[h].user, to |-> job[h].peer, status |-> "pending"]]
    BY DEF InsertRequest
<1>3. PICK row \in Rows : row = [from |-> job[h].user, to |-> job[h].peer, status |-> "pending"]
    BY <1>1 DEF Rows, Statuses
<1>4. /\ Ends(row) = <<job[h].user, job[h].peer>> /\ {row.from, row.to} = PairOf(job[h]) /\ row # NoRow
      /\ \A q \in Requests : requests'[q] = IF q = n THEN row ELSE requests[q]
    BY <1>1, <1>2, <1>3, RowIsNot DEF RInv, Types, Ends
<1>5. job'[h] = Idle /\ \A g \in Jobs \ {h} : job'[g] = job[g]
    BY DEF InsertRequest, Finish, RInv, Types
<1>6. \A g \in Jobs : HasRow(job'[g]) =>
          g # h /\ HasRow(job[g]) /\ job[g].req # n /\ job[g].req \in Requests
    BY <1>2, <1>5, IdleForm DEF SInv, Rooted, About, RInv, Carried, WellFormed
<1>7. Rooted'
    BY <1>4, <1>5, <1>6 DEF SInv, Rooted, About
<1>8. Agreeing'
    BY <1>5, <1>6 DEF SInv, Agreeing, SameRequest
<1>9. Strangers'
    BY <1>1, <1>5, IdleForm DEF SInv, Strangers, Stranger, Excused
<1>11. \A r \in Requests : SavedBySome(r) => SavedBySome(r)'
    BY <1>1, <1>5 DEF SavedBySome, Saves, At
<1>10. Settled'
    <2> SUFFICES ASSUME NEW p \in Pairs, p \notin Excused, NEW f \in Friendships,
                        friendships[f] = p, NEW r \in Requests, OpenFor(r, p)'
                 PROVE  SavedBySome(r)'
        BY <1>1 DEF Settled, Excused
    <2>1. CASE r = n
        <3>1. p = PairOf(job[h])
            BY <1>4, <2>1 DEF OpenFor
        <3> QED
            BY <1>1, <3>1 DEF SInv, Strangers, Stranger, At
    <2>2. CASE r # n
        <3>1. OpenFor(r, p)
            BY <1>4, <2>2 DEF OpenFor, Open, Used
        <3> QED
            BY <1>11, <3>1 DEF SInv, Settled
    <2> QED BY <2>1, <2>2
<1>12. Backed'
    <2> SUFFICES ASSUME NEW r \in Requests, Open(r)',
                        {requests'[r].from, requests'[r].to} \notin Excused
                 PROVE  Ends(requests'[r]) \in asked' \/ SavedBySome(r)'
        BY <1>1 DEF Backed, Excused
    <2>1. CASE r = n
        BY <1>1, <1>4, <2>1
    <2>2. CASE r # n
        <3>1. Open(r) /\ requests'[r] = requests[r]
            BY <1>4, <2>2 DEF Open, Used
        <3> QED
            BY <1>1, <1>11, <3>1 DEF SInv, Backed
    <2> QED BY <2>1, <2>2
<1>13. FriendsAgreed'
    BY <1>1 DEF SInv, FriendsAgreed, Excused
<1> QED
    BY <1>7, <1>8, <1>9, <1>10, <1>12, <1>13 DEF SInv

\* The only open request of the pair is the one that is being answered.
LEMMA BefriendKeepsSettled == ASSUME RInv, SInv, NEW h \in Jobs, Befriend(h) PROVE SInv'
<1>1. /\ At(h, "answer", "befriend") /\ HasRow(job[h]) /\ WellFormed(job[h]) /\ About(job[h])
      /\ job[h].status = "accepted" /\ job[h].req \in Requests /\ job[h].row \in Rows
      /\ UNCHANGED <<requests, asked, crossed, revived, unsaved>>
      /\ job[h].user = job[h].row.to /\ agreed' = agreed \union {Ends(job[h].row)}
    BY DEF Befriend, At, RInv, Carried, WellFormed, HasRow, SInv, Rooted, Ends
<1>2. PICK q : q = PairOf(job[h])
    OBVIOUS
<1>3. /\ reopened' = IF Open(job[h].req) THEN reopened ELSE reopened \union {q}
      /\ Excused \subseteq Excused'
    BY <1>1, <1>2 DEF Befriend, PairOf, Excused
<1>4. PICK n \in Friendships : friendships' = [friendships EXCEPT ![n] = q]
    BY <1>2 DEF Befriend, PairOf
<1>5. \A f \in Friendships : friendships'[f] = IF f = n THEN q ELSE friendships[f]
    BY <1>4 DEF RInv, Types
<1>6. PICK j \in JobType : j = [job[h] EXCEPT !.pc = "save"]
    BY DEF RInv, Types, JobType, Points
<1>7. /\ j.op = "answer" /\ j.pc = "save"
      /\ \A x \in {"user", "peer", "req", "status", "row"} : j[x] = job[h][x]
    BY <1>1, <1>6 DEF JobType, RInv, Types, At
<1>8. job'[h] = j /\ \A g \in Jobs \ {h} : job'[g] = job[g]
    BY <1>6 DEF Befriend, Goto, RInv, Types
<1>9. /\ HasRow(j) /\ SameRequest(j, job[h]) /\ SameRequest(job[h], j)
      /\ PairOf(j) = PairOf(job[h]) /\ Saves(j, job[h].req) /\ j.row = job[h].row
    BY <1>1, <1>7 DEF HasRow, SameRequest, PairOf, Saves
<1>10. Rooted'
    BY <1>1, <1>8, <1>9 DEF SInv, Rooted, About, SameRequest
<1>11. Agreeing'
    BY <1>8, <1>9 DEF SInv, Agreeing, SameRequest
<1>12. Open(job[h].req) => OpenFor(job[h].req, q)
    BY <1>1, <1>2 DEF About, OpenFor, Open, Used, Ends, WellFormed
<1>13. Strangers'
    <2> SUFFICES ASSUME NEW g \in Jobs \ {h}, job[g].op = "ask", job[g].pc = "insert",
                        PairOf(job[g]) \notin Excused', NEW f \in Friendships
                 PROVE  friendships'[f] # PairOf(job[g])
        BY <1>7, <1>8 DEF Strangers, Stranger
    <2>1. /\ friendships[f] # PairOf(job[g])
          /\ PairOf(job[g]) \notin crossed /\ PairOf(job[g]) \notin revived
        BY <1>3 DEF SInv, Strangers, Stranger, Excused
    <2>2. CASE PairOf(job[g]) = q
        <3>1. Open(job[h].req)
            BY <1>3, <2>2 DEF Excused
        <3> QED
            BY <1>1, <1>12, <2>1, <2>2, <3>1 DEF RInv, Looked, Knows, OpenFor
    <2> QED
        BY <1>5, <2>1, <2>2
<1>14. \A r \in Requests : SavedBySome(r) => SavedBySome(r)'
    BY <1>1, <1>8 DEF SavedBySome, Saves, At
<1>15. Settled'
    <2> SUFFICES ASSUME NEW p \in Pairs, p \notin Excused', NEW f \in Friendships,
                        friendships'[f] = p, NEW r \in Requests, OpenFor(r, p)
                 PROVE  SavedBySome(r)'
        BY <1>1 DEF Settled, OpenFor, Open, Used
    <2>1. CASE p = q
        <3>1. Open(job[h].req) /\ p \notin crossed /\ p \notin revived
            BY <1>1, <1>3, <2>1 DEF Excused
        <3>2. r = job[h].req
            BY <1>1, <1>12, <2>1, <3>1 DEF RInv, Single
        <3> QED
            BY <1>8, <1>9, <3>2 DEF SavedBySome
    <2>2. CASE p # q
        <3>1. SavedBySome(r)
            BY <1>3, <1>5, <2>2 DEF SInv, Settled
        <3> QED
            BY <1>14, <3>1
    <2> QED BY <2>1, <2>2
<1>16. Backed'
    <2> SUFFICES ASSUME NEW r \in Requests, Open(r),
                        {requests[r].from, requests[r].to} \notin Excused
                 PROVE  Ends(requests[r]) \in asked \/ SavedBySome(r)'
        BY <1>1, <1>3 DEF Backed, Open, Used
    <2> QED
        BY <1>14 DEF SInv, Backed
<1>17. FriendsAgreed'
    <2> SUFFICES ASSUME NEW f \in Friendships, friendships'[f] \in Pairs \ Excused'
                 PROVE  \E a, b \in friendships'[f] : a # b /\ <<a, b>> \in asked \intersect agreed'
        BY <1>1 DEF FriendsAgreed
    <2>1. CASE f = n
        <3>1. friendships'[f] = q /\ q \notin Excused' /\ Open(job[h].req)
            BY <1>3, <1>5, <2>1 DEF Excused
        <3>2. Ends(requests[job[h].req]) = Ends(job[h].row) /\ q \notin Excused
            BY <1>1, <1>3, <3>1 DEF About, Open, Used
        <3>3. {requests[job[h].req].from, requests[job[h].req].to} = q
            BY <1>12, <3>1 DEF OpenFor
        <3>4. ~SavedBySome(job[h].req)
            <4>1. ASSUME NEW g \in Jobs, Saves(job[g], job[h].req) PROVE FALSE
                <5>1. g # h
                    BY <1>1, <4>1 DEF Saves, At
                <5>2. SameRequest(job[g], job[h]) /\ WellFormed(job[g])
                    BY <1>1, <4>1 DEF Saves, SameRequest, HasRow, RInv, Carried
                <5>3. PairOf(job[g]) = PairOf(job[h])
                    BY <1>1, <5>2 DEF SInv, Agreeing, SameRequest, WellFormed, Ends
                <5>4. q \in crossed
                    BY <1>1, <1>2, <5>1, <5>2, <5>3 DEF RInv, Crossed, Meet, SameRequest
                <5> QED
                    BY <3>2, <5>4 DEF Excused
            <4> QED BY <4>1 DEF SavedBySome
        <3>5. Ends(job[h].row) \in asked
            BY <1>1, <3>1, <3>2, <3>3, <3>4 DEF SInv, Backed
        <3>6. job[h].row.from # job[h].row.to /\ q = {job[h].row.from, job[h].row.to}
            BY <1>1, <1>2 DEF WellFormed
        <3> QED
            BY <1>1, <3>1, <3>5, <3>6 DEF Ends
    <2>2. CASE f # n
        BY <1>1, <1>3, <1>5, <2>2 DEF SInv, FriendsAgreed
    <2> QED BY <2>1, <2>2
<1> QED
    BY <1>10, <1>11, <1>13, <1>15, <1>16, <1>17 DEF SInv

-----------------------------------------------------------------------------
(* The theorems                                                            *)

\* Before any call at most one request is there, one pair is friends, and not
\* both open and friends.
LEMMA InitRows ==
    ASSUME FInit
    PROVE  /\ requests \in [Requests -> Rows \union {NoRow, Deleted}]
           /\ TwoSided /\ \A r, q \in Used : r = q
           /\ \A r \in Used : requests[r] \in Rows
<1>1. PICK old \in OldRows \union {NoRow} :
        requests = [r \in Requests |-> IF r = First(Requests) THEN old ELSE NoRow]
    BY DEF FInit
<1>2. old # NoRow => old \in Rows /\ old.from # old.to
    BY <1>1 DEF OldRows
<1>3. \A r \in Used : r = First(Requests) /\ requests[r] = old /\ old # NoRow
    BY <1>1 DEF Used
<1> QED
    BY <1>1, <1>2, <1>3 DEF TwoSided

LEMMA InitFriends ==
    ASSUME FInit
    PROVE  /\ friendships \in [Friendships -> Pairs \union {NoPair, Parted}]
           /\ \A f, g \in Friendships : friendships[f] \in Pairs /\ friendships[g] \in Pairs => f = g
           /\ \A f \in Friendships : \A r \in Used :
                Open(r) => {requests[r].from, requests[r].to} # friendships[f]
           /\ \A u \in Users : Befriended(u) \in SUBSET Users
<1>1. PICK old \in Pairs \union {NoPair} :
        /\ \A r \in Used : Open(r) => {requests[r].from, requests[r].to} # old
        /\ friendships = [f \in Friendships |-> IF f = First(Friendships) THEN old ELSE NoPair]
    BY DEF FInit
<1>2. \A f \in Friendships : friendships[f] \in {old, NoPair}
                             /\ (friendships[f] \in Pairs => f = First(Friendships))
    BY <1>1, NoPairs
<1>3. \A u \in Users : Befriended(u) \in SUBSET Users
    BY <1>2 DEF Befriended, Pairs, NoPair
<1> QED
    BY <1>1, <1>2, <1>3 DEF NoPair

LEMMA InitHolds == FInit => RInv
<1> SUFFICES ASSUME FInit PROVE RInv
    OBVIOUS
<1>1. /\ job = [h \in Jobs |-> Idle] /\ calls = 0 /\ crossed = {}
      /\ shown = [u \in Users |-> [received |-> {r \in Used : requests[r].to = u},
                                   sent |-> {r \in Used : requests[r].from = u},
                                   friends |-> Befriended(u)]]
    BY DEF FInit
<1>2. agreed \in SUBSET (Users \X Users) /\ asked \in SUBSET (Users \X Users)
    <2>1. agreed \in SUBSET (Users \X Users)
        BY DEF FInit
    <2>2. \A r \in Used : <<requests[r].from, requests[r].to>> \in Users \X Users
        BY InitRows DEF Rows
    <2> QED
        BY <2>1, <2>2 DEF FInit
<1>3. shown \in [Users -> View]
    <2>1. \A u \in Users : /\ {r \in Used : requests[r].to = u} \in SUBSET Requests
                           /\ {r \in Used : requests[r].from = u} \in SUBSET Requests
        BY DEF Used
    <2> QED
        BY <1>1, <2>1, InitFriends DEF View
<1>4. Types
    BY <1>1, <1>2, <1>3, InitRows, InitFriends, IdleForm, FriendsAssumption DEF Types
<1>5. Carried /\ TwoSided /\ Crossed
    BY <1>1, InitRows, IdleForm DEF Carried, Crossed, Meet
<1>6. Looked
    BY <1>1, IdleForm DEF Looked, Knows
<1>7. Single
    BY InitRows, InitFriends DEF Single, OpenFor, Open
<1> QED
    BY <1>4, <1>5, <1>6, <1>7 DEF RInv

LEMMA SInitHolds == FInit => SInv
<1> SUFFICES ASSUME FInit PROVE SInv
    OBVIOUS
<1>1. job = [h \in Jobs |-> Idle]
    BY DEF FInit
<1>2. Rooted /\ Agreeing /\ Strangers
    BY <1>1, IdleForm DEF Rooted, About, Agreeing, SameRequest, Strangers, Stranger
<1>3. Settled
    BY InitFriends DEF Settled, OpenFor, Open
<1>4. Backed
    BY DEF FInit, Backed, Ends, Open
<1>5. FriendsAgreed
    <2> SUFFICES ASSUME NEW f \in Friendships, friendships[f] \in Pairs
                 PROVE  \E a, b \in friendships[f] : a # b /\ <<a, b>> \in asked \intersect agreed
        BY DEF FriendsAgreed
    <2>1. PICK a, b \in Users : a # b /\ friendships[f] = {a, b}
        <3>1. friendships[f] \in SUBSET Users /\ Cardinality(friendships[f]) = 2
            BY DEF Pairs
        <3>2. IsFiniteSet(friendships[f])
            BY <3>1, FriendsAssumption, FS_Subset
        <3> QED
            BY <3>1, <3>2, TwoMembers
    <2>2. <<a, b>> \in agreed
        BY <2>1 DEF FInit
    <2>3. <<a, b>> \in asked
        BY <2>2 DEF FInit
    <2> QED
        BY <2>1, <2>2, <2>3
<1> QED
    BY <1>2, <1>3, <1>4, <1>5 DEF SInv

FInv == RInv /\ SInv

LEMMA NextKeeps == FInv /\ [FNext]_friends => FInv'
<1> SUFFICES ASSUME RInv, SInv, [FNext]_friends PROVE RInv' /\ SInv'
    BY DEF FInv
<1>1. ASSUME NEW h \in Jobs, Serve(h) PROVE RInv'
    <2>1. About(job[h])
        BY DEF SInv, Rooted
    <2> QED
        BY <1>1, <2>1, LookForOpenKeeps, LookForFriendKeeps, InsertRequestKeeps, ReadRequestKeeps,
           CheckFriendKeeps, BefriendKeeps, SaveAnswerKeeps, FindSentKeeps, DropsKeep,
           FindFriendshipKeeps, DropFriendshipKeeps DEF Serve
<1>2. ASSUME NEW h \in Jobs, Serve(h) PROVE SInv'
    BY <1>2, LookKeepsSettled, InsertRequestKeepsSettled, ReadRequestKeepsSettled,
       BefriendKeepsSettled, SaveAnswerKeepsSettled, DropKeepsSettled, DropFriendshipKeepsSettled
       DEF Serve
<1>3. CASE UNCHANGED friends
    <2>1. RInv'
        BY <1>3 DEF friends, RInv, Types, Carried, TwoSided, Crossed, Looked, Single, Knows,
                    OpenFor, Open, Used
    <2>2. SInv'
        BY <1>3 DEF friends, SInv, Rooted, About, Agreeing, Strangers, Stranger, Settled, Backed,
                    FriendsAgreed, SavedBySome, Excused, OpenFor, Open, Used
    <2> QED BY <2>1, <2>2
<1>4. CASE \E h \in Jobs : Fail(h) \/ \E u \in Users : Click(h, u)
    BY <1>4, FailKeeps, ClickKeeps, FailKeepsSettled, ClickKeepsSettled
<1>5. CASE \E u \in Users : Search(u) \/ \E part \in Parts : Refetch(u, part)
    BY <1>5, ViewKeeps, ViewKeepsSettled
<1> QED
    BY <1>1, <1>2, <1>3, <1>4, <1>5 DEF FNext

LEMMA FInitHolds == FInit => FInv
BY InitHolds, SInitHolds DEF FInv

LEMMA FInvAlways == FSpec => []FInv
BY FInitHolds, NextKeeps, PTL DEF FSpec

\* Rows name users, a friendship is between two users, calls and views refer to
\* ids (friends.service.ts, whatever interleaves or fails).
THEOREM FriendsTypeCorrect == FSpec => []FTypeOK
<1>1. FInv => FTypeOK
    BY IdleForm DEF FInv, RInv, Types, FTypeOK, Carried, WellFormed, JobType, Ops
<1> QED
    BY <1>1, FInvAlways, PTL

\* A pair of users has one open request and one friendship at most, unless two
\* calls of one kind about them were served at the same time: the look-ups of
\* createFriendRequest and updateFriendRequest are enough for everything else but
\* a request that is made pending again, which nothing looks at.
THEOREM PairsAreSingle == FSpec => []OnePerPair
<1>1. FInv => OnePerPair
    BY SingleIsOne DEF FInv
<1> QED
    BY <1>1, FInvAlways, PTL

LEMMA SettledIsNotAsked == FInv => NotAskedOfFriends
<1> SUFFICES ASSUME FInv, NEW a \in Users, NEW b \in Users, a # b, {a, b} \notin Excused,
                    FriendRows(a, b) # {}, NEW r \in Between(a, b), Open(r)
             PROVE  \E h \in Jobs : Saving(h, r)
    BY DEF NotAskedOfFriends
<1>1. {a, b} \in Pairs \ Excused /\ OpenFor(r, {a, b}) /\ r \in Requests
    BY PairOfTwo DEF OpenFor, Between, Used
<1>2. PICK f \in Friendships : friendships[f] = {a, b}
    BY DEF FriendRows
<1>3. PICK h \in Jobs : Saves(job[h], r)
    BY <1>1, <1>2 DEF FInv, SInv, Settled, SavedBySome
<1> QED
    BY <1>3 DEF Saves, Saving, At

\* Friends have no open request between them, but for the moment in which the one
\* they became friends by is saved: asking looks for requests before friendships,
\* and accepting saves the friendship before the request. Excused are the pairs of
\* OnePerPair, those with a request answered twice, and those whose answer failed
\* between the two saves.
THEOREM FriendsAreNotAsked == FSpec => []NotAskedOfFriends
BY SettledIsNotAsked, FInvAlways, PTL

\* Whoever are friends, one of them asked and the other accepted since they were
\* last apart: createFriendRequest refuses a second request and friends, accepting
\* closes the request it answers, and unfriending leaves none open (Backed), so
\* that only a request answered or reopened when it was closed makes friends of
\* people who did not ask each other again.
THEOREM FriendshipTakesTwo == FSpec => []FriendsAgreed
<1>1. FInv => FriendsAgreed
    BY DEF FInv, SInv
<1> QED
    BY <1>1, FInvAlways, PTL

-----------------------------------------------------------------------------
(* The presence beside them                                                *)

Threads == Sockets \X Ways
HandlerPoints == {"done", "set", "add", "delete", "remove", "friends", "tell"}
CronPoints == {"asleep", "read", "again", "mark", "list", "remove"}
HandlerType == [pc : HandlerPoints, left : SUBSET Users]
CronType == [kind : Kinds \union {"none"}, pc : CronPoints, user : Users \union {Nobody}]

Shapes ==
    /\ key \in [Users -> {"online", "idle", "away", "absent"}]
    /\ online \in SUBSET Users
    /\ owner \in [Sockets -> Users \union {Nobody}]
    /\ arrived \in [Sockets -> Nat]
    /\ handler \in [Threads -> HandlerType]
    /\ cron \in [Crons -> CronType]
    /\ \A s \in Sockets : IsOpen(s) => owner[s] # Nobody
    /\ \A h \in Threads : handler[h] # Resting => owner[h[1]] # Nobody
    /\ \A h \in Threads : handler[h].pc = "done" => handler[h] = Resting
    /\ \A h \in Threads : /\ handler[h].pc \in {"set", "add"} => h[2] = "in"
                          /\ handler[h].pc \in {"delete", "remove"} => h[2] = "out"
    /\ \A c \in Crons : /\ cron[c] = Asleep <=> cron[c].user = Nobody
                        /\ cron[c].pc = "asleep" \/ cron[c].kind = "none" => cron[c] = Asleep
                        /\ cron[c].pc \in {"again", "mark"} => cron[c].kind \in {"idle", "away"}

\* Sockets are told apart by when they came.
Numbered ==
    /\ \A s \in Sockets : arrived[s] <= Cardinality({t \in Sockets : owner[t] # Nobody})
    /\ \A s, t \in Sockets : IsOpen(s) /\ IsOpen(t) /\ arrived[s] = arrived[t] => s = t

\* One handler or job at a time is about a user who is not raced.
AloneAbout(u) ==
    /\ \A g, h \in Busy(u) : g = h
    /\ \A c, d \in InHand(u) : c = d
    /\ Busy(u) = {} \/ InHand(u) = {}

Apart == \A u \in Users \ raced : AloneAbout(u)

\* What the handler of u has done.
WrittenBy(h, u) ==
    /\ h[2] = "in" => IsOpen(h[1]) /\ (handler[h].pc \in {"friends", "tell"} => u \in online)
    /\ h[2] = "out" /\ handler[h].pc # "delete" => key[u] = "absent"
    /\ h[2] = "out" /\ handler[h].pc \in {"friends", "tell"} => u \notin online

WrittenFor(u) ==
    /\ \A h \in Busy(u) : WrittenBy(h, u)
    /\ \A c \in InHand(u) : u \in online /\ (cron[c].pc = "remove" => key[u] = "absent")
    /\ key[u] # "absent" /\ u \notin online => \E h \in Busy(u) : handler[h].pc = "add"
    /\ Busy(u) = {} /\ Open1(u) = {} => key[u] = "absent" /\ u \notin online

Written == \A u \in Users \ raced : WrittenFor(u)

PInv == FInv /\ Shapes /\ Numbered /\ Apart /\ Written

-----------------------------------------------------------------------------
(* Records                                                                 *)

LEMMA RestForm ==
    /\ Resting \in HandlerType /\ Resting.pc = "done" /\ Resting.left = {}
    /\ Asleep \in CronType /\ Asleep.pc = "asleep" /\ Asleep.user = Nobody
BY DEF Resting, Asleep, HandlerType, CronType, HandlerPoints, CronPoints

LEMMA HandlerGoes ==
    ASSUME NEW r \in HandlerType, NEW p \in HandlerPoints
    PROVE  [r EXCEPT !.pc = p] \in HandlerType /\ [r EXCEPT !.pc = p].pc = p
BY DEF HandlerType

LEMMA HandlerBegins ==
    ASSUME NEW p \in HandlerPoints, NEW L \in SUBSET Users
    PROVE  [pc |-> p, left |-> L] \in HandlerType /\ [pc |-> p, left |-> L].pc = p
BY DEF HandlerType

LEMMA JobGoes ==
    ASSUME NEW r \in CronType, NEW p \in CronPoints
    PROVE  /\ [r EXCEPT !.pc = p] \in CronType
           /\ [r EXCEPT !.pc = p].pc = p /\ [r EXCEPT !.pc = p].kind = r.kind
           /\ [r EXCEPT !.pc = p].user = r.user
BY DEF CronType

LEMMA JobBegins ==
    ASSUME NEW k \in Kinds, NEW u \in Users
    PROVE  /\ [kind |-> k, pc |-> "read", user |-> u] \in CronType
           /\ [kind |-> k, pc |-> "read", user |-> u].user = u
           /\ [kind |-> k, pc |-> "read", user |-> u].kind = k
           /\ [kind |-> k, pc |-> "read", user |-> u].pc = "read" /\ k # "none"
BY DEF CronType, CronPoints, Kinds

LEMMA FewerThanTwo ==
    ASSUME NEW B, NEW C, IsFiniteSet(B), IsFiniteSet(C), ~(Cardinality(B) + Cardinality(C) > 1)
    PROVE  /\ \A g, h \in B : g = h
           /\ \A c, d \in C : c = d
           /\ B = {} \/ C = {}
<1>1. Cardinality(B) \in Nat /\ Cardinality(C) \in Nat
    BY FS_CardinalityType
<1>2. ASSUME NEW D, IsFiniteSet(D), NEW g \in D, NEW h \in D, g # h PROVE Cardinality(D) > 1
    <2>1. {g, h} \subseteq D
        OBVIOUS
    <2>2. Cardinality({g}) = 1 /\ IsFiniteSet({g})
        BY FS_Singleton
    <2>3. Cardinality({g} \union {h}) = Cardinality({g}) + 1 /\ IsFiniteSet({g} \union {h})
        BY <1>2, <2>2, FS_AddElement
    <2>4. {g, h} = {g} \union {h}
        OBVIOUS
    <2>5. Cardinality({g, h}) = 2
        BY <2>2, <2>3, <2>4
    <2>6. Cardinality({g, h}) <= Cardinality(D) /\ Cardinality(D) \in Nat
        BY <1>2, <2>1, FS_Subset, FS_CardinalityType
    <2> QED
        BY <2>5, <2>6
<1>3. ASSUME NEW D, IsFiniteSet(D), NEW g \in D PROVE Cardinality(D) >= 1
    <2>1. Cardinality(D) # 0 /\ Cardinality(D) \in Nat
        BY <1>3, FS_EmptySet, FS_CardinalityType
    <2> QED
        BY <2>1
<1>4. \A g, h \in B : g = h
    BY <1>1, <1>2
<1>5. \A c, d \in C : c = d
    BY <1>1, <1>2
<1>6. B = {} \/ C = {}
    BY <1>1, <1>3
<1> QED
    BY <1>4, <1>5, <1>6

-----------------------------------------------------------------------------
(* What one step leaves of the invariant                                   *)

\* Nobody else is about a user who is not raced after the step.
LEMMA SeenKeepsApart ==
    ASSUME PInv, Seen
    PROVE  /\ Apart'
           /\ \A u \in Users \ raced' :
                 u \notin raced /\ AloneAbout(u) /\ WrittenFor(u) /\ AloneAbout(u)'
<1> SUFFICES ASSUME NEW u \in Users, u \notin raced'
             PROVE  u \notin raced /\ AloneAbout(u) /\ WrittenFor(u) /\ AloneAbout(u)'
    BY DEF Apart
<1>1. u \notin raced /\ ~Overlap(u)'
    BY DEF Seen
<1>2. AloneAbout(u) /\ WrittenFor(u)
    BY <1>1 DEF PInv, Apart, Written
<1>3. PICK B \in {Busy(u)'} : TRUE
    OBVIOUS
<1>4. PICK C \in {InHand(u)'} : TRUE
    OBVIOUS
<1>5. IsFiniteSet(Sockets \X Ways)
    <2>1. IsFiniteSet({"in"} \union {"out"})
        BY FS_Singleton, FS_Union
    <2>2. Ways = {"in"} \union {"out"}
        BY DEF Ways
    <2> QED
        BY <2>1, <2>2, PresenceAssumption, FS_Product
<1>6. IsFiniteSet(B) /\ IsFiniteSet(C)
    <2>1. B \subseteq Sockets \X Ways /\ C \subseteq Crons
        BY <1>3, <1>4 DEF Busy, InHand
    <2> QED
        BY <1>5, <2>1, PresenceAssumption, FS_Subset
<1>7. ~(Cardinality(B) + Cardinality(C) > 1)
    BY <1>1, <1>3, <1>4 DEF Overlap
<1>8. AloneAbout(u)'
    BY <1>3, <1>4, <1>6, <1>7, FewerThanTwo DEF AloneAbout
<1> QED
    BY <1>1, <1>2, <1>8

\* A step that leaves all that is about u leaves what is known of u.
LEMMA Untouched ==
    ASSUME NEW u, WrittenFor(u),
           key'[u] = key[u], u \in online' <=> u \in online,
           \A h \in Threads : (handler[h] # Resting \/ handler'[h] # Resting)
                              /\ (owner[h[1]] = u \/ owner'[h[1]] = u)
                              => owner'[h[1]] = owner[h[1]] /\ handler'[h] = handler[h],
           \A s \in Sockets : owner[s] = u \/ owner'[s] = u
                              => owner'[s] = owner[s] /\ arrived'[s] = arrived[s],
           \A c \in Crons : cron[c].user = u \/ cron'[c].user = u => cron'[c] = cron[c]
    PROVE  WrittenFor(u)'
<1>1. Busy(u)' = Busy(u) /\ \A h \in Busy(u) : handler'[h] = handler[h]
    BY DEF Busy, Threads
<1>2. InHand(u)' = InHand(u) /\ \A c \in InHand(u) : cron'[c] = cron[c]
    BY DEF InHand
<1>3. Open1(u)' = Open1(u)
    BY DEF Open1, IsOpen
<1>4. \A h \in Busy(u) : IsOpen(h[1])' <=> IsOpen(h[1])
    BY DEF Busy, IsOpen
<1>5. \A h \in Busy(u) : WrittenBy(h, u)'
    BY <1>1, <1>4 DEF WrittenFor, WrittenBy
<1> QED
    BY <1>1, <1>2, <1>3, <1>5 DEF WrittenFor

\* The handler h goes to t.
HandlerTo(h, t) ==
    /\ handler' = [handler EXCEPT ![h] = t]
    /\ UNCHANGED <<owner, arrived, cron>>

\* A handler's step leaves the shapes and who is known of others.
LEMMA HandlerKeeps ==
    ASSUME PInv, NEW h \in Threads, NEW t \in HandlerType, HandlerTo(h, t),
           NEW w \in Users, w = owner[h[1]],
           handler[h] # Resting,
           t.pc = "done" => t = Resting,
           t.pc \in {"set", "add"} => h[2] = "in", t.pc \in {"delete", "remove"} => h[2] = "out",
           key' \in [Users -> {"online", "idle", "away", "absent"}], online' \in SUBSET Users,
           \A u \in Users : u # w => key'[u] = key[u] /\ (u \in online' <=> u \in online),
           Seen, UNCHANGED friends,
           w \notin raced' => WrittenFor(w)'
    PROVE  PInv'
<1>1. handler'[h] = t /\ \A g \in Threads \ {h} : handler'[g] = handler[g]
    BY DEF PInv, Shapes, HandlerTo
<1>2. Shapes'
    BY <1>1 DEF PInv, Shapes, HandlerTo, IsOpen
<1>3. Numbered'
    BY DEF PInv, Numbered, HandlerTo, IsOpen
<1>4. Apart'
    BY SeenKeepsApart
<1>5. Written'
    <2>1. ASSUME NEW u \in Users, u \notin raced', u # w PROVE WrittenFor(u)'
        <3>1. WrittenFor(u)
            BY <2>1, SeenKeepsApart
        <3> QED
            BY <1>1, <2>1, <3>1, Untouched DEF HandlerTo
    <2> QED
        BY <2>1 DEF Written
<1>6. FInv'
    BY NextKeeps DEF PInv
<1> QED
    BY <1>2, <1>3, <1>4, <1>5, <1>6 DEF PInv

\* The job c goes to t.
JobTo(c, t) ==
    /\ cron' = [cron EXCEPT ![c] = t]
    /\ UNCHANGED <<owner, arrived, handler>>

\* A job's step leaves the shapes and what is known of others.
LEMMA JobKeeps ==
    ASSUME PInv, NEW c \in Crons, NEW t \in CronType, JobTo(c, t), NEW u \in Users,
           cron[c].user = u \/ t.user = u, cron[c].user \in {u, Nobody}, t.user \in {u, Nobody},
           t = Asleep <=> t.user = Nobody, t.pc = "asleep" \/ t.kind = "none" => t = Asleep,
           t.pc \in {"again", "mark"} => t.kind \in {"idle", "away"},
           key' \in [Users -> {"online", "idle", "away", "absent"}], online' \in SUBSET Users,
           \A v \in Users : v # u => key'[v] = key[v] /\ (v \in online' <=> v \in online),
           Seen, UNCHANGED friends,
           u \notin raced' => WrittenFor(u)'
    PROVE  PInv'
<1>1. cron'[c] = t /\ \A d \in Crons \ {c} : cron'[d] = cron[d]
    BY DEF PInv, Shapes, JobTo
<1>2. Shapes'
    BY <1>1 DEF PInv, Shapes, JobTo, IsOpen
<1>3. Numbered'
    BY DEF PInv, Numbered, JobTo, IsOpen
<1>4. Apart'
    BY SeenKeepsApart
<1>5. Written'
    <2>1. ASSUME NEW v \in Users, v \notin raced', v # u PROVE WrittenFor(v)'
        <3>1. WrittenFor(v) /\ v # Nobody
            BY <2>1, SeenKeepsApart, PresenceAssumption
        <3> QED
            BY <1>1, <2>1, <3>1, Untouched DEF JobTo
    <2> QED
        BY <2>1 DEF Written
<1>6. FInv'
    BY NextKeeps DEF PInv
<1> QED
    BY <1>2, <1>3, <1>4, <1>5, <1>6 DEF PInv

-----------------------------------------------------------------------------
(* handleConnection, handleDisconnect                                      *)

\* A handler at work is the only one about its user, and no job is.
LEMMA HandlerAlone ==
    ASSUME PInv, NEW h \in Threads, handler[h] # Resting, Seen,
           NEW w \in Users, w = owner[h[1]], w \notin raced'
    PROVE  /\ WrittenBy(h, w) /\ WrittenFor(w)
           /\ \A g \in Threads : owner[g[1]] = w /\ g # h => handler[g] = Resting
           /\ InHand(w) = {}
<1>1. AloneAbout(w) /\ WrittenFor(w)
    BY SeenKeepsApart
<1>2. h \in Busy(w)
    BY DEF Busy, Threads
<1> QED
    BY <1>1, <1>2 DEF AloneAbout, WrittenFor, Busy, Threads

\* What is known of a user after his only handler went to t.
LEMMA HandlerWrites ==
    ASSUME PInv, NEW h \in Threads, NEW t \in HandlerType, HandlerTo(h, t),
           handler[h] # Resting, Seen, NEW w \in Users, w = owner[h[1]], w \notin raced',
           t # Resting => WrittenBy(h, w)',
           key'[w] # "absent" /\ w \notin online' => t.pc = "add",
           t = Resting /\ Open1(w) = {} => key'[w] = "absent" /\ w \notin online'
    PROVE  WrittenFor(w)'
<1>1. handler'[h] = t /\ \A g \in Threads \ {h} : handler'[g] = handler[g]
    BY DEF PInv, Shapes, HandlerTo
<1>2. /\ \A g \in Threads : owner[g[1]] = w /\ g # h => handler[g] = Resting
      /\ InHand(w) = {}
    BY HandlerAlone
<1>3. Busy(w)' = IF t = Resting THEN {} ELSE {h}
    BY <1>1, <1>2 DEF Busy, Threads, HandlerTo
<1>4. InHand(w)' = {} /\ Open1(w)' = Open1(w)
    BY <1>2 DEF InHand, HandlerTo, Open1, IsOpen
<1>5. t.pc = "add" => t # Resting
    BY RestForm
<1> QED
    BY <1>1, <1>3, <1>4, <1>5 DEF WrittenFor

LEMMA SetKeyKeeps ==
    ASSUME PInv, NEW h \in Threads, SetKey(h), Seen, UNCHANGED friends PROVE PInv'
<1>0. PICK w \in Users : w = owner[h[1]]
    BY RestForm DEF SetKey, AddToSet, DeleteKey, RemoveFromSet, At1, PInv, Shapes, Threads
<1>1. /\ h[2] = "in" /\ handler[h].pc = "set" /\ handler[h] \in HandlerType
      /\ handler[h] # Resting
    BY RestForm DEF SetKey, At1, PInv, Shapes, Threads
<1>2. PICK t \in HandlerType : t = [handler[h] EXCEPT !.pc = "add"] /\ t.pc = "add"
    BY <1>1, HandlerGoes, "add" \in HandlerPoints DEF HandlerPoints
<1>3. HandlerTo(h, t) /\ online' = online /\ key' = [key EXCEPT ![w] = "online"]
    BY <1>0, <1>2 DEF HandlerTo, SetKey, Step
<1>4. /\ key' \in [Users -> {"online", "idle", "away", "absent"}] /\ online' \in SUBSET Users
      /\ key'[w] = "online" /\ \A u \in Users : u # w => key'[u] = key[u]
    BY <1>0, <1>1, <1>3 DEF PInv, Shapes
<1>5. handler'[h] = t /\ t # Resting
    BY <1>2, <1>3, RestForm DEF HandlerTo, PInv, Shapes
<1>6. ASSUME w \notin raced' PROVE WrittenFor(w)'
    <2>1. WrittenBy(h, w)
        BY <1>0, <1>1, <1>6, HandlerAlone
    <2>2. WrittenBy(h, w)'
        BY <1>0, <1>1, <1>2, <1>3, <1>5, <2>1 DEF WrittenBy, HandlerTo, IsOpen
    <2> QED
        BY <1>0, <1>1, <1>2, <1>3, <1>5, <1>6, <2>2, HandlerWrites
<1>7. \A u \in Users : u # w => key'[u] = key[u] /\ (u \in online' <=> u \in online)
    BY <1>3, <1>4
<1>8. HandlerTo(h, t)
    BY <1>3
<1> QED
    BY <1>0, <1>1, <1>2, <1>4, <1>6, <1>7, <1>8, HandlerKeeps

LEMMA AddToSetKeeps ==
    ASSUME PInv, NEW h \in Threads, AddToSet(h), Seen, UNCHANGED friends PROVE PInv'
<1>0. PICK w \in Users : w = owner[h[1]]
    BY RestForm DEF SetKey, AddToSet, DeleteKey, RemoveFromSet, At1, PInv, Shapes, Threads
<1>1. /\ h[2] = "in" /\ handler[h].pc = "add" /\ handler[h] \in HandlerType
      /\ handler[h] # Resting
    BY RestForm DEF AddToSet, At1, PInv, Shapes, Threads
<1>2. PICK t \in HandlerType : t = [handler[h] EXCEPT !.pc = "friends"] /\ t.pc = "friends"
    BY <1>1, HandlerGoes, "friends" \in HandlerPoints DEF HandlerPoints
<1>3. HandlerTo(h, t) /\ online' = online \union {w} /\ key' = key
    BY <1>0, <1>2 DEF HandlerTo, AddToSet, Step
<1>4. key' \in [Users -> {"online", "idle", "away", "absent"}] /\ online' \in SUBSET Users
    BY <1>0, <1>1, <1>3 DEF PInv, Shapes
<1>5. handler'[h] = t /\ t # Resting
    BY <1>2, <1>3, RestForm DEF HandlerTo, PInv, Shapes
<1>6. ASSUME w \notin raced' PROVE WrittenFor(w)'
    <2>1. WrittenBy(h, w)
        BY <1>0, <1>1, <1>6, HandlerAlone
    <2>2. WrittenBy(h, w)'
        BY <1>0, <1>1, <1>2, <1>3, <1>5, <2>1 DEF WrittenBy, HandlerTo, IsOpen
    <2> QED
        BY <1>0, <1>1, <1>2, <1>3, <1>5, <1>6, <2>2, HandlerWrites
<1> QED
    BY ZenonT(30), <1>0, <1>1, <1>2, <1>3, <1>4, <1>6, HandlerKeeps

LEMMA DeleteKeyKeeps ==
    ASSUME PInv, NEW h \in Threads, DeleteKey(h), Seen, UNCHANGED friends PROVE PInv'
<1>0. PICK w \in Users : w = owner[h[1]]
    BY RestForm DEF SetKey, AddToSet, DeleteKey, RemoveFromSet, At1, PInv, Shapes, Threads
<1>1. /\ h[2] = "out" /\ handler[h].pc = "delete" /\ handler[h] \in HandlerType
      /\ handler[h] # Resting
    BY RestForm DEF DeleteKey, At1, PInv, Shapes, Threads
<1>2. PICK t \in HandlerType : t = [handler[h] EXCEPT !.pc = "remove"] /\ t.pc = "remove"
    BY <1>1, HandlerGoes, "remove" \in HandlerPoints DEF HandlerPoints
<1>3. HandlerTo(h, t) /\ online' = online /\ key' = [key EXCEPT ![w] = "absent"]
    BY <1>0, <1>2 DEF HandlerTo, DeleteKey, Step
<1>4. /\ key' \in [Users -> {"online", "idle", "away", "absent"}] /\ online' \in SUBSET Users
      /\ key'[w] = "absent" /\ \A u \in Users : u # w => key'[u] = key[u]
    BY <1>0, <1>1, <1>3 DEF PInv, Shapes
<1>5. handler'[h] = t /\ t # Resting
    BY <1>2, <1>3, RestForm DEF HandlerTo, PInv, Shapes
<1>6. ASSUME w \notin raced' PROVE WrittenFor(w)'
    <2>1. WrittenBy(h, w)'
        BY <1>0, <1>1, <1>2, <1>4, <1>5 DEF WrittenBy, HandlerTo
    <2> QED
        BY <1>0, <1>1, <1>2, <1>3, <1>4, <1>5, <1>6, <2>1, HandlerWrites
<1>7. \A u \in Users : u # w => key'[u] = key[u] /\ (u \in online' <=> u \in online)
    BY <1>3, <1>4
<1>8. HandlerTo(h, t)
    BY <1>3
<1> QED
    BY <1>0, <1>1, <1>2, <1>4, <1>6, <1>7, <1>8, HandlerKeeps

LEMMA RemoveFromSetKeeps ==
    ASSUME PInv, NEW h \in Threads, RemoveFromSet(h), Seen, UNCHANGED friends PROVE PInv'
<1>0. PICK w \in Users : w = owner[h[1]]
    BY RestForm DEF SetKey, AddToSet, DeleteKey, RemoveFromSet, At1, PInv, Shapes, Threads
<1>1. /\ h[2] = "out" /\ handler[h].pc = "remove" /\ handler[h] \in HandlerType
      /\ handler[h] # Resting
    BY RestForm DEF RemoveFromSet, At1, PInv, Shapes, Threads
<1>2. PICK t \in HandlerType : t = [handler[h] EXCEPT !.pc = "friends"] /\ t.pc = "friends"
    BY <1>1, HandlerGoes, "friends" \in HandlerPoints DEF HandlerPoints
<1>3. HandlerTo(h, t) /\ online' = online \ {w} /\ key' = key
    BY <1>0, <1>2 DEF HandlerTo, RemoveFromSet, Step
<1>4. key' \in [Users -> {"online", "idle", "away", "absent"}] /\ online' \in SUBSET Users
    BY <1>3 DEF PInv, Shapes
<1>5. handler'[h] = t /\ t # Resting
    BY <1>2, <1>3, RestForm DEF HandlerTo, PInv, Shapes
<1>6. ASSUME w \notin raced' PROVE WrittenFor(w)'
    <2>1. key[w] = "absent"
        BY <1>0, <1>1, <1>6, HandlerAlone DEF WrittenBy
    <2>2. WrittenBy(h, w)'
        BY <1>0, <1>1, <1>2, <1>3, <1>5, <2>1 DEF WrittenBy, HandlerTo
    <2> QED
        BY <1>0, <1>1, <1>2, <1>3, <1>5, <1>6, <2>1, <2>2, HandlerWrites
<1> QED
    BY ZenonT(30), <1>0, <1>1, <1>2, <1>3, <1>4, <1>6, HandlerKeeps

\* Telling the friends writes nothing: the key and the set stay as the handler
\* left them, also when there is nobody left to tell.
LEMMA TellingKeeps ==
    ASSUME PInv, NEW h \in Threads, handler[h].pc \in {"friends", "tell"},
           NEW t \in HandlerType, t = Resting \/ t.pc = "tell", HandlerTo(h, t),
           UNCHANGED <<key, online>>, Seen, UNCHANGED friends
    PROVE  PInv'
<1>0. PICK w \in Users : w = owner[h[1]]
    BY RestForm DEF PInv, Shapes, Threads
<1>1. handler[h] # Resting /\ h[2] \in Ways /\ h[1] \in Sockets
    BY RestForm DEF Threads
<1>2. handler'[h] = t
    BY DEF HandlerTo, PInv, Shapes
<1>3. ASSUME w \notin raced' PROVE WrittenFor(w)'
    <2>1. WrittenBy(h, w) /\ WrittenFor(w)
        BY <1>0, <1>1, <1>3, HandlerAlone
    <2>2. t # Resting => WrittenBy(h, w)'
        BY <1>0, <1>1, <1>2, <2>1 DEF WrittenBy, HandlerTo, IsOpen
    <2>3. CASE h[2] = "in"
        <3>1. w \in online /\ h[1] \in Open1(w)
            BY <1>0, <1>1, <2>1, <2>3 DEF WrittenBy, Open1
        <3> QED
            BY <1>0, <1>1, <1>3, <2>2, <3>1, HandlerWrites
    <2>4. CASE h[2] = "out"
        <3>1. key[w] = "absent" /\ w \notin online
            BY <1>0, <1>1, <2>1, <2>4 DEF WrittenBy
        <3> QED
            BY <1>0, <1>1, <1>3, <2>2, <3>1, HandlerWrites
    <2> QED
        BY <1>0, <1>1, <2>3, <2>4 DEF Ways
<1>4. /\ key' \in [Users -> {"online", "idle", "away", "absent"}] /\ online' \in SUBSET Users
      /\ t.pc \notin {"set", "add", "delete", "remove"} /\ (t.pc = "done" => t = Resting)
    BY RestForm DEF PInv, Shapes
<1> QED
    BY <1>0, <1>1, <1>3, <1>4, HandlerKeeps

LEMMA ReadFriendsKeeps ==
    ASSUME PInv, NEW h \in Threads, ReadFriends(h), Seen, UNCHANGED friends PROVE PInv'
<1>1. owner[h[1]] \in Users /\ handler[h] \in HandlerType
    BY RestForm DEF ReadFriends, PInv, Shapes, Threads
<1>2. Befriended(owner[h[1]]) \in SUBSET Users
    <2>1. \A f \in Friendships : owner[h[1]] \in friendships[f] => friendships[f] \subseteq Users
        BY <1>1, PresenceAssumption DEF PInv, FInv, RInv, Types, Pairs, NoPair, Parted, Nobody
    <2> QED
        BY <2>1 DEF Befriended
<1>3. PICK t \in HandlerType :
        /\ t = IF Befriended(owner[h[1]]) = {} THEN Resting
               ELSE [pc |-> "tell", left |-> Befriended(owner[h[1]])]
        /\ t = Resting \/ t.pc = "tell"
    BY <1>1, <1>2, RestForm, HandlerBegins, "tell" \in HandlerPoints DEF HandlerPoints
<1>4. HandlerTo(h, t) /\ UNCHANGED <<key, online>> /\ handler[h].pc = "friends"
    BY <1>3 DEF ReadFriends, HandlerTo
<1> QED
    BY <1>3, <1>4, TellingKeeps

LEMMA TellFriendKeeps ==
    ASSUME PInv, NEW h \in Threads, NEW v \in Users, TellFriend(h, v), Seen, UNCHANGED friends
    PROVE  PInv'
<1>1. handler[h].pc = "tell" /\ handler[h] \in HandlerType
    BY DEF TellFriend, PInv, Shapes
<1>2. handler[h].left \ {v} \in SUBSET Users
    BY <1>1 DEF HandlerType
<1>3. PICK t \in HandlerType :
        /\ t = IF handler[h].left \ {v} = {} THEN Resting
               ELSE [pc |-> "tell", left |-> handler[h].left \ {v}]
        /\ t = Resting \/ t.pc = "tell"
    BY <1>1, <1>2, RestForm, HandlerBegins, "tell" \in HandlerPoints DEF HandlerPoints
<1>4. HandlerTo(h, t) /\ UNCHANGED <<key, online>>
    BY <1>3 DEF TellFriend, HandlerTo
<1> QED
    BY <1>1, <1>3, <1>4, TellingKeeps

\* A socket comes: its handler is the only one about the user, if he is not raced.
LEMMA ConnectKeeps ==
    ASSUME PInv, NEW s \in Sockets, NEW u \in Users, Connect(s, u), Seen, UNCHANGED friends
    PROVE  PInv'
<1> DEFINE h == <<s, "in">>
           came == {x \in Sockets : owner[x] # Nobody}
<1>1. /\ h \in Threads /\ owner[s] = Nobody /\ u # Nobody
      /\ \A g \in Threads : g[1] = s => handler[g] = Resting
    BY PresenceAssumption DEF Connect, Threads, Ways, PInv, Shapes
<1>2. PICK t \in HandlerType : t = [pc |-> "set", left |-> {}] /\ t.pc = "set"
    BY HandlerBegins, "set" \in HandlerPoints, {} \in SUBSET Users DEF HandlerPoints
<1>3. /\ owner' = [owner EXCEPT ![s] = u] /\ handler' = [handler EXCEPT ![h] = t]
      /\ arrived' = [arrived EXCEPT ![s] = 1 + Cardinality(came)]
      /\ UNCHANGED <<key, online, cron>>
    BY <1>2 DEF Connect
<1>4. IsFiniteSet(came) /\ Cardinality(came) \in Nat
    BY PresenceAssumption, FS_Subset, FS_CardinalityType
<1>5. PICK n \in Nat : n = Cardinality(came)
    BY <1>4
<1>6. /\ \A x \in Sockets : owner'[x] = IF x = s THEN u ELSE owner[x]
      /\ \A x \in Sockets : arrived'[x] = IF x = s THEN 1 + n ELSE arrived[x]
      /\ \A g \in Threads : handler'[g] = IF g = h THEN t ELSE handler[g]
      /\ owner' \in [Sockets -> Users \union {Nobody}] /\ arrived' \in [Sockets -> Nat]
      /\ handler' \in [Threads -> HandlerType]
    BY <1>1, <1>3, <1>5 DEF PInv, Shapes
<1>7. Shapes'
    BY <1>1, <1>2, <1>3, <1>6 DEF PInv, Shapes, IsOpen, Threads
<1>8. Numbered'
    <2>1. {x \in Sockets : owner'[x] # Nobody} = came \union {s}
        BY <1>1, <1>6
    <2>2. Cardinality(came \union {s}) = n + 1
        BY <1>1, <1>4, <1>5, FS_AddElement
    <2>3. \A x \in Sockets : arrived[x] \in Nat /\ arrived[x] <= n
        BY <1>5 DEF PInv, Shapes, Numbered
    <2>4. Cardinality({x \in Sockets : owner'[x] # Nobody}) = n + 1
        BY <2>1, <2>2
    <2>5. ASSUME NEW x \in Sockets PROVE arrived'[x] <= n + 1
        BY <1>5, <1>6, <2>3, x = s \/ x # s
    <2>6. \A x, y \in Sockets : IsOpen(x)' /\ IsOpen(y)' /\ arrived'[x] = arrived'[y] => x = y
        BY <1>6, <2>3 DEF PInv, Numbered, IsOpen
    <2> QED
        BY <2>4, <2>5, <2>6 DEF Numbered
<1>9. Apart'
    BY SeenKeepsApart
<1>10. Written'
    <2>1. ASSUME NEW v \in Users, v \notin raced', v # u PROVE WrittenFor(v)'
        <3>1. WrittenFor(v) /\ v # Nobody
            BY <2>1, SeenKeepsApart, PresenceAssumption
        <3>2. /\ \A g \in Threads : (handler[g] # Resting \/ handler'[g] # Resting)
                     /\ (owner[g[1]] = v \/ owner'[g[1]] = v)
                     => owner'[g[1]] = owner[g[1]] /\ handler'[g] = handler[g]
              /\ \A x \in Sockets : owner[x] = v \/ owner'[x] = v
                     => owner'[x] = owner[x] /\ arrived'[x] = arrived[x]
            BY <1>1, <1>6, <2>1, <3>1 DEF Threads
        <3> QED
            BY <1>3, <3>1, <3>2, Untouched
    <2>2. ASSUME u \notin raced' PROVE WrittenFor(u)'
        <3>1. /\ WrittenFor(u) /\ \A g, f \in Busy(u)' : g = f
              /\ Busy(u)' = {} \/ InHand(u)' = {}
            BY <2>2, SeenKeepsApart DEF AloneAbout
        <3>2. h \in Busy(u)' /\ IsOpen(s)'
            BY <1>1, <1>2, <1>5, <1>6, RestForm DEF Busy, Threads, IsOpen
        <3>3. Busy(u) = {} /\ Busy(u)' = {h} /\ InHand(u)' = {}
            <4>1. \A g \in Busy(u) : g \in Busy(u)' /\ g # h
                BY <1>1, <1>6 DEF Busy, Threads
            <4> QED
                BY <3>1, <3>2, <4>1
        <3>4. WrittenBy(h, u)'
            BY <1>1, <1>2, <1>6, <3>2 DEF WrittenBy
        <3> QED
            BY <1>3, <3>1, <3>3, <3>4 DEF WrittenFor
    <2> QED
        BY <2>1, <2>2 DEF Written
<1>11. FInv'
    BY NextKeeps DEF PInv
<1> QED
    BY <1>7, <1>8, <1>9, <1>10, <1>11 DEF PInv

\* A socket goes: the key and the set are left to its handler.
LEMMA DisconnectKeeps ==
    ASSUME PInv, NEW s \in Sockets, Disconnect(s), Seen, UNCHANGED friends
    PROVE  PInv'
<1> DEFINE h == <<s, "out">>
<1>1. /\ h \in Threads /\ owner[s] \in Users /\ arrived[s] # 0
    BY DEF Disconnect, Threads, Ways, PInv, Shapes, IsOpen
<1>2. PICK t \in HandlerType : t = [pc |-> "delete", left |-> {}] /\ t.pc = "delete"
    BY HandlerBegins, "delete" \in HandlerPoints, {} \in SUBSET Users DEF HandlerPoints
<1>3. /\ handler' = [handler EXCEPT ![h] = t] /\ arrived' = [arrived EXCEPT ![s] = 0]
      /\ UNCHANGED <<key, online, cron, owner>>
    BY <1>2 DEF Disconnect
<1>4. /\ \A x \in Sockets : arrived'[x] = IF x = s THEN 0 ELSE arrived[x]
      /\ \A g \in Threads : handler'[g] = IF g = h THEN t ELSE handler[g]
      /\ arrived' \in [Sockets -> Nat] /\ handler' \in [Threads -> HandlerType]
    BY <1>1, <1>3 DEF PInv, Shapes
<1>5. Shapes'
    BY <1>1, <1>2, <1>3, <1>4, PresenceAssumption DEF PInv, Shapes, IsOpen
<1>6. Numbered'
    <2>1. PICK n \in Nat : n = Cardinality({x \in Sockets : owner[x] # Nobody})
        BY PresenceAssumption, FS_Subset, FS_CardinalityType
    <2>2. \A x \in Sockets : arrived'[x] <= n
        BY <1>4, <2>1 DEF PInv, Numbered, Shapes
    <2> QED
        BY <1>3, <1>4, <2>1, <2>2 DEF PInv, Numbered, IsOpen
<1>7. Apart'
    BY SeenKeepsApart
<1>8. Written'
    <2>1. ASSUME NEW v \in Users, v \notin raced', v # owner[s] PROVE WrittenFor(v)'
        <3>1. WrittenFor(v)
            BY <2>1, SeenKeepsApart
        <3>2. /\ \A g \in Threads : owner[g[1]] = v => handler'[g] = handler[g]
              /\ \A x \in Sockets : owner[x] = v => arrived'[x] = arrived[x]
            BY <1>1, <1>4, <2>1 DEF Threads
        <3> QED
            BY <1>3, <3>1, <3>2, Untouched
    <2>2. ASSUME NEW u \in Users, u = owner[s], u \notin raced' PROVE WrittenFor(u)'
        <3>1. /\ WrittenFor(u) /\ AloneAbout(u) /\ \A g, f \in Busy(u)' : g = f
              /\ Busy(u)' = {} \/ InHand(u)' = {}
            BY <2>2, SeenKeepsApart DEF AloneAbout
        <3>2. h \in Busy(u)'
            BY <1>1, <1>2, <1>3, <1>4, <2>2, RestForm DEF Busy, Threads
        <3>3. Busy(u)' = {h} /\ InHand(u)' = {}
            BY <3>1, <3>2
        <3>4. Busy(u) \subseteq {h}
            <4>1. \A g \in Busy(u) : g # h => g \in Busy(u)'
                BY <1>3, <1>4 DEF Busy, Threads
            <4> QED
                BY <3>3, <4>1
        <3>5. ASSUME key[u] # "absent", u \notin online PROVE FALSE
            <4>1. PICK g \in Busy(u) : handler[g].pc = "add"
                BY <3>1, <3>5 DEF WrittenFor
            <4>2. g[2] = "in" /\ h[2] = "out" /\ g = h
                BY <3>4, <4>1 DEF PInv, Shapes, Busy, Threads
            <4> QED
                BY <4>2
        <3>6. WrittenBy(h, u)'
            BY <1>1, <1>2, <1>4 DEF WrittenBy
        <3> QED
            BY <1>3, <3>3, <3>5, <3>6 DEF WrittenFor
    <2> QED
        BY <1>3, <2>1, <2>2 DEF Written
<1>9. FInv'
    BY NextKeeps DEF PInv
<1> QED
    BY <1>5, <1>6, <1>7, <1>8, <1>9 DEF PInv

-----------------------------------------------------------------------------
(* Scheduled jobs                                                          *)

\* A job at work is the only one about its user, and no handler is.
LEMMA JobAlone ==
    ASSUME PInv, NEW c \in Crons, cron[c].pc # "asleep"
    PROVE  \E u \in Users :
             /\ cron[c].user = u /\ u # Nobody
             /\ Seen /\ u \notin raced' =>
                  /\ WrittenFor(u) /\ u \in online /\ Busy(u) = {}
                  /\ cron[c].pc = "remove" => key[u] = "absent"
                  /\ \A d \in Crons : cron[d].user = u => d = c
<1>1. cron[c].user \in Users /\ cron[c].user # Nobody
    BY RestForm, PresenceAssumption DEF PInv, Shapes, CronType
<1>2. PICK u \in Users : u = cron[c].user
    BY <1>1
<1>3. ASSUME Seen, u \notin raced'
      PROVE  /\ WrittenFor(u) /\ u \in online /\ Busy(u) = {}
             /\ cron[c].pc = "remove" => key[u] = "absent"
             /\ \A d \in Crons : cron[d].user = u => d = c
    <2>1. AloneAbout(u) /\ WrittenFor(u) /\ c \in InHand(u)
        BY <1>2, <1>3, SeenKeepsApart DEF InHand
    <2> QED
        BY <2>1 DEF AloneAbout, WrittenFor, InHand
<1> QED
    BY <1>1, <1>2, <1>3

\* What is known of a user after the only job about him went to t.
LEMMA JobWrites ==
    ASSUME PInv, NEW c \in Crons, NEW t \in CronType, JobTo(c, t), NEW u \in Users,
           t.user \in {u, Nobody}, Busy(u) = {}, WrittenFor(u), u \in online,
           \A d \in Crons : cron[d].user = u => d = c,
           t.user = u => u \in online' /\ (t.pc = "remove" => key'[u] = "absent"),
           u \in online' \/ key'[u] = "absent",
           Open1(u) # {}
    PROVE  WrittenFor(u)'
<1>1. cron'[c] = t /\ \A d \in Crons \ {c} : cron'[d] = cron[d]
    BY DEF PInv, Shapes, JobTo
<1>2. Busy(u)' = {} /\ Open1(u)' = Open1(u)
    BY DEF Busy, Threads, JobTo, Open1, IsOpen
<1>3. \A d \in InHand(u)' : cron'[d] = t /\ t.user = u
    BY <1>1 DEF InHand
<1> QED
    BY <1>2, <1>3 DEF WrittenFor

LEMMA InspectKeeps ==
    ASSUME PInv, NEW c \in Crons, Inspect(c) \/ ReadAgain(c), Seen, UNCHANGED friends
    PROVE  PInv'
<1>1. /\ cron[c].pc \in {"read", "again"} /\ cron[c] \in CronType
      /\ UNCHANGED <<key, online, owner, arrived, handler>>
    BY DEF Inspect, ReadAgain, PInv, Shapes
<1>2. PICK u \in Users :
        /\ cron[c].user = u /\ u # Nobody
        /\ u \notin raced' =>
             /\ WrittenFor(u) /\ u \in online /\ Busy(u) = {}
             /\ \A d \in Crons : cron[d].user = u => d = c
    BY <1>1, JobAlone
<1>3. \E t \in CronType :
        /\ JobTo(c, t)
        /\ \/ t = Asleep
           \/ /\ t.user = u /\ t.pc \in {"again", "mark", "remove"}
              /\ t.pc = "remove" => key[u] = "absent"
              /\ t.pc \in {"again", "mark"} => t.kind \in {"idle", "away"}
              /\ t.kind # "none"
    <2>1. CASE Inspect(c) /\ cron[c].kind = "cleanup"
        <3>1. PICK g \in BOOLEAN : g <=> key[u] = "absent"
            OBVIOUS
        <3>2. PICK t \in CronType : /\ t = IF g THEN [cron[c] EXCEPT !.pc = "remove"] ELSE Asleep
                                    /\ \/ t = Asleep
                                       \/ /\ g /\ t.pc = "remove" /\ t.user = u
                                          /\ t.kind = cron[c].kind
            BY ZenonT(30), <1>1, <1>2, RestForm, JobGoes, "remove" \in CronPoints DEF CronPoints
        <3>3. JobTo(c, t)
            BY <1>1, <1>2, <2>1, <3>1, <3>2 DEF Inspect, Then, JobTo
        <3> QED
            BY <2>1, <3>1, <3>2, <3>3
    <2>2. CASE Inspect(c) /\ cron[c].kind # "cleanup"
        <3>1. PICK g \in BOOLEAN : g <=> (/\ StillUp(cron[c].kind, key[cron[c].user])
                                          /\ MayBeSeenAt(cron[c].kind))
            OBVIOUS
        <3>2. PICK r \in CronType : /\ r = [cron[c] EXCEPT !.pc = "again"] /\ r.pc = "again"
                                    /\ r.user = u /\ r.kind = cron[c].kind
            BY ZenonT(30), <1>1, <1>2, JobGoes, "again" \in CronPoints DEF CronPoints
        <3> DEFINE t == IF g THEN r ELSE Asleep
        <3>3. JobTo(c, t) /\ t \in CronType
            BY <1>1, <2>2, RestForm, <3>1, <3>2 DEF Inspect, Then, JobTo
        <3>4. cron[c].kind \in {"idle", "away"}
            BY <1>1, <1>2, <2>2, RestForm DEF PInv, Shapes, Inspect, Kinds, CronType
        <3> QED
            BY <3>2, <3>3, <3>4
    <2>3. CASE ReadAgain(c)
        <3>1. PICK g \in BOOLEAN : g <=> StillUp(cron[c].kind, key[cron[c].user])
            OBVIOUS
        <3>2. PICK r \in CronType : /\ r = [cron[c] EXCEPT !.pc = "mark"] /\ r.pc = "mark"
                                    /\ r.user = u /\ r.kind = cron[c].kind
            BY ZenonT(30), <1>1, <1>2, JobGoes, "mark" \in CronPoints DEF CronPoints
        <3> DEFINE t == IF g THEN r ELSE Asleep
        <3>3. JobTo(c, t) /\ t \in CronType
            BY <1>1, <2>3, RestForm, <3>1, <3>2 DEF ReadAgain, Then, JobTo
        <3>4. cron[c].kind \in {"idle", "away"}
            BY <2>3 DEF PInv, Shapes, ReadAgain
        <3> QED
            BY <3>2, <3>3, <3>4
    <2> QED
        BY <2>1, <2>2, <2>3
<1>4. PICK t \in CronType :
        /\ JobTo(c, t)
        /\ t.user \in {u, Nobody} /\ (t = Asleep <=> t.user = Nobody)
        /\ t.pc = "asleep" \/ t.kind = "none" => t = Asleep
        /\ t.user = u /\ t.pc = "remove" => key[u] = "absent"
        /\ t.pc \in {"again", "mark"} => t.kind \in {"idle", "away"}
    BY <1>2, <1>3, RestForm
<1>5. ASSUME u \notin raced' PROVE WrittenFor(u)'
    <2>1. /\ WrittenFor(u) /\ u \in online /\ Busy(u) = {}
          /\ \A d \in Crons : cron[d].user = u => d = c
        BY <1>2, <1>5
    <2>2. Open1(u) # {}
        BY <2>1 DEF WrittenFor
    <2> QED
        BY <1>1, <1>4, <2>1, <2>2, JobWrites
<1>6. /\ key' \in [Users -> {"online", "idle", "away", "absent"}] /\ online' \in SUBSET Users
      /\ \A v \in Users : v # u => key'[v] = key[v] /\ (v \in online' <=> v \in online)
    BY <1>1 DEF PInv, Shapes
<1> QED
    BY <1>2, <1>4, <1>5, <1>6, JobKeeps

LEMMA MarkKeeps ==
    ASSUME PInv, NEW c \in Crons, Mark(c), Seen, UNCHANGED friends PROVE PInv'
<1>1. /\ cron[c].pc = "mark" /\ cron[c] \in CronType /\ cron[c].kind \in {"idle", "away"}
      /\ UNCHANGED <<online, owner, arrived, handler>>
    BY DEF Mark, PInv, Shapes
<1>2. PICK u \in Users :
        /\ cron[c].user = u /\ u # Nobody
        /\ u \notin raced' =>
             /\ WrittenFor(u) /\ u \in online /\ Busy(u) = {}
             /\ \A d \in Crons : cron[d].user = u => d = c
    BY <1>1, JobAlone
<1>3. PICK t \in CronType : /\ t = [cron[c] EXCEPT !.pc = "list"] /\ t.pc = "list"
                            /\ t.user = u /\ t.kind \in {"idle", "away"}
    BY <1>1, <1>2, JobGoes, "list" \in CronPoints DEF CronPoints
<1>4. JobTo(c, t) /\ key' = [key EXCEPT ![u] = cron[c].kind]
    BY <1>1, <1>2, <1>3 DEF Mark, JobTo
<1>5. /\ key' \in [Users -> {"online", "idle", "away", "absent"}] /\ online' \in SUBSET Users
      /\ \A v \in Users : v # u => key'[v] = key[v] /\ (v \in online' <=> v \in online)
    BY <1>1, <1>4 DEF PInv, Shapes
<1>6. t # Asleep
    BY <1>3, RestForm
<1>7. ASSUME u \notin raced' PROVE WrittenFor(u)'
    <2>1. /\ WrittenFor(u) /\ u \in online /\ Busy(u) = {}
          /\ \A d \in Crons : cron[d].user = u => d = c
        BY <1>2, <1>7
    <2>2. Open1(u) # {} /\ u \in online'
        BY <1>1, <2>1 DEF WrittenFor
    <2>3. JobTo(c, t)
        BY <1>4
    <2> QED
        BY <1>3, <2>1, <2>2, <2>3, JobWrites
<1>8. /\ JobTo(c, t) /\ cron[c].user = u /\ t.user = u /\ u # Nobody
      /\ t.pc = "list" /\ t.kind # "none"
    BY <1>2, <1>3, <1>4
<1> QED
    BY <1>5, <1>6, <1>7, <1>8, JobKeeps

LEMMA ListKeeps ==
    ASSUME PInv, NEW c \in Crons, List(c), Seen, UNCHANGED friends PROVE PInv'
<1>1. /\ cron[c].pc = "list"
      /\ UNCHANGED <<key, owner, arrived, handler>> /\ cron' = [cron EXCEPT ![c] = Asleep]
    BY DEF List
<1>2. PICK u \in Users :
        /\ cron[c].user = u /\ u # Nobody
        /\ u \notin raced' =>
             /\ WrittenFor(u) /\ u \in online /\ Busy(u) = {}
             /\ \A d \in Crons : cron[d].user = u => d = c
    BY <1>1, JobAlone
<1>3. PICK t \in CronType : t = Asleep /\ t.pc = "asleep" /\ t.user = Nobody
    BY RestForm
<1>4. JobTo(c, t) /\ online' = online \union {u}
    BY <1>1, <1>2, <1>3 DEF List, JobTo
<1>5. /\ key' \in [Users -> {"online", "idle", "away", "absent"}] /\ online' \in SUBSET Users
      /\ \A v \in Users : v # u => key'[v] = key[v] /\ (v \in online' <=> v \in online)
    BY <1>1, <1>4 DEF PInv, Shapes
<1>6. ASSUME u \notin raced' PROVE WrittenFor(u)'
    <2>1. /\ WrittenFor(u) /\ u \in online /\ Busy(u) = {}
          /\ \A d \in Crons : cron[d].user = u => d = c
        BY <1>2, <1>6
    <2>2. Open1(u) # {} /\ u \in online'
        BY <1>4, <2>1 DEF WrittenFor
    <2> QED
        BY <1>2, <1>3, <1>4, <2>1, <2>2, JobWrites
<1> QED
    BY <1>2, <1>3, <1>4, <1>5, <1>6, JobKeeps

LEMMA CleanUpKeeps ==
    ASSUME PInv, NEW c \in Crons, CleanUp(c), Seen, UNCHANGED friends PROVE PInv'
<1>1. /\ cron[c].pc = "remove"
      /\ UNCHANGED <<key, owner, arrived, handler>> /\ cron' = [cron EXCEPT ![c] = Asleep]
    BY DEF CleanUp
<1>2. PICK u \in Users :
        /\ cron[c].user = u /\ u # Nobody
        /\ u \notin raced' =>
             /\ WrittenFor(u) /\ u \in online /\ Busy(u) = {}
             /\ key[u] = "absent"
             /\ \A d \in Crons : cron[d].user = u => d = c
    BY <1>1, JobAlone
<1>3. PICK t \in CronType : t = Asleep /\ t.pc = "asleep" /\ t.user = Nobody
    BY RestForm
<1>4. JobTo(c, t) /\ online' = online \ {u}
    BY <1>1, <1>2, <1>3 DEF CleanUp, JobTo
<1>5. /\ key' \in [Users -> {"online", "idle", "away", "absent"}] /\ online' \in SUBSET Users
      /\ \A v \in Users : v # u => key'[v] = key[v] /\ (v \in online' <=> v \in online)
    BY <1>1, <1>4 DEF PInv, Shapes
<1>6. ASSUME u \notin raced' PROVE WrittenFor(u)'
    <2>1. /\ WrittenFor(u) /\ u \in online /\ Busy(u) = {} /\ key'[u] = "absent"
          /\ \A d \in Crons : cron[d].user = u => d = c
        BY <1>1, <1>2, <1>6
    <2>2. Open1(u) # {}
        BY <2>1 DEF WrittenFor
    <2> QED
        BY <1>2, <1>3, <1>4, <2>1, <2>2, JobWrites
<1> QED
    BY <1>2, <1>3, <1>4, <1>5, <1>6, JobKeeps

\* A job begins with a user it has read in the set.
LEMMA WakeKeeps ==
    ASSUME PInv, NEW c \in Crons, NEW kind \in Kinds, NEW u \in Users, Wake(c, kind, u), Seen,
           UNCHANGED friends
    PROVE  PInv'
<1>1. /\ cron[c] = Asleep /\ u \in online /\ u # Nobody
      /\ UNCHANGED <<key, online, owner, arrived, handler>>
    BY PresenceAssumption DEF Wake
<1>2. PICK t \in CronType : /\ t = [kind |-> kind, pc |-> "read", user |-> u]
                            /\ t.pc = "read" /\ t.user = u /\ t.kind # "none"
    BY ZenonT(30), JobBegins
<1>3. JobTo(c, t)
    BY <1>1, <1>2 DEF Wake, JobTo
<1>4. t # Asleep /\ cron[c].user = Nobody
    BY <1>1, <1>2, RestForm
<1>5. ASSUME u \notin raced' PROVE WrittenFor(u)'
    <2>1. cron'[c] = t
        BY <1>3 DEF JobTo, PInv, Shapes
    <2>2. /\ WrittenFor(u) /\ c \in InHand(u)' /\ (Busy(u)' = {} \/ InHand(u)' = {})
          /\ \A d \in InHand(u)' : d = c
        BY <1>2, <1>5, <2>1, SeenKeepsApart DEF AloneAbout, InHand
    <2>3. Busy(u) = {} /\ Busy(u)' = {} /\ Open1(u)' = Open1(u)
        BY <1>1, <2>2 DEF Busy, Open1, IsOpen
    <2> QED
        BY <1>1, <1>2, <2>1, <2>2, <2>3 DEF WrittenFor
<1>6. /\ key' \in [Users -> {"online", "idle", "away", "absent"}] /\ online' \in SUBSET Users
      /\ \A v \in Users : v # u => key'[v] = key[v] /\ (v \in online' <=> v \in online)
    BY <1>1 DEF PInv, Shapes
<1> QED
    BY <1>1, <1>2, <1>3, <1>4, <1>5, <1>6, JobKeeps

-----------------------------------------------------------------------------
(* Time and failure                                                        *)

LEMMA ExpireKeeps ==
    ASSUME PInv, NEW u \in Users, Expire(u), Seen, UNCHANGED friends PROVE PInv'
<1>1. /\ key' = [key EXCEPT ![u] = "absent"]
      /\ UNCHANGED <<online, owner, arrived, handler, cron>>
    BY DEF Expire
<1>2. \A v \in Users : key'[v] = IF v = u THEN "absent" ELSE key[v]
    BY <1>1 DEF PInv, Shapes
<1>3. Shapes'
    BY <1>1 DEF PInv, Shapes, IsOpen
<1>4. Numbered'
    BY <1>1 DEF PInv, Numbered, IsOpen
<1>5. Apart'
    BY SeenKeepsApart
<1>6. Written'
    <2> SUFFICES ASSUME NEW v \in Users, v \notin raced' PROVE WrittenFor(v)'
        BY DEF Written
    <2>1. WrittenFor(v)
        BY SeenKeepsApart
    <2>2. /\ Busy(v)' = Busy(v) /\ InHand(v)' = InHand(v) /\ Open1(v)' = Open1(v)
          /\ \A s \in Sockets : IsOpen(s)' <=> IsOpen(s)
        BY <1>1 DEF Busy, InHand, Open1, IsOpen
    <2>3. \A h \in Busy(v) : WrittenBy(h, v)'
        BY <1>1, <1>2, <2>1, <2>2 DEF WrittenFor, WrittenBy, Busy
    <2> QED
        BY <1>1, <1>2, <2>1, <2>2, <2>3 DEF WrittenFor
<1>7. FInv'
    BY NextKeeps DEF PInv
<1> QED
    BY <1>3, <1>4, <1>5, <1>6, <1>7 DEF PInv

\* The server stops: those who were not connected are as they were.
LEMMA CrashKeeps ==
    ASSUME PInv, Crash,
           raced' = raced \union {u \in Users : Open1(u) # {} \/ Busy(u) # {}},
           job' = [h \in Jobs |-> Idle],
           unsaved' = unsaved \union UNION {HalfDone(h) : h \in Jobs},
           UNCHANGED <<requests, friendships, shown, calls, asked, agreed, crossed, reopened, revived>>
    PROVE  PInv'
<1>1. /\ \A s \in Sockets : ~IsOpen(s)'
      /\ \A h \in Threads : handler'[h] = Resting
      /\ \A c \in Crons : cron'[c] = Asleep
      /\ UNCHANGED <<key, online, owner>>
    BY DEF Crash, IsOpen, Threads
<1>2. /\ arrived' \in [Sockets -> Nat] /\ handler' \in [Threads -> HandlerType]
      /\ cron' \in [Crons -> CronType]
    BY RestForm DEF Crash, Threads
<1>3. Shapes'
    BY <1>1, <1>2, RestForm DEF PInv, Shapes
<1>4. Numbered'
    <2>1. PICK n \in Nat : n = Cardinality({x \in Sockets : owner[x] # Nobody})
        BY PresenceAssumption, FS_Subset, FS_CardinalityType
    <2>2. \A s \in Sockets : arrived'[s] <= n
        BY DEF Crash
    <2> QED
        BY <1>1, <2>1, <2>2 DEF Numbered
<1>5. \A u \in Users : Busy(u)' = {} /\ InHand(u)' = {}
    BY <1>1, RestForm, PresenceAssumption DEF Busy, InHand, Threads
<1>6. Apart'
    BY <1>5 DEF Apart, AloneAbout
<1>7. Written'
    <2> SUFFICES ASSUME NEW u \in Users, u \notin raced' PROVE WrittenFor(u)'
        BY DEF Written
    <2>1. WrittenFor(u) /\ Busy(u) = {} /\ Open1(u) = {}
        BY DEF PInv, Written
    <2> QED
        BY <1>1, <1>5, <2>1 DEF WrittenFor
<1>8. RInv'
    <2>1. job' \in [Jobs -> JobType]
        BY IdleForm
    <2>2. Carried' /\ Crossed' /\ Looked'
        BY IdleForm DEF Carried, Crossed, Meet, Looked, Knows
    <2>3. Types' /\ TwoSided' /\ Single'
        BY <2>1 DEF PInv, FInv, RInv, Types, TwoSided, Single, OpenFor, Open, Used
    <2> QED
        BY <2>2, <2>3 DEF RInv
\* The answers that were about to be saved are noted.
<1>9. SInv'
    <2>1. Rooted' /\ Agreeing' /\ Strangers'
        BY IdleForm DEF Rooted, About, Agreeing, SameRequest, Strangers, Stranger
    <2>2. Excused \subseteq Excused'
        BY DEF Excused
    <2>3. ASSUME NEW r \in Requests, Open(r), SavedBySome(r)
          PROVE  {requests[r].from, requests[r].to} \in Excused'
        <3>1. PICK h \in Jobs : Saves(job[h], r)
            BY <2>3 DEF SavedBySome
        <3>2. HasRow(job[h]) /\ job[h].req = r /\ About(job[h]) /\ At(h, "answer", "save")
            BY <3>1 DEF Saves, HasRow, At, PInv, FInv, SInv, Rooted
        <3>3. Ends(requests[r]) = Ends(job[h].row)
            BY <2>3, <3>2 DEF About, Open, Used
        <3>4. HalfDone(h) = {{requests[r].from, requests[r].to}}
            BY <3>1, <3>2, <3>3 DEF HalfDone, Saves, Ends
        <3> QED
            BY <3>4 DEF Excused
    <2>4. Settled'
        BY <2>2, <2>3 DEF PInv, FInv, SInv, Settled, OpenFor, Open, Used
    <2>5. Backed'
        BY <2>2, <2>3 DEF PInv, FInv, SInv, Backed, Open, Used
    <2>6. FriendsAgreed'
        BY <2>2 DEF PInv, FInv, SInv, FriendsAgreed
    <2> QED
        BY <2>1, <2>4, <2>5, <2>6 DEF SInv
<1> QED
    BY <1>3, <1>4, <1>6, <1>7, <1>8, <1>9 DEF PInv, FInv

-----------------------------------------------------------------------------
(* The theorems                                                            *)

LEMMA PInitHolds == PInit => PInv
<1> SUFFICES ASSUME PInit PROVE PInv
    OBVIOUS
<1>1. FInv
    BY FInitHolds DEF PInit
<1>2. /\ \A h \in Threads : handler[h] = Resting
      /\ \A c \in Crons : cron[c] = Asleep
      /\ \A s \in Sockets : /\ owner[s] = IF s = Home THEN Resident ELSE Nobody
                            /\ arrived[s] = IF s = Home THEN 1 ELSE 0
      /\ \A u \in Users : key[u] = "absent"
      /\ online = {} /\ Resident # Nobody
    BY PresenceAssumption DEF PInit, Threads
<1>3. /\ key \in [Users -> {"online", "idle", "away", "absent"}]
      /\ owner \in [Sockets -> Users \union {Nobody}]
      /\ arrived \in [Sockets -> Nat]
      /\ handler \in [Threads -> HandlerType] /\ cron \in [Crons -> CronType]
    BY RestForm, PresenceAssumption DEF PInit, Threads
<1>4. Shapes
    BY <1>2, <1>3, RestForm DEF Shapes, IsOpen
<1>5. Numbered
    <2>1. {s \in Sockets : owner[s] # Nobody} = {Home}
        BY <1>2, PresenceAssumption
    <2>2. Cardinality({s \in Sockets : owner[s] # Nobody}) = 1
        BY <2>1, FS_Singleton
    <2>3. \A s \in Sockets : arrived[s] <= 1
        BY <1>2
    <2> QED
        BY <1>2, <2>2, <2>3 DEF Numbered, IsOpen
<1>6. \A u \in Users : Busy(u) = {} /\ InHand(u) = {}
    BY <1>2, RestForm, PresenceAssumption DEF Busy, InHand, Threads
<1> QED
    BY <1>1, <1>2, <1>4, <1>5, <1>6 DEF PInv, Apart, AloneAbout, Written, WrittenFor

LEMMA PNextKeeps == PInv /\ [PNext]_<<friends, presence>> => PInv'
<1> SUFFICES ASSUME PInv, [PNext]_<<friends, presence>> PROVE PInv'
    OBVIOUS
<1>1. ASSUME PStep, Seen, UNCHANGED friends PROVE PInv'
    <2>1. ASSUME NEW h \in Sockets \X Ways, Serve1(h) PROVE PInv'
        <3>1. h \in Threads
            BY DEF Threads
        <3> QED
            BY <1>1, <2>1, <3>1, SetKeyKeeps, AddToSetKeeps, DeleteKeyKeeps, RemoveFromSetKeeps,
               ReadFriendsKeeps, TellFriendKeeps DEF Serve1
    <2>2. ASSUME NEW c \in Crons, Run(c) PROVE PInv'
        BY <1>1, <2>2, InspectKeeps, MarkKeeps, ListKeeps, CleanUpKeeps DEF Run
    <2> QED
        BY <1>1, <2>1, <2>2, ConnectKeeps, DisconnectKeeps, WakeKeeps, ExpireKeeps DEF PStep
<1>2. ASSUME [FNext]_friends, UNCHANGED <<key, online, owner, arrived, handler, cron, raced>>
      PROVE  PInv'
    <2>1. FInv'
        BY <1>2, NextKeeps DEF PInv
    <2>2. Shapes' /\ Numbered'
        BY <1>2 DEF PInv, Shapes, Numbered, IsOpen
    <2>3. \A u : Busy(u)' = Busy(u) /\ InHand(u)' = InHand(u) /\ Open1(u)' = Open1(u)
        BY <1>2 DEF Busy, InHand, Open1, IsOpen
    <2>4. Apart' /\ Written'
        BY <1>2, <2>3 DEF PInv, Apart, AloneAbout, Written, WrittenFor, WrittenBy, IsOpen
    <2> QED
        BY <2>1, <2>2, <2>4 DEF PInv
<1>3. CASE UNCHANGED <<friends, presence>>
    BY <1>2, <1>3 DEF presence
<1> QED
    BY <1>1, <1>2, <1>3, CrashKeeps DEF PNext, database

LEMMA PInvAlways == PSpec => []PInv
BY PInitHolds, PNextKeeps, PTL DEF PSpec

\* Keys, sockets, handlers and jobs name users, open sockets have one, and no two
\* of them came at the same time; the tables of friends keep their shape beside
\* them (chat.gateway.ts, redis.service.ts, online-status-monitor.service.ts).
THEOREM PresenceTypeCorrect == PSpec => []PTypeOK
<1>1. PInv => FTypeOK
    BY IdleForm DEF PInv, FInv, RInv, Types, FTypeOK, Carried, WellFormed, JobType, Ops
<1>2. PInv => PTypeOK
    BY <1>1 DEF PInv, PTypeOK, Shapes, Numbered, HandlerType, Threads
<1> QED
    BY <1>2, PInvAlways, PTL

\* setUserOnlineStatus and setUserOffline write the key and the set one after
\* the other, and the jobs write them too: unless two of these crossed about a
\* user, or the server stopped, a user at rest is in both or, when he is gone, in
\* neither.
THEOREM KeyAndSetAgree == PSpec => []PresenceAgrees
<1>1. PInv => PresenceAgrees
    BY DEF PInv, Written, WrittenFor, PresenceAgrees
<1> QED
    BY <1>1, PInvAlways, PTL

\* What is proved of friendships holds beside the presence too: stops of the
\* server in the middle of calls included.
THEOREM PairsStaySingle == PSpec => [](OnePerPair /\ NotAskedOfFriends /\ FriendsAgreed)
<1>1. FInv => OnePerPair /\ NotAskedOfFriends /\ FriendsAgreed
    BY SingleIsOne, SettledIsNotAsked DEF FInv, SInv
<1>2. PInv => FInv
    BY DEF PInv
<1> QED
    BY <1>1, <1>2, PInvAlways, PTL

-----------------------------------------------------------------------------
(* Who was told hears it end                                               *)

\* The handler of one who goes, at r, will tell v yet.
Tells(way, r, v) ==
    /\ way = "out"
    /\ r.pc \in {"delete", "remove", "friends"} \/ (r.pc = "tell" /\ v \in r.left)

ToTell(u, v) == \E h \in Busy(u) : Tells(h[2], handler[h], v)

\* What is told is told on the first socket of a user: later ones never hear.
Hearing ==
    /\ heard \in [Sockets -> SUBSET Users]
    /\ \A s \in Sockets : heard[s] # {} => IsOpen(s) /\ s \in FirstSocket(owner[s])

\* A pair that was never apart has its row of friendship.
Together == \A p \in Pairs \ parted : \E f \in Friendships : friendships[f] = p

\* Whoever is said to be online on a page is connected, or is being taken back.
Told ==
    \A s \in Sockets, u \in Users \ raced :
        u \in heard[s] /\ owner[s] # u /\ {owner[s], u} \notin parted /\ Open1(u) = {}
        => ToTell(u, owner[s])

TInv == Hearing /\ Together /\ Told

LEMMA TwoArePair == ASSUME NEW a \in Users, NEW b \in Users, a # b PROVE {a, b} \in Pairs
<1>1. Cardinality({a}) = 1 /\ IsFiniteSet({a})
    BY FS_Singleton
<1>2. Cardinality({a} \union {b}) = Cardinality({a}) + 1
    BY <1>1, FS_AddElement
<1>3. {a, b} = {a} \union {b}
    OBVIOUS
<1>4. Cardinality({a, b}) = 2
    BY <1>1, <1>2, <1>3
<1> QED
    BY <1>4 DEF Pairs

\* A step of a handler: who had still to be told has, or has been.
LEMMA HandlerStillTells ==
    ASSUME PInv, TInv, NEW h \in Threads, NEW t \in HandlerType, HandlerTo(h, t),
           UNCHANGED <<friendships, parted>>, raced \subseteq raced',
           heard' \in [Sockets -> SUBSET Users],
           \A s \in Sockets : heard'[s] # {} => heard[s] # {} \/ s \in FirstSocket(owner[s]),
           \A s \in Sockets, u \in Users \ raced' :
               u \in heard'[s] => u \in heard[s] \/ Open1(u) # {},
           \A s \in Sockets :
               /\ owner[h[1]] \in heard'[s] /\ owner[s] # owner[h[1]]
               /\ {owner[s], owner[h[1]]} \notin parted
               /\ Tells(h[2], handler[h], owner[s])
               => Tells(h[2], t, owner[s])
    PROVE  TInv'
<1>1. handler'[h] = t /\ \A g \in Threads \ {h} : handler'[g] = handler[g]
    BY DEF PInv, Shapes, HandlerTo
<1>2. \A s \in Sockets : (IsOpen(s)' <=> IsOpen(s)) /\ owner'[s] = owner[s]
    BY DEF HandlerTo, IsOpen
<1>3. \A u : Open1(u)' = Open1(u)
    BY <1>2 DEF Open1
<1>4. \A u : FirstSocket(u)' = FirstSocket(u)
    BY <1>3 DEF FirstSocket, HandlerTo
<1>5. Hearing'
    <2>1. \A s \in Sockets : s \in FirstSocket(owner[s]) => IsOpen(s)
        BY DEF FirstSocket, Open1
    <2>2. \A s \in Sockets : heard'[s] # {} => IsOpen(s) /\ s \in FirstSocket(owner[s])
        BY <2>1 DEF TInv, Hearing
    <2> QED
        BY <1>2, <1>4, <2>2 DEF Hearing
<1>6. Together'
    BY DEF TInv, Together
<1>7. Told'
    <2> SUFFICES ASSUME NEW s \in Sockets, NEW u \in Users \ raced', u \in heard'[s],
                        owner[s] # u, {owner[s], u} \notin parted, Open1(u) = {}
                 PROVE  ToTell(u, owner[s])'
        BY <1>2, <1>3 DEF Told
    <2>1. ToTell(u, owner[s])
        BY DEF TInv, Told
    <2>2. PICK g \in Threads : /\ owner[g[1]] = u /\ handler[g] # Resting
                               /\ Tells(g[2], handler[g], owner[s])
        BY <2>1 DEF ToTell, Busy, Threads
    <2>3. Tells(g[2], handler'[g], owner[s])
        BY <1>1, <2>2
    <2>4. handler'[g] # Resting
        BY <2>3, RestForm DEF Tells
    <2>5. owner'[s] = owner[s] /\ owner'[g[1]] = u
        BY <1>2, <2>2 DEF Threads
    <2> QED
        BY <2>3, <2>4, <2>5 DEF ToTell, Busy, Threads
<1> QED
    BY <1>5, <1>6, <1>7 DEF TInv

\* A step that neither tells nor moves a handler.
LEMMA NothingSaid ==
    ASSUME TInv, UNCHANGED <<heard, owner, arrived, handler>>,
           raced \subseteq raced', parted \subseteq parted', Together'
    PROVE  TInv'
<1>1. \A u : Open1(u)' = Open1(u) /\ Busy(u)' = Busy(u) /\ FirstSocket(u)' = FirstSocket(u)
    BY DEF Open1, Busy, FirstSocket, IsOpen
<1>2. \A s : IsOpen(s)' <=> IsOpen(s)
    BY DEF IsOpen
<1>3. Hearing'
    BY <1>1, <1>2 DEF TInv, Hearing
<1>4. \A u, v : ToTell(u, v) => ToTell(u, v)'
    BY <1>1 DEF ToTell
<1>5. Told'
    BY <1>1, <1>4 DEF TInv, Told
<1> QED
    BY <1>3, <1>5 DEF TInv

\* setUserOnlineStatus, setUserOffline: nobody is told yet.
LEMMA WritesTellNobody ==
    ASSUME PInv, TInv, NEW h \in Threads,
           SetKey(h) \/ AddToSet(h) \/ DeleteKey(h) \/ RemoveFromSet(h), Seen, UNCHANGED friends
    PROVE  TInv'
<1>1. PICK p \in HandlerPoints :
        /\ Step(h, p) /\ UNCHANGED <<owner, arrived, cron, heard, parted>>
        /\ h[2] = "out" => p \in {"remove", "friends"}
    BY DEF SetKey, AddToSet, DeleteKey, RemoveFromSet, At1, HandlerPoints
<1>2. handler[h] \in HandlerType
    BY DEF PInv, Shapes
<1>3. PICK t \in HandlerType : t = [handler[h] EXCEPT !.pc = p] /\ t.pc = p
    BY <1>2, HandlerGoes
<1>4. HandlerTo(h, t)
    BY <1>1, <1>3 DEF Step, HandlerTo
<1>5. \A v : Tells(h[2], handler[h], v) => Tells(h[2], t, v)
    BY <1>1, <1>3 DEF Tells
<1>6. UNCHANGED <<friendships, parted>> /\ raced \subseteq raced' /\ heard' = heard
      /\ heard' \in [Sockets -> SUBSET Users]
    BY <1>1 DEF Seen, friends, TInv, Hearing
<1> QED
    BY <1>4, <1>5, <1>6, HandlerStillTells

\* notifyFriendsOnlineStatus: whoever is a friend is among those read.
LEMMA ReadersTellFriends ==
    ASSUME PInv, TInv, NEW h \in Threads, ReadFriends(h), Seen, UNCHANGED friends PROVE TInv'
<1>1. PICK w \in Users : w = owner[h[1]]
    BY RestForm DEF ReadFriends, PInv, Shapes, Threads
<1>2. PICK them \in SUBSET Users : them = Befriended(w)
    <2>1. \A f \in Friendships : w \in friendships[f] => friendships[f] \subseteq Users
        BY PresenceAssumption DEF PInv, FInv, RInv, Types, Pairs, NoPair, Parted, Nobody
    <2> QED
        BY <2>1 DEF Befriended
<1>3. PICK t \in HandlerType :
        /\ t = IF them = {} THEN Resting ELSE [pc |-> "tell", left |-> them]
        /\ them # {} => t.pc = "tell" /\ t.left = them
    BY RestForm, HandlerBegins, "tell" \in HandlerPoints DEF HandlerPoints
<1>4. HandlerTo(h, t) /\ UNCHANGED <<heard, parted>>
    BY <1>1, <1>2, <1>3 DEF ReadFriends, HandlerTo
<1>5. ASSUME NEW s \in Sockets, w \in heard[s], owner[s] # w, {owner[s], w} \notin parted
      PROVE  owner[s] \in them
    <2>1. owner[s] \in Users
        BY <1>5, PresenceAssumption DEF TInv, Hearing, PInv, Shapes
    <2>2. {owner[s], w} \in Pairs
        BY <1>5, <2>1, TwoArePair
    <2>3. PICK f \in Friendships : friendships[f] = {owner[s], w}
        BY <1>5, <2>2 DEF TInv, Together
    <2> QED
        BY <1>2, <1>5, <2>3 DEF Befriended
<1>6. \A s \in Sockets :
        w \in heard[s] /\ owner[s] # w /\ {owner[s], w} \notin parted
        /\ Tells(h[2], handler[h], owner[s]) => Tells(h[2], t, owner[s])
    BY <1>3, <1>5 DEF Tells
<1>7. UNCHANGED <<friendships, parted>> /\ raced \subseteq raced' /\ heard' = heard
      /\ heard' \in [Sockets -> SUBSET Users]
    BY <1>4 DEF Seen, friends, TInv, Hearing
<1>8. HandlerTo(h, t)
    BY <1>4
<1> QED
    BY <1>1, <1>6, <1>7, <1>8, HandlerStillTells

\* A friend hears on the first of his sockets; the others are still to be told.
LEMMA TellingTellsOne ==
    ASSUME PInv, TInv, NEW h \in Threads, NEW v \in Users, TellFriend(h, v), Seen,
           UNCHANGED friends
    PROVE  TInv'
<1>1. handler[h].pc = "tell" /\ handler[h] \in HandlerType /\ handler[h] # Resting
    BY RestForm DEF TellFriend, PInv, Shapes
<1>2. PICK w \in Users : w = owner[h[1]]
    BY <1>1 DEF PInv, Shapes, Threads
<1>3. PICK left \in SUBSET Users : left = handler[h].left \ {v}
    BY <1>1 DEF HandlerType
<1>4. PICK t \in HandlerType :
        /\ t = IF left = {} THEN Resting ELSE [pc |-> "tell", left |-> left]
        /\ left # {} => t.pc = "tell" /\ t.left = left
    BY RestForm, HandlerBegins, "tell" \in HandlerPoints DEF HandlerPoints
<1>5. HandlerTo(h, t) /\ parted' = parted
    BY <1>3, <1>4 DEF TellFriend, HandlerTo
<1>6. /\ heard' \in [Sockets -> SUBSET Users]
      /\ \A s \in Sockets : heard'[s] = IF s \in FirstSocket(v) THEN Hear(heard[s], w, h[2])
                                                               ELSE heard[s]
    <2>1. heard' = [s \in Sockets |-> IF s \in FirstSocket(v) THEN Hear(heard[s], w, h[2])
                                                             ELSE heard[s]]
        BY <1>2 DEF TellFriend
    <2>2. \A s \in Sockets : heard[s] \in SUBSET Users /\ Hear(heard[s], w, h[2]) \in SUBSET Users
        BY DEF TInv, Hearing, Hear
    <2> QED
        BY <2>1, <2>2
<1>7. ASSUME NEW s \in Sockets, heard'[s] # {} PROVE heard[s] # {} \/ s \in FirstSocket(owner[s])
    BY <1>6, <1>7 DEF FirstSocket, Open1
<1>8. ASSUME NEW s \in Sockets, NEW u \in Users \ raced', u \in heard'[s]
      PROVE  u \in heard[s] \/ Open1(u) # {}
    <2>1. CASE u # w \/ h[2] # "in"
        BY <1>6, <1>8, <2>1 DEF Hear
    <2>2. CASE u = w /\ h[2] = "in"
        <3>1. IsOpen(h[1])
            BY <1>1, <1>2, <2>2, HandlerAlone DEF WrittenBy
        <3> QED
            BY <1>2, <2>2, <3>1 DEF Open1, Threads
    <2> QED
        BY <2>1, <2>2
<1>9. ASSUME NEW s \in Sockets, w \in heard'[s], Tells(h[2], handler[h], owner[s])
      PROVE  Tells(h[2], t, owner[s])
    <2>1. h[2] = "out" /\ owner[s] \in handler[h].left
        BY <1>1, <1>9 DEF Tells
    <2>2. w \in heard[s] /\ s \notin FirstSocket(v)
        BY <1>6, <1>9, <2>1 DEF Hear
    <2>3. owner[s] # v
        BY <2>2 DEF TInv, Hearing
    <2> QED
        BY <1>3, <1>4, <2>1, <2>3 DEF Tells
<1>10. UNCHANGED <<friendships, parted>> /\ raced \subseteq raced'
    BY <1>5 DEF Seen, friends
<1>11. HandlerTo(h, t)
    BY <1>5
<1> QED
    BY <1>2, <1>6, <1>7, <1>8, <1>9, <1>10, <1>11, HandlerStillTells

\* A socket comes: it is nobody's first if its user had another.
LEMMA ComingTellsNobody ==
    ASSUME PInv, TInv, NEW s \in Sockets, NEW u \in Users, Connect(s, u), Seen, UNCHANGED friends
    PROVE  TInv'
<1> DEFINE h == <<s, "in">>
           came == {x \in Sockets : owner[x] # Nobody}
<1>1. /\ h \in Threads /\ owner[s] = Nobody /\ u # Nobody /\ ~IsOpen(s)
      /\ \A g \in Threads : g[1] = s => handler[g] = Resting
    BY PresenceAssumption DEF Connect, Threads, Ways, PInv, Shapes
<1>2. /\ owner' = [owner EXCEPT ![s] = u]
      /\ handler' = [handler EXCEPT ![h] = [pc |-> "set", left |-> {}]]
      /\ arrived' = [arrived EXCEPT ![s] = 1 + Cardinality(came)]
      /\ UNCHANGED <<heard, parted>>
    BY DEF Connect
<1>3. PICK n \in Nat : n = Cardinality(came)
    BY PresenceAssumption, FS_Subset, FS_CardinalityType
<1>4. /\ \A x \in Sockets : owner'[x] = IF x = s THEN u ELSE owner[x]
      /\ \A x \in Sockets : arrived'[x] = IF x = s THEN 1 + n ELSE arrived[x]
      /\ \A g \in Threads : g # h => handler'[g] = handler[g]
    BY <1>1, <1>2, <1>3 DEF PInv, Shapes
<1>5. \A x \in Sockets : arrived[x] \in Nat /\ arrived[x] <= n
    BY <1>3 DEF PInv, Shapes, Numbered
<1>6. \A x \in Sockets : IsOpen(x)' <=> IsOpen(x) \/ x = s
    <2>1. PICK m \in Nat : m = 1 + n /\ m # 0
        BY <1>3
    <2>2. ASSUME NEW x \in Sockets PROVE IsOpen(x)' <=> IsOpen(x) \/ x = s
        <3>1. CASE x = s
            BY <1>4, <2>1, <3>1 DEF IsOpen
        <3>2. CASE x # s
            BY <1>4, <3>2 DEF IsOpen
        <3> QED
            BY <3>1, <3>2
    <2> QED
        BY <2>2
<1>7. \A v \in Users : Open1(v)' = IF v = u THEN Open1(v) \union {s} ELSE Open1(v)
    BY <1>1, <1>4, <1>6, PresenceAssumption DEF Open1
<1>8. ASSUME NEW x \in Sockets, heard[x] # {}
      PROVE  /\ x # s /\ IsOpen(x) /\ owner[x] \in Users /\ owner'[x] = owner[x]
             /\ x \in FirstSocket(owner[x])'
    <2>1. /\ x # s /\ IsOpen(x) /\ owner[x] \in Users /\ x \in FirstSocket(owner[x])
        BY <1>1, <1>8 DEF TInv, Hearing, PInv, Shapes
    <2>2. owner'[x] = owner[x] /\ arrived'[x] = arrived[x] /\ arrived'[s] = 1 + n
        BY <1>4, <2>1
    <2>3. PICK v \in Users : v = owner[x]
        BY <2>1
    <2>4. x \in Open1(v) /\ \A y \in Open1(v) : arrived[x] <= arrived[y]
        BY <2>1, <2>3 DEF FirstSocket
    <2>5. \A y \in Open1(v)' : (y \in Open1(v) /\ y # s) \/ y = s
        BY <1>7
    <2>6. \A y \in Open1(v) : y \in Sockets
        BY DEF Open1
    <2>7. arrived[x] <= 1 + n
        BY <1>5
    <2>8. \A y \in Open1(v)' : arrived'[x] <= arrived'[y]
        BY <1>4, <2>2, <2>4, <2>5, <2>6, <2>7
    <2>9. x \in FirstSocket(v)'
        BY <1>7, <2>4, <2>8 DEF FirstSocket
    <2> QED
        BY <2>1, <2>2, <2>3, <2>9
<1>9. Hearing'
    BY <1>2, <1>6, <1>8 DEF TInv, Hearing
<1>10. Together'
    BY <1>2 DEF TInv, Together, friends
<1>11. Told'
    <2> SUFFICES ASSUME NEW x \in Sockets, NEW v \in Users \ raced', v \in heard[x],
                        owner'[x] # v, {owner'[x], v} \notin parted, Open1(v)' = {}
                 PROVE  ToTell(v, owner[x])'
        <3> SUFFICES ASSUME NEW x \in Sockets, NEW v \in Users \ raced', v \in heard'[x],
                            owner'[x] # v, {owner'[x], v} \notin parted', Open1(v)' = {}
                     PROVE  ToTell(v, owner[x])'
            BY DEF Told
        <3> QED
            BY <1>2
    <2>1. owner'[x] = owner[x]
        BY <1>8
    <2>2. Open1(v) = {} /\ v \notin raced /\ v # Nobody
        BY <1>7, PresenceAssumption DEF Seen
    <2>3. ToTell(v, owner[x])
        BY <2>1, <2>2 DEF TInv, Told
    <2>4. PICK g \in Threads : /\ owner[g[1]] = v /\ handler[g] # Resting
                               /\ Tells(g[2], handler[g], owner[x])
        BY <2>3 DEF ToTell, Busy, Threads
    <2>5. g[1] # s /\ g # h /\ handler'[g] = handler[g] /\ owner'[g[1]] = v
        BY <1>1, <1>4, <2>2, <2>4 DEF Threads
    <2>6. g \in Busy(v)'
        BY <2>4, <2>5 DEF Busy, Threads
    <2>7. Tells(g[2], handler'[g], owner'[x])
        BY <2>1, <2>4, <2>5
    <2> QED
        BY <2>6, <2>7 DEF ToTell
<1> QED
    BY <1>9, <1>10, <1>11 DEF TInv

\* A socket goes: its handler has everybody to tell.
LEMMA GoingTellsAll ==
    ASSUME PInv, TInv, NEW s \in Sockets, Disconnect(s), Seen, UNCHANGED friends PROVE TInv'
<1> DEFINE h == <<s, "out">>
<1>1. h \in Threads /\ h[1] = s /\ h[2] = "out"
    BY DEF Threads, Ways
<1>2. PICK t \in HandlerType : t = [pc |-> "delete", left |-> {}] /\ t.pc = "delete"
    BY HandlerBegins, "delete" \in HandlerPoints, {} \in SUBSET Users DEF HandlerPoints
<1>3. /\ arrived' = [arrived EXCEPT ![s] = 0] /\ handler' = [handler EXCEPT ![h] = t]
      /\ heard' = [heard EXCEPT ![s] = {}] /\ UNCHANGED <<owner, parted>> /\ IsOpen(s)
    BY <1>2 DEF Disconnect
<1>4. /\ \A x \in Sockets : arrived'[x] = IF x = s THEN 0 ELSE arrived[x]
      /\ \A x \in Sockets : heard'[x] = IF x = s THEN {} ELSE heard[x]
      /\ \A g \in Threads : handler'[g] = IF g = h THEN t ELSE handler[g]
      /\ heard' \in [Sockets -> SUBSET Users]
    BY <1>1, <1>3 DEF PInv, Shapes, TInv, Hearing
<1>5. \A x \in Sockets : IsOpen(x)' <=> IsOpen(x) /\ x # s
    BY <1>4 DEF IsOpen
<1>6. \A v : Open1(v)' = Open1(v) \ {s}
    BY <1>3, <1>5 DEF Open1
<1>7. \A v, x : x # s /\ x \in FirstSocket(v) => x \in FirstSocket(v)'
    BY <1>4, <1>6 DEF FirstSocket, Open1
<1>8. Hearing'
    BY <1>3, <1>4, <1>5, <1>7 DEF TInv, Hearing
<1>9. Together'
    BY <1>3 DEF TInv, Together, friends
<1>10. Told'
    <2> SUFFICES ASSUME NEW x \in Sockets, NEW v \in Users \ raced', v \in heard'[x],
                        owner[x] # v, {owner[x], v} \notin parted, Open1(v)' = {}
                 PROVE  ToTell(v, owner[x])'
        BY <1>3 DEF Told
    <2>1. v \in heard[x] /\ v \notin raced
        BY <1>4 DEF Seen
    <2>2. CASE owner[s] = v
        <3>1. Tells(h[2], handler'[h], owner[x]) /\ handler'[h] # Resting
            BY <1>1, <1>2, <1>4, RestForm DEF Tells
        <3>2. h \in Busy(v)'
            BY <1>1, <1>3, <2>2, <3>1 DEF Busy, Threads
        <3> QED
            BY <1>3, <3>1, <3>2 DEF ToTell
    <2>3. CASE owner[s] # v
        <3>1. Open1(v) = {}
            BY <1>6, <2>3 DEF Open1
        <3>2. ToTell(v, owner[x])
            BY <2>1, <3>1 DEF TInv, Told
        <3>3. PICK g \in Threads : /\ owner[g[1]] = v /\ handler[g] # Resting
                                   /\ Tells(g[2], handler[g], owner[x])
            BY <3>2 DEF ToTell, Busy, Threads
        <3>4. g # h /\ handler'[g] = handler[g]
            BY <1>1, <1>4, <2>3, <3>3
        <3>5. g \in Busy(v)'
            BY <1>3, <3>3, <3>4 DEF Busy, Threads
        <3> QED
            BY <1>3, <3>3, <3>4, <3>5 DEF ToTell
    <2> QED
        BY <2>2, <2>3
<1> QED
    BY <1>8, <1>9, <1>10 DEF TInv

LEMMA TInitHolds == PInit => TInv
BY DEF PInit, TInv, Hearing, Together, Told

LEMMA TNextKeeps == PInv /\ TInv /\ [PNext]_<<friends, presence>> => TInv'
<1> SUFFICES ASSUME PInv, TInv, [PNext]_<<friends, presence>> PROVE TInv'
    OBVIOUS
<1>1. ASSUME PStep, Seen, UNCHANGED friends PROVE TInv'
    <2>1. ASSUME NEW h \in Sockets \X Ways, Serve1(h) PROVE TInv'
        <3>1. h \in Threads
            BY DEF Threads
        <3>2. CASE SetKey(h) \/ AddToSet(h) \/ DeleteKey(h) \/ RemoveFromSet(h)
            BY <1>1, <3>1, <3>2, WritesTellNobody
        <3>3. CASE ReadFriends(h)
            BY <1>1, <3>1, <3>3, ReadersTellFriends
        <3>4. ASSUME NEW v \in Users, TellFriend(h, v) PROVE TInv'
            BY <1>1, <3>1, <3>4, TellingTellsOne
        <3> QED
            BY <2>1, <3>2, <3>3, <3>4 DEF Serve1
    <2>2. raced \subseteq raced'
        BY <1>1 DEF Seen
    <2>3. ASSUME UNCHANGED <<owner, arrived, handler, heard, parted>> PROVE TInv'
        <3>1. Together'
            BY <1>1, <2>3 DEF TInv, Together, friends
        <3> QED
            BY <2>2, <2>3, <3>1, NothingSaid
    <2>4. ASSUME NEW c \in Crons, Run(c) PROVE TInv'
        BY <2>3, <2>4 DEF Run, Inspect, ReadAgain, Mark, List, CleanUp
    <2>5. ASSUME NEW c \in Crons, NEW kind \in Kinds, NEW u \in Users, Wake(c, kind, u) PROVE TInv'
        BY <2>3, <2>5 DEF Wake
    <2>6. ASSUME NEW u \in Users, Expire(u) PROVE TInv'
        BY <2>3, <2>6 DEF Expire
    <2>7. ASSUME NEW s \in Sockets, Disconnect(s) PROVE TInv'
        BY <1>1, <2>7, GoingTellsAll
    <2>8. ASSUME NEW s \in Sockets, NEW u \in Users, Connect(s, u) PROVE TInv'
        BY <1>1, <2>8, ComingTellsNobody
    <2> QED
        BY <1>1, <2>1, <2>4, <2>5, <2>6, <2>7, <2>8 DEF PStep
<1>2. ASSUME Crash, UNCHANGED <<requests, friendships>> PROVE TInv'
    BY <1>2 DEF Crash, TInv, Hearing, Together, Told
<1>3. ASSUME FNext,
             parted' = parted \union {p \in Pairs : \A f \in Friendships : friendships'[f] # p},
             UNCHANGED <<owner, arrived, handler, heard, raced>>
      PROVE  TInv'
    <2>1. Together'
        BY <1>3 DEF Together
    <2> QED
        BY <1>3, <2>1, NothingSaid
<1>4. CASE UNCHANGED <<friends, presence>>
    <2>1. UNCHANGED <<owner, arrived, handler, heard, raced, parted, friendships>>
        BY <1>4 DEF friends, presence
    <2>2. Together'
        BY <2>1 DEF TInv, Together
    <2> QED
        BY <2>1, <2>2, NothingSaid
<1> QED
    BY <1>1, <1>2, <1>3, <1>4 DEF PNext, database

\* notifyFriendsOnlineStatus tells friends who comes and who goes, on the first
\* socket it finds of each: a page that shows a friend online shows him so until
\* his last tab closes, and its handler then has the page on its way, as long as
\* the two stay friends and nothing else is about the one who goes.
THEOREM FriendsHearWhoGoes == PSpec => []ToldWhenGone
<1>1. ASSUME PInv, TInv PROVE ToldWhenGone
    <2> SUFFICES ASSUME NEW s \in Sockets, NEW u \in Users \ raced, u \in heard[s],
                        Busy(u) = {}, {owner[s], u} \notin parted
                 PROVE  Open1(u) # {}
        BY DEF ToldWhenGone, Open1
    <2>1. CASE owner[s] = u
        <3>1. heard[s] # {} /\ IsOpen(s)
            BY <1>1 DEF TInv, Hearing
        <3> QED
            BY <2>1, <3>1 DEF Open1
    <2>2. CASE owner[s] # u
        <3>1. ~ToTell(u, owner[s])
            BY DEF ToTell
        <3> QED
            BY <1>1, <2>2, <3>1 DEF TInv, Told
    <2> QED
        BY <2>1, <2>2
<1>2. PSpec => []TInv
    BY PInvAlways, TInitHolds, TNextKeeps, PTL DEF PSpec
<1> QED
    BY <1>1, <1>2, PInvAlways, PTL
=============================================================================
