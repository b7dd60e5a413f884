--------------------------- MODULE ChatRoomsProofs ---------------------------
(***************************************************************************)
(* Theorems about the chat rooms for every set of users and rooms and      *)
(* every number of calls served at the same time, pages included.          *)
(*                                                                         *)
(* OwnerStays is not inductive. A call decides in one statement and acts   *)
(* in a later one, so what it decided has to stay true: a user found to be *)
(* no owner does not become one (Decided), since a room gets its owner     *)
(* once, before anybody else can know it (Fresh), and has one only (One),  *)
(* as long as its owner is vouched for (Unowned).                          *)
(*                                                                         *)
(* OneDirectRoom and NobodyLeftBehind need who is about to make the room   *)
(* of a pair (Unique), and who will yet count the members of a room where  *)
(* one is left (Attended). SenderHears needs how a page comes to be heard: *)
(* by a subscription asked for this visit of it (Visits, ReadyHears).      *)
(***************************************************************************)
EXTENDS ChatClient, FiniteSetTheorems, TLAPS

\* Calls that have a room in hand.
Holds(j) ==
    \/ j.op \in {"add", "leave", "delete", "expel"}
    \/ j.op = "create" /\ j.pc \in {"owner", "members"}

Making(h) == At(h, "create", "owner")

\* A room in hand has been saved.
Known == \A h \in Jobs : Holds(job[h]) => job[h].room \in Rooms /\ room[job[h].room] # "none"

\* A room about to get its owner is in no other hands, and nobody is in it.
Fresh ==
    \A h \in Jobs : Making(h) =>
        /\ \A g \in Jobs : g # h /\ Holds(job[g]) => job[g].room # job[h].room
        /\ \A u \in Users : member[job[h].room][u] = "none"

\* A room has one owner at most, if it is vouched for.
One == \A r \in Rooms \ Unowned, u, v \in Users : member[r][u] = "owner" /\ member[r][v] = "owner" => u = v

\* Such a room has an owner, or is about to get one.
Owned ==
    \A r \in Rooms : Exists(r) /\ r \notin Unowned =>
        \/ \E u \in Users : member[r][u] = "owner"
        \/ \E h \in Jobs : Making(h) /\ job[h].room = r

\* Whoever is going to be removed is not its owner.
Decided ==
    \A h \in Jobs : job[h].room \notin Unowned =>
        /\ At(h, "leave", "go") => member[job[h].room][job[h].user] # "owner"
        /\ At(h, "expel", "go") => \A v \in job[h].left : member[job[h].room][v] # "owner"

Somebody == Users \union {"nobody"}
Ops == {"idle", "create", "add", "leave", "expel", "delete", "send"}
Points == {"done", "find", "save", "owner", "members", "insert", "look", "go", "count", "close",
           "begin", "commit", "emit"}
JobType == [op : Ops, pc : Points, user : Somebody, type : Types \union {"none"}, room : Rooms \union {"none"},
            role : Roles \union {"none"}, left : SUBSET Users, pair : SUBSET Users, message : Nat]

\* Calls are made by users, and rooms of a known type. (Who adds a member is not
\* asked.)
WellMade(j) == /\ j.op \notin {"idle", "add"} => j.user \in Users
               /\ j.op = "create" => j.type \in Types
               /\ j.op = "add" => j.role \in Roles
               /\ j.op \in {"add", "expel"} => \E v \in Users : j.left = {v}
Made == \A h \in Jobs : WellMade(job[h])

OInv == RTypeOK /\ job \in [Jobs -> JobType] /\ Made /\ Known /\ Fresh /\ One /\ Owned /\ Decided

\* What is remembered of rooms and pairs stays remembered.
Remembers == /\ crossed \subseteq crossed' /\ broken \subseteq broken' /\ thinned \subseteq thinned'
             /\ added \subseteq added' /\ bereft \subseteq bereft'

LEMMA Remembered ==
    ASSUME Remembers
    PROVE  Unowned \subseteq Unowned' /\ broken' \subseteq Unowned'
BY DEF Remembers, Unowned

LEMMA SameHistory == ASSUME UNCHANGED <<crossed, broken, thinned, added, bereft>> PROVE Remembers
BY DEF Remembers

-----------------------------------------------------------------------------
(* A call takes a step in which no room is made or removed, and no room that *)
(* is vouched for is given an owner                                        *)

\* Members come and go, and the room is in nobody's making; owners stay, but for
\* rooms not vouched for.
RolesKeep ==
    /\ member' \in [Rooms -> [Users -> Roles \union {"none"}]]
    /\ \A r \in Rooms, u \in Users :
         \/ member'[r][u] = member[r][u]
         \/ /\ Exists(r) /\ \A g \in Jobs : Making(g) => job[g].room # r
            /\ member'[r][u] # "none" => u \notin gone
            /\ r \in Unowned' \/ {member[r][u], member'[r][u]} \subseteq {"member", "none"}

\* Where a call is after its step: it has the same room in hand as before, or none, or
\* one that is in nobody's making.
Next1(h, j) ==
    /\ j \in JobType
    /\ WellMade(j)
    /\ ~(j.op = "create" /\ j.pc = "owner")
    /\ Holds(j) => \/ Holds(job[h]) /\ j.room = job[h].room
                   \/ /\ j.room \in Rooms /\ Exists(j.room)
                      /\ \A g \in Jobs : Making(g) => job[g].room # j.room
    /\ j.room \notin Unowned' =>
         /\ j.op = "leave" /\ j.pc = "go" => member[j.room][j.user] # "owner"
         /\ j.op = "expel" /\ j.pc = "go" => \A v \in j.left : member[j.room][v] # "owner"

LEMMA CallStep ==
    ASSUME OInv, NEW h \in Jobs, NEW j, Next1(h, j), job' = [job EXCEPT ![h] = j],
           UNCHANGED <<room, gone>>, RolesKeep, Remembers,
           Making(h) => job[h].room \in broken' \/ ~Exists(job[h].room)
    PROVE  OInv'
<1>1. /\ job' \in [Jobs -> JobType] /\ job'[h] = j /\ \A g \in Jobs \ {h} : job'[g] = job[g]
      /\ j \in JobType /\ Unowned \subseteq Unowned' /\ broken' \subseteq Unowned'
    BY Remembered DEF OInv, Next1
<1>2. RTypeOK'
    BY DEF OInv, RTypeOK, RolesKeep, Exists
<1>3. Made'
    BY <1>1 DEF OInv, Made, Next1
<1>4. Known'
    <2>1. Holds(j) => j.room \in Rooms /\ room[j.room] # "none"
        BY DEF OInv, Known, Next1, RTypeOK, Exists, Types
    <2> QED
        BY <1>1, <2>1 DEF OInv, Known
<1>5. \A g \in Jobs : Making(g)' => g # h /\ Making(g)
    BY <1>1 DEF Making, At, Next1
<1>6. Fresh'
    <2> SUFFICES ASSUME NEW g \in Jobs, Making(g), g # h
                 PROVE  /\ \A k \in Jobs : k # g /\ Holds(job'[k]) => job'[k].room # job[g].room
                        /\ \A u \in Users : member'[job[g].room][u] = "none"
        BY <1>1, <1>5 DEF Fresh
    <2>1. Holds(job[g]) /\ job[g].room \in Rooms
        BY DEF OInv, Known, Holds, Making, At
    <2>2. Holds(j) => j.room # job[g].room
        BY DEF OInv, Fresh, Next1
    <2>3. \A u \in Users : member'[job[g].room][u] = "none"
        BY <2>1 DEF OInv, Fresh, RolesKeep
    <2> QED
        BY <1>1, <2>2, <2>3 DEF OInv, Fresh
<1>7. One'
    <2> SUFFICES ASSUME NEW r \in Rooms, r \notin Unowned', NEW u \in Users, NEW v \in Users,
                        member'[r][u] = "owner", member'[r][v] = "owner"
                 PROVE  u = v
        BY DEF One
    <2> QED
        BY <1>1 DEF OInv, One, RolesKeep
<1>8. Owned'
    <2> SUFFICES ASSUME NEW r \in Rooms, Exists(r), r \notin Unowned'
                 PROVE  \/ \E u \in Users : member'[r][u] = "owner"
                        \/ \E g \in Jobs : Making(g)' /\ job'[g].room = r
        BY DEF Owned, Exists
    <2>1. CASE \E u \in Users : member[r][u] = "owner"
        BY <2>1 DEF RolesKeep
    <2>2. CASE \E g \in Jobs : Making(g) /\ job[g].room = r
        BY <1>1, <2>2 DEF Making, At
    <2> QED
        BY <1>1, <2>1, <2>2 DEF OInv, Owned
<1>9. Decided'
    <2>1. \A r \in Rooms \ Unowned', u \in Users : member[r][u] # "owner" => member'[r][u] # "owner"
        BY DEF RolesKeep
    <2>2. ASSUME NEW g \in Jobs, job'[g].room \notin Unowned'
          PROVE  /\ At(g, "leave", "go")' => member'[job'[g].room][job'[g].user] # "owner"
                 /\ At(g, "expel", "go")' => \A v \in job'[g].left :
                                                member'[job'[g].room][v] # "owner"
        <3>1. Holds(job'[g]) => job'[g].room \in Rooms
            BY <1>4 DEF Known
        <3>2. /\ At(g, "leave", "go")' => job'[g].room \in Rooms /\ job'[g].user \in Users
              /\ At(g, "expel", "go")' => job'[g].room \in Rooms /\ job'[g].left \subseteq Users
            BY <1>1, <1>3, <3>1 DEF Made, WellMade, Holds, At, JobType
        <3>3. CASE g = h
            BY <1>1, <2>1, <2>2, <3>2, <3>3 DEF Next1, At
        <3>4. CASE g # h
            BY <1>1, <2>1, <2>2, <3>2, <3>4 DEF OInv, Decided, At
        <3> QED
            BY <3>3, <3>4
    <2> QED
        BY <2>2 DEF Decided
<1> QED
    BY <1>1, <1>2, <1>3, <1>4, <1>6, <1>7, <1>8, <1>9 DEF OInv

LEMMA IdleStep == Idle \in JobType /\ WellMade(Idle) /\ ~Holds(Idle) /\ Idle.op = "idle"
BY DEF Idle, JobType, Ops, Points, Types, Roles, Somebody, WellMade, Holds

LEMMA SameRoles == ASSUME OInv, UNCHANGED member PROVE RolesKeep
BY DEF OInv, RTypeOK, RolesKeep

LEMMA FinishKeeps ==
    ASSUME OInv, NEW h \in Jobs, Finish(h), UNCHANGED <<room, gone>>, RolesKeep, Remembers,
           Making(h) => job[h].room \in broken' \/ ~Exists(job[h].room)
    PROVE  OInv'
<1>1. Next1(h, Idle)
    BY IdleStep DEF Next1
<1> QED
    BY <1>1, CallStep DEF Finish

LEMMA GotoKeeps ==
    ASSUME OInv, NEW h \in Jobs, NEW pc \in Points, Goto(h, pc), UNCHANGED <<room, gone>>, RolesKeep,
           Remembers, ~Making(h),
           job[h].op = "create" => pc \notin {"owner", "members"},
           job[h].op = "leave" /\ pc = "go" =>
               job[h].room \in Unowned' \/ member[job[h].room][job[h].user] # "owner",
           job[h].op = "expel" /\ pc = "go" =>
               job[h].room \in Unowned' \/ \A v \in job[h].left : member[job[h].room][v] # "owner"
    PROVE  OInv'
<1>1. PICK j \in JobType : j = [job[h] EXCEPT !.pc = pc]
    BY DEF OInv, JobType
<1>2. /\ j.pc = pc /\ j.op = job[h].op /\ j.user = job[h].user /\ j.room = job[h].room
      /\ j.left = job[h].left /\ j.type = job[h].type /\ j.role = job[h].role
    BY <1>1 DEF OInv, JobType
<1>3. Next1(h, j)
    BY <1>2 DEF Next1, OInv, Made, WellMade, Holds
<1>4. job' = [job EXCEPT ![h] = j]
    BY <1>1 DEF Goto, OInv
<1> QED
    BY <1>3, <1>4, CallStep

LEMMA StartKeeps ==
    ASSUME OInv, NEW h \in Jobs, NEW j, job[h] = Idle, job' = [job EXCEPT ![h] = j],
           UNCHANGED <<tables, history>>, Next1(h, j)
    PROVE  OInv'
<1>1. ~Making(h)
    BY IdleStep DEF Making, At
<1>2. RolesKeep /\ Remembers /\ UNCHANGED <<room, gone>>
    BY SameRoles, SameHistory DEF tables, history
<1> QED
    BY <1>1, <1>2, CallStep

-----------------------------------------------------------------------------
(* The calls arrive                                                        *)

\* A room somebody is in is in nobody's making.
LEMMA Inhabited ==
    ASSUME OInv, NEW r \in Rooms, NEW u \in Users, u \in MembersOf(r)
    PROVE  Exists(r) /\ \A g \in Jobs : Making(g) => job[g].room # r
BY DEF OInv, RTypeOK, Fresh, MembersOf

LEMMA RequestKeeps == ASSUME OInv, NEW h \in Jobs, NEW u \in Users, Request(h, u) PROVE OInv'
<1>1. ASSUME NEW type \in Types, NEW others \in SUBSET Users, Create(h, u, type, others) PROVE OInv'
    <2>1. PICK j : j = [Idle EXCEPT !.op = "create", !.user = u, !.left = others, !.type = type,
                            !.pc = IF type = "direct" THEN "find" ELSE "save",
                            !.pair = IF type = "direct" THEN {u} \union others ELSE {}]
        OBVIOUS
    <2>2. j.op = "create" /\ j.pc \in {"find", "save"} /\ WellMade(j) /\ j \in JobType
        BY <2>1 DEF Idle, JobType, Ops, Points, Types, Somebody, WellMade
    <2>3. Next1(h, j)
        BY <2>2 DEF Next1, Holds
    <2> QED
        BY <1>1, <2>1, <2>3, StartKeeps DEF Create, Start
<1>2. ASSUME NEW r \in Rooms, Exists(r), \A g \in Jobs : Making(g) => job[g].room # r,
             NEW j \in JobType, Start(h, j), WellMade(j), j.room = r, j.op # "create",
             j.pc \in {"insert", "look"}
      PROVE  OInv'
    <2>1. Next1(h, j)
        BY <1>2 DEF Next1
    <2> QED
        BY <1>2, <2>1, StartKeeps DEF Start
<1>3. ASSUME NEW r \in Rooms, Leave(h, u, r) \/ Delete(h, u, r) PROVE OInv'
    <2>1. Exists(r) /\ \A g \in Jobs : Making(g) => job[g].room # r
        BY <1>3, Inhabited DEF Leave, Delete
    <2>2. CASE Leave(h, u, r)
        <3>1. PICK j : j = [Idle EXCEPT !.op = "leave", !.pc = "look", !.user = u, !.room = r]
            OBVIOUS
        <3>2. j \in JobType /\ WellMade(j) /\ j.room = r /\ j.op = "leave" /\ j.pc = "look"
            BY <3>1 DEF Idle, JobType, Ops, Points, Types, Somebody, WellMade
        <3> QED
            BY <1>2, <2>1, <2>2, <3>1, <3>2 DEF Leave
    <2>3. CASE Delete(h, u, r)
        <3>1. PICK j : j = [Idle EXCEPT !.op = "delete", !.pc = "look", !.user = u, !.room = r]
            OBVIOUS
        <3>2. j \in JobType /\ WellMade(j) /\ j.room = r /\ j.op = "delete" /\ j.pc = "look"
            BY <3>1 DEF Idle, JobType, Ops, Points, Types, Somebody, WellMade
        <3> QED
            BY <1>2, <2>1, <2>3, <3>1, <3>2 DEF Delete
    <2> QED
        BY <1>3, <2>2, <2>3
<1>4. ASSUME NEW r \in Rooms, NEW v \in Users, Expel(h, u, r, v) PROVE OInv'
    <2>1. Exists(r) /\ \A g \in Jobs : Making(g) => job[g].room # r
        BY <1>4, Inhabited DEF Expel
    <2>2. PICK j : j = [Idle EXCEPT !.op = "expel", !.pc = "look", !.user = u, !.room = r, !.left = {v}]
        OBVIOUS
    <2>3. j \in JobType /\ WellMade(j) /\ j.room = r /\ j.op = "expel" /\ j.pc = "look"
        BY <2>2 DEF Idle, JobType, Ops, Points, Types, Somebody, WellMade
    <2> QED
        BY <1>2, <1>4, <2>1, <2>2, <2>3 DEF Expel
<1>5. ASSUME NEW r \in Rooms, NEW v \in Users, NEW role \in Roles, Add(h, r, v, role) PROVE OInv'
    <2>1. Exists(r) /\ \A g \in Jobs : Making(g) => job[g].room # r
        BY <1>5 DEF Add, Making
    <2>2. PICK j : j = [Idle EXCEPT !.op = "add", !.pc = "insert", !.room = r, !.left = {v},
                            !.role = role]
        OBVIOUS
    <2>3. j \in JobType /\ WellMade(j) /\ j.room = r /\ j.op = "add" /\ j.pc = "insert"
        BY <2>2 DEF Idle, JobType, Ops, Points, Types, Somebody, WellMade
    <2> QED
        BY <1>2, <1>5, <2>1, <2>2, <2>3 DEF Add
<1> QED
    BY <1>1, <1>3, <1>4, <1>5 DEF Request

-----------------------------------------------------------------------------
(* The statements, one by one                                              *)

\* Looking something up.
LEMMA LookUpsKeep ==
    ASSUME OInv, NEW h \in Jobs,
           \/ FindDirect(h) \/ LookUpMember(h) \/ CountLeft(h) \/ LookUpTarget(h)
           \/ LookUpOwner(h) \/ LookUpSender(h)
    PROVE  OInv'
<1>1. ~Making(h) /\ RolesKeep /\ Remembers /\ UNCHANGED <<room, gone>>
    <2>1. UNCHANGED <<room, member, gone>> /\ ~Making(h)
        BY DEF FindDirect, LookUpMember, CountLeft, LookUpTarget, LookUpOwner, LookUpSender,
           Making, At, tables
    <2>2. Remembers
        BY DEF FindDirect, LookUpMember, CountLeft, LookUpTarget, LookUpOwner, LookUpSender,
           history, Remembers
    <2> QED
        BY <2>1, <2>2, SameRoles
<1>2. CASE Finish(h)
    BY <1>1, <1>2, FinishKeeps
<1>3. CASE FindDirect(h) /\ ~Finish(h)
    BY <1>1, <1>3, GotoKeeps DEF FindDirect, At, Points
<1>4. CASE LookUpMember(h) /\ ~Finish(h)
    <2>1. CASE member[job[h].room][job[h].user] = "owner"
        BY <1>1, <1>4, <2>1, GotoKeeps DEF LookUpMember, GoOn, At, Points
    <2>2. CASE member[job[h].room][job[h].user] # "owner"
        BY <1>1, <1>4, <2>2, GotoKeeps DEF LookUpMember, GoOn, At, Points
    <2> QED
        BY <2>1, <2>2
<1>5. CASE CountLeft(h) /\ ~Finish(h)
    BY <1>1, <1>5, GotoKeeps DEF CountLeft, GoOn, At, Points
<1>6. CASE LookUpTarget(h) /\ ~Finish(h)
    <2>1. Goto(h, "go") /\ job[h].op = "expel" /\ job[h].left \subseteq Users
        BY <1>6 DEF LookUpTarget, GoOn, At, OInv, JobType
    <2>2. \A v \in job[h].left : MayExpel(job[h].user, job[h].room, v)
        BY <1>6 DEF LookUpTarget, GoOn
    <2>3. job[h].room \in Rooms /\ job[h].user \in Users
        BY <2>1 DEF OInv, Known, Holds, Made, WellMade
    <2>4. job[h].room \in Unowned' \/ \A v \in job[h].left : member[job[h].room][v] # "owner"
        BY <1>1, <2>1, <2>2, <2>3, Remembered DEF MayExpel, OInv, One
    <2> QED
        BY <1>1, <2>1, <2>4, GotoKeeps DEF Points
<1>7. CASE LookUpOwner(h) /\ ~Finish(h)
    BY <1>1, <1>7, GotoKeeps DEF LookUpOwner, GoOn, At, Points
<1>8. CASE LookUpSender(h) /\ ~Finish(h)
    BY <1>1, <1>8, GotoKeeps DEF LookUpSender, GoOn, At, Points
<1> QED
    BY <1>2, <1>3, <1>4, <1>5, <1>6, <1>7, <1>8

\* Members are added to a room that exists, and whoever is one stays what he is.
LEMMA InsertRoles ==
    ASSUME OInv, NEW r \in Rooms, NEW u \in Users, NEW role \in Roles, MayInsert(r, u),
           Insert(r, u, role), role = "member" \/ r \in Unowned',
           \A g \in Jobs : Making(g) => job[g].room # r
    PROVE  RolesKeep
<1>1. \A q \in Rooms, v \in Users :
        member'[q][v] = IF q = r /\ v = u /\ member[q][v] = "none" THEN role ELSE member[q][v]
    BY DEF OInv, RTypeOK, Insert
<1>2. member' \in [Rooms -> [Users -> Roles \union {"none"}]]
    BY DEF OInv, RTypeOK, Insert
<1> QED
    BY <1>1, <1>2 DEF RolesKeep, MayInsert

LEMMA RemoveRoles ==
    ASSUME OInv, NEW r \in Rooms, NEW u \in Users, member[r][u] # "owner" \/ r \in Unowned',
           \A g \in Jobs : Making(g) => job[g].room # r,
           member' = [member EXCEPT ![r][u] = "none"]
    PROVE  RolesKeep
<1>1. \A q \in Rooms, v \in Users :
        member'[q][v] = IF q = r /\ v = u THEN "none" ELSE member[q][v]
    BY DEF OInv, RTypeOK
<1>2. member' \in [Rooms -> [Users -> Roles \union {"none"}]]
    BY DEF OInv, RTypeOK
<1>3. member[r][u] = "none" \/ (Exists(r) /\ member[r][u] \in {"owner", "member"})
    BY DEF OInv, RTypeOK, Roles
<1> QED
    BY <1>1, <1>2, <1>3 DEF RolesKeep

\* A room in hand is not one about to get its owner.
LEMMA InHand ==
    ASSUME OInv, NEW h \in Jobs, Holds(job[h]), ~Making(h)
    PROVE  job[h].room \in Rooms /\ \A g \in Jobs : Making(g) => job[g].room # job[h].room
BY DEF OInv, Known, Fresh

\* What is refused is remembered.
LEMMA RefuseKeeps ==
    ASSUME OInv, NEW h \in Jobs, Refuse(h), UNCHANGED <<room, gone, crossed, thinned, added, bereft>>
    PROVE  OInv'
<1>1. Finish(h) /\ RolesKeep /\ Remembers /\ job[h].room \in broken'
    BY SameRoles DEF Refuse, Remembers
<1> QED
    BY <1>1, FinishKeeps

LEMMA SaveMemberKeeps ==
    ASSUME OInv, NEW h \in Jobs, NEW u \in Users, SaveMember(h, u) PROVE OInv'
<1>1. /\ Holds(job[h]) /\ ~Making(h) /\ job[h].op = "create" /\ job[h].pc = "members"
      /\ UNCHANGED <<room, gone, crossed, thinned, added, bereft>> /\ u \in job[h].left
    BY DEF SaveMember, At, Holds, Making
<1>2. CASE ~MayInsert(job[h].room, u)
    BY <1>1, <1>2, RefuseKeeps DEF SaveMember
<1>3. CASE MayInsert(job[h].room, u)
    <2>1. RolesKeep
        <3>1. PICK r \in Rooms : r = job[h].room
            BY <1>1, InHand
        <3>2. Insert(r, u, "member")
            BY <1>3, <3>1 DEF SaveMember
        <3> QED
            BY <1>1, <1>3, <3>1, <3>2, InHand, InsertRoles DEF Roles
    <2>2. Remembers
        BY <1>1, <1>3, SameHistory DEF SaveMember
    <2>3. CASE job[h].left = {u}
        BY <1>1, <1>3, <2>1, <2>2, <2>3, FinishKeeps DEF SaveMember
    <2>4. CASE job[h].left # {u}
        <3>1. PICK j \in JobType : j = [job[h] EXCEPT !.left = @ \ {u}]
            BY DEF OInv, JobType
        <3>2. /\ j.op = "create" /\ j.pc = "members" /\ j.room = job[h].room
              /\ j.user = job[h].user /\ j.type = job[h].type
            BY <1>1, <3>1 DEF OInv, JobType
        <3>3. Next1(h, j)
            BY <1>1, <3>2 DEF Next1, OInv, Made, WellMade
        <3>4. job' = [job EXCEPT ![h] = j]
            BY <1>3, <2>4, <3>1 DEF SaveMember, OInv
        <3> QED
            BY <1>1, <2>1, <2>2, <3>3, <3>4, CallStep
    <2> QED
        BY <2>3, <2>4
<1> QED
    BY <1>2, <1>3

LEMMA AddMemberKeeps == ASSUME OInv, NEW h \in Jobs, AddMember(h) PROVE OInv'
<1>1. /\ Holds(job[h]) /\ ~Making(h) /\ Finish(h) /\ job[h].op = "add"
      /\ UNCHANGED <<room, gone, crossed, broken, thinned, bereft>>
    BY DEF AddMember, At, Holds, Making
<1>2. PICK r \in Rooms : r = job[h].room
    BY <1>1, InHand
<1>3. PICK v \in Users : job[h].left = {v}
    BY <1>1 DEF OInv, Made, WellMade
<1>4. PICK role \in Roles : role = job[h].role
    BY <1>1 DEF OInv, Made, WellMade
<1>5. \/ /\ MayInsert(r, v) /\ Insert(r, v, role) /\ added' = added \union {<<r, v, role>>}
      \/ UNCHANGED <<member, added>>
    BY <1>2, <1>3, <1>4 DEF AddMember
<1>6. Remembers
    BY <1>1, <1>5 DEF Remembers
<1>7. RolesKeep
    <2>1. CASE UNCHANGED member
        BY <2>1, SameRoles
    <2>2. CASE MayInsert(r, v) /\ Insert(r, v, role) /\ added' = added \union {<<r, v, role>>}
        <3>1. role = "member" \/ r \in Unowned'
            BY <2>2 DEF Unowned, Roles
        <3> QED
            BY <1>1, <1>2, <2>2, <3>1, InHand, InsertRoles
    <2> QED
        BY <1>5, <2>1, <2>2
<1> QED
    BY <1>1, <1>6, <1>7, FinishKeeps

LEMMA GoKeeps == ASSUME OInv, NEW h \in Jobs, Go(h) PROVE OInv'
<1>1. /\ Holds(job[h]) /\ ~Making(h) /\ job[h].op = "leave" /\ job[h].pc = "go"
      /\ UNCHANGED <<room, gone>> /\ Remembers /\ Goto(h, "count")
      /\ RemoveMember(job[h].room, job[h].user)
    BY SameHistory DEF Go, At, Holds, Making, history, RemoveMember
<1>2. PICK r \in Rooms : r = job[h].room
    BY <1>1, InHand
<1>3. PICK u \in Users : u = job[h].user
    BY <1>1 DEF OInv, Made, WellMade
<1>4. member[r][u] # "owner" \/ r \in Unowned'
    BY <1>1, <1>2, <1>3, Remembered DEF OInv, Decided, At
<1>5. member' = [member EXCEPT ![r][u] = "none"]
    BY <1>1, <1>2, <1>3 DEF RemoveMember
<1>6. RolesKeep
    BY <1>1, <1>2, <1>4, <1>5, InHand, RemoveRoles
<1> QED
    BY <1>1, <1>6, GotoKeeps DEF Points

LEMMA RemoveTargetKeeps == ASSUME OInv, NEW h \in Jobs, RemoveTarget(h) PROVE OInv'
<1>1. /\ Holds(job[h]) /\ ~Making(h) /\ job[h].op = "expel" /\ job[h].pc = "go"
      /\ Remembers /\ Finish(h)
    BY DEF RemoveTarget, At, Holds, Making, Remembers
<1>2. PICK r \in Rooms : r = job[h].room
    BY <1>1, InHand
<1>3. PICK v \in Users : job[h].left = {v}
    BY <1>1 DEF OInv, Made, WellMade
<1>4. member[r][v] # "owner" \/ r \in Unowned'
    BY <1>1, <1>2, <1>3, Remembered DEF OInv, Decided, At
<1>5. member' = [member EXCEPT ![r][v] = "none"] /\ UNCHANGED <<room, gone>>
    BY <1>1, <1>2, <1>3 DEF RemoveTarget, RemoveMember
<1>6. RolesKeep
    BY <1>1, <1>2, <1>4, <1>5, InHand, RemoveRoles
<1> QED
    BY <1>1, <1>5, <1>6, FinishKeeps

\* A room is saved under an id nobody knows.
LEMMA SaveRoomKeeps == ASSUME OInv, NEW h \in Jobs, SaveRoom(h) PROVE OInv'
<1>1. /\ job[h].op = "create" /\ job[h].pc = "save" /\ UNCHANGED <<member, gone>>
      /\ job[h].type \in Types /\ Unowned' = Unowned /\ RolesKeep /\ Remembers
    BY SameHistory, SameRoles DEF SaveRoom, At, history, OInv, Made, WellMade, Unowned
<1>2. CASE job[h].user \in gone
    <2>1. Finish(h) /\ UNCHANGED room
        BY <1>2 DEF SaveRoom
    <2>2. ~Making(h)
        BY <1>1 DEF Making, At
    <2> QED
        BY <1>1, <2>1, <2>2, FinishKeeps
<1>3. CASE job[h].user \notin gone
    <2>1. PICK r \in Rooms : room[r] = "none" /\ r = CHOOSE q \in Rooms : room[q] = "none"
        BY DEF SaveRoom
    <2>2. room' = [room EXCEPT ![r] = job[h].type] /\ job' = [job EXCEPT ![h].room = r, ![h].pc = "owner"]
        BY <1>3, <2>1 DEF SaveRoom
    <2>3. PICK j \in JobType : j = [job[h] EXCEPT !.room = r, !.pc = "owner"]
        BY ZenonT(30) DEF OInv, JobType, Points
    <2>4. /\ j.op = "create" /\ j.pc = "owner" /\ j.room = r /\ j.user = job[h].user
          /\ j.type = job[h].type
        BY <1>1, <2>3 DEF OInv, JobType
    <2>5. /\ job' \in [Jobs -> JobType] /\ job'[h] = j /\ \A g \in Jobs \ {h} : job'[g] = job[g]
        BY <2>2, <2>3 DEF OInv
    <2>6. \A q \in Rooms : room'[q] = IF q = r THEN job[h].type ELSE room[q]
        BY <2>2 DEF OInv, RTypeOK
    <2>7. RTypeOK'
        BY <1>1, <2>2, <2>6 DEF OInv, RTypeOK, Exists
    <2>8. Made'
        BY <1>1, <2>4, <2>5 DEF OInv, Made, WellMade
    <2>9. Known'
        BY <1>1, <2>4, <2>5, <2>6 DEF OInv, Known, Types
    <2>10. Fresh'
        <3>1. \A g \in Jobs \ {h} : Holds(job[g]) => job[g].room # r
            BY <2>1 DEF OInv, Known
        <3>2. \A u \in Users : member[r][u] = "none"
            BY <2>1 DEF OInv, RTypeOK, Exists, Types
        <3>3. ASSUME NEW g \in Jobs \ {h}, Making(g)'
              PROVE  /\ Making(g) /\ job'[g] = job[g] /\ job[g].room # r
                     /\ \A k \in Jobs : k # g /\ Holds(job'[k]) => job'[k].room # job[g].room
            <4>1. Making(g) /\ job'[g] = job[g] /\ Holds(job[g])
                BY <2>5, <3>3 DEF Making, At, Holds
            <4> QED
                BY <2>4, <2>5, <3>1, <4>1 DEF OInv, Fresh
        <3> QED
            BY <1>1, <2>4, <2>5, <3>1, <3>2, <3>3 DEF OInv, Fresh
    <2>11. One'
        BY <1>1 DEF OInv, One
    <2>12. Owned'
        <3>1. Making(h)' /\ job'[h].room = r
            BY <2>4, <2>5 DEF Making, At
        <3>2. \A g \in Jobs : Making(g) => Making(g)' /\ job'[g].room = job[g].room
            BY <1>1, <2>5 DEF Making, At
        <3> QED
            BY <1>1, <2>6, <3>1, <3>2 DEF OInv, Owned, Exists
    <2>13. Decided'
        BY <1>1, <2>4, <2>5 DEF OInv, Decided, At
    <2> QED
        BY <2>5, <2>7, <2>8, <2>9, <2>10, <2>11, <2>12, <2>13 DEF OInv
<1> QED
    BY <1>2, <1>3

\* The room gets its owner while nobody else can know it.
LEMMA SaveOwnerKeeps == ASSUME OInv, NEW h \in Jobs, SaveOwner(h) PROVE OInv'
<1>1. /\ Making(h) /\ Holds(job[h]) /\ UNCHANGED <<room, gone, crossed, thinned, added, bereft>>
      /\ job[h].op = "create" /\ job[h].pc = "owner"
    BY DEF SaveOwner, At, Making, Holds
<1>2. PICK r \in Rooms : r = job[h].room
    BY <1>1 DEF OInv, Known
<1>3. PICK u \in Users : u = job[h].user
    BY <1>1 DEF OInv, Made, WellMade
<1>4. CASE ~MayInsert(r, u)
    BY <1>1, <1>2, <1>3, <1>4, RefuseKeeps DEF SaveOwner
<1>5. CASE MayInsert(r, u)
    <2>1. (Goto(h, "members") \/ Finish(h)) /\ UNCHANGED broken
        BY <1>2, <1>3, <1>5 DEF SaveOwner, GoOn
    <2>2. /\ \A v \in Users : member[r][v] = "none"
          /\ \A g \in Jobs \ {h} : Holds(job[g]) => job[g].room # r
        BY <1>1, <1>2 DEF OInv, Fresh
    <2>3. Insert(r, u, "owner")
        BY <1>2, <1>3, <1>5 DEF SaveOwner
    <2>4. /\ member' \in [Rooms -> [Users -> Roles \union {"none"}]]
          /\ \A q \in Rooms, v \in Users :
               member'[q][v] = IF q = r /\ v = u THEN "owner" ELSE member[q][v]
        BY <2>2, <2>3 DEF Insert, OInv, RTypeOK, Roles
    <2>5. PICK k \in JobType : k = [job[h] EXCEPT !.pc = "members"]
        BY ZenonT(30) DEF OInv, JobType, Points
    <2>6. /\ k.op = "create" /\ k.pc = "members" /\ k.room = r /\ k.user = u
          /\ k.type = job[h].type
        BY <1>1, <1>2, <1>3, <2>5 DEF OInv, JobType
    <2>7. PICK j \in JobType : job' = [job EXCEPT ![h] = j] /\ (j = k \/ j = Idle)
        BY <2>1, <2>5, IdleStep DEF Goto, Finish, OInv
    <2>8. /\ Holds(j) => j.room = r
          /\ j.op \in {"create", "idle"} /\ ~(j.op = "create" /\ j.pc = "owner") /\ WellMade(j)
        BY <1>1, <2>6, <2>7, IdleStep DEF OInv, Made, WellMade
    <2>9. /\ job' \in [Jobs -> JobType] /\ job'[h] = j
          /\ \A g \in Jobs \ {h} : job'[g] = job[g]
        BY <2>7 DEF OInv
    <2>10. \A g \in Jobs : Making(g)' => g # h /\ Making(g)
        BY <2>8, <2>9 DEF Making, At
    <2>11. RTypeOK'
        BY <1>1, <1>5, <2>4 DEF OInv, RTypeOK, Exists, MayInsert
    <2>12. Made' /\ Known'
        BY <1>1, <1>2, <2>8, <2>9 DEF OInv, Made, Known
    <2>13. Fresh'
        <3>1. \A g \in Jobs : Making(g) => job[g].room \in Rooms /\ Holds(job[g])
            BY DEF OInv, Known, Making, At, Holds
        <3>2. ASSUME NEW g \in Jobs, Making(g)'
              PROVE  /\ \A i \in Jobs : i # g /\ Holds(job'[i]) => job'[i].room # job'[g].room
                     /\ \A v \in Users : member'[job'[g].room][v] = "none"
            <4>1. g # h /\ Making(g) /\ job'[g] = job[g] /\ job[g].room \in Rooms \ {r}
                BY <2>2, <2>9, <2>10, <3>1, <3>2
            <4>2. \A i \in Jobs : i # g /\ Holds(job[i]) => job[i].room # job[g].room
                BY <4>1 DEF OInv, Fresh
            <4>3. \A v \in Users : member[job[g].room][v] = "none"
                BY <4>1 DEF OInv, Fresh
            <4> QED
                BY <2>4, <2>8, <2>9, <4>1, <4>2, <4>3
        <3> QED
            BY <3>2 DEF Fresh
    <2>14. Unowned' = Unowned
        BY <1>1, <2>1 DEF Unowned
    <2>15. One'
        BY <2>2, <2>4, <2>14 DEF OInv, One
    <2>16. Owned'
        <3>1. \A g \in Jobs \ {h} : Making(g) => Making(g)' /\ job'[g].room = job[g].room
            BY <2>9 DEF Making, At
        <3>2. \A q \in Rooms \ {r}, v \in Users : member'[q][v] = member[q][v]
            BY <2>4
        <3> QED
            BY <1>1, <1>2, <2>4, <2>14, <3>1, <3>2 DEF OInv, Owned, Exists
    <2>17. Decided'
        <3>1. ASSUME NEW g \in Jobs \ {h}, job[g].op \in {"leave", "expel"}
              PROVE  /\ job[g].room \in Rooms \ {r} /\ job[g].user \in Users
                     /\ job[g].left \subseteq Users
            BY <2>2, <3>1 DEF OInv, Known, Holds, Made, WellMade, JobType
        <3>2. ASSUME NEW g \in Jobs, job'[g].room \notin Unowned'
              PROVE  /\ At(g, "leave", "go")' => member'[job'[g].room][job'[g].user] # "owner"
                     /\ At(g, "expel", "go")' => \A v \in job'[g].left :
                                                    member'[job'[g].room][v] # "owner"
            <4>1. CASE g = h
                BY <2>8, <2>9, <4>1 DEF At
            <4>2. CASE g # h
                BY <2>4, <2>9, <2>14, <3>1, <3>2, <4>2 DEF OInv, Decided, At
            <4> QED
                BY <4>1, <4>2
        <3> QED
            BY <3>2 DEF Decided
    <2> QED
        BY <2>9, <2>11, <2>12, <2>13, <2>15, <2>16, <2>17 DEF OInv
<1> QED
    BY <1>4, <1>5

LEMMA CloseKeeps == ASSUME OInv, NEW h \in Jobs, Close(h) PROVE OInv'
<1>1. /\ Holds(job[h]) /\ ~Making(h) /\ Unowned' = Unowned /\ Finish(h) /\ UNCHANGED gone
    BY DEF Close, RemoveRoom, At, Making, Holds, history, Unowned
<1>2. PICK r \in Rooms : r = job[h].room
    BY <1>1, InHand
<1>3. \A g \in Jobs : Making(g) => job[g].room # r
    BY <1>1, <1>2, InHand
<1>4. /\ \A q \in Rooms : room'[q] = IF q = r THEN "removed" ELSE room[q]
      /\ \A q \in Rooms, u \in Users : member'[q][u] = IF q = r THEN "none" ELSE member[q][u]
      /\ room' \in [Rooms -> Types \union {"none", "removed"}]
      /\ member' \in [Rooms -> [Users -> Roles \union {"none"}]]
    BY <1>1, <1>2 DEF Close, RemoveRoom, NoMembers, OInv, RTypeOK, Known
<1>5. job' \in [Jobs -> JobType] /\ job'[h] = Idle /\ \A g \in Jobs \ {h} : job'[g] = job[g]
    BY <1>1, IdleStep DEF Finish, OInv
<1>6. \A g \in Jobs : Making(g)' <=> Making(g)
    BY <1>1, <1>5, IdleStep DEF Making, At
<1>7. RTypeOK' /\ One'
    BY <1>1, <1>4 DEF OInv, RTypeOK, Exists, Types, One
<1>8. Made' /\ Known'
    BY <1>4, <1>5, IdleStep DEF OInv, Made, Known, Types
<1>9. Fresh'
    <2>1. \A g \in Jobs : Making(g) => job[g].room \in Rooms
        BY DEF OInv, Known, Making, At, Holds
    <2>2. \A g \in Jobs : Making(g)' => Making(g) /\ job'[g] = job[g]
        BY <1>1, <1>5, <1>6
    <2>3. \A k \in Jobs : Holds(job'[k]) => Holds(job[k]) /\ job'[k] = job[k]
        BY <1>5, IdleStep
    <2>4. ASSUME NEW g \in Jobs, Making(g)'
          PROVE  /\ \A k \in Jobs : k # g /\ Holds(job'[k]) => job'[k].room # job'[g].room
                 /\ \A u \in Users : member'[job'[g].room][u] = "none"
        <3>1. /\ \A k \in Jobs : k # g /\ Holds(job[k]) => job[k].room # job[g].room
              /\ \A u \in Users : member[job[g].room][u] = "none"
            BY <2>2, <2>4 DEF OInv, Fresh
        <3>2. job'[g] = job[g] /\ job[g].room \in Rooms
            BY <2>1, <2>2, <2>4
        <3>3. \A u \in Users : member'[job[g].room][u] = "none"
            BY <1>4, <3>1, <3>2
        <3> QED
            BY <2>3, <3>1, <3>2, <3>3
    <2> QED
        BY <2>4 DEF Fresh
<1>10. Owned'
    BY <1>1, <1>3, <1>4, <1>5, <1>6 DEF OInv, Owned, Exists, Types
<1>11. Decided'
    <2>1. ASSUME NEW g \in Jobs, job[g].op \in {"leave", "expel"}
          PROVE  /\ job[g].room \in Rooms /\ job[g].user \in Users /\ job[g].left \subseteq Users
        BY <2>1 DEF OInv, Known, Holds, Made, WellMade, JobType
    <2>2. ASSUME NEW g \in Jobs \ {h}, job'[g].room \notin Unowned'
          PROVE  /\ At(g, "leave", "go")' => member'[job'[g].room][job'[g].user] # "owner"
                 /\ At(g, "expel", "go")' => \A v \in job'[g].left :
                                                member'[job'[g].room][v] # "owner"
        <3>1. job'[g] = job[g]
            BY <1>5
        <3>2. CASE job[g].op = "leave"
            BY <1>1, <1>4, <2>1, <2>2, <3>1, <3>2 DEF OInv, Decided, At
        <3>3. CASE job[g].op = "expel"
            BY <1>1, <1>4, <2>1, <2>2, <3>1, <3>3 DEF OInv, Decided, At
        <3> QED
            BY <3>1, <3>2, <3>3 DEF At
    <2> QED
        BY <1>5, <2>2, IdleStep DEF Decided, At
<1> QED
    BY <1>5, <1>7, <1>8, <1>9, <1>10, <1>11 DEF OInv

\* Messages leave rooms and members alone, and a call that fails while it makes a room
\* is remembered.
LEMMA MessagesKeep == ASSUME OInv, NEW h \in Jobs, Begin(h) \/ Commit(h) \/ Emit(h) PROVE OInv'
<1>1. /\ job[h].op = "send" /\ ~Making(h) /\ ~Holds(job[h]) /\ RolesKeep
      /\ UNCHANGED <<room, gone>> /\ Remembers
    BY SameRoles, SameHistory DEF Begin, Commit, Emit, At, Making, Holds, tables, history
<1>2. CASE Finish(h)
    BY <1>1, <1>2, FinishKeeps
<1>3. CASE Begin(h)
    <2>1. PICK m \in Messages : job' = [job EXCEPT ![h].message = m, ![h].pc = "commit"]
        BY <1>3 DEF Begin
    <2>2. PICK j \in JobType : j = [job[h] EXCEPT !.message = m, !.pc = "commit"]
        <3>1. job[h] \in JobType /\ m \in Nat /\ "commit" \in Points
            BY ChatAssumption DEF OInv, Messages, Points
        <3> QED
            BY <3>1 DEF JobType
    <2>3. j.op = "send" /\ j.user = job[h].user /\ job' = [job EXCEPT ![h] = j]
        BY <1>1, <2>1, <2>2 DEF OInv, JobType
    <2>4. Next1(h, j)
        BY <1>1, <2>3 DEF Next1, Holds, OInv, Made, WellMade
    <2> QED
        BY <1>1, <2>3, <2>4, CallStep
<1>4. CASE Commit(h) /\ ~Finish(h)
    BY <1>1, <1>4, GotoKeeps DEF Commit, Points
<1> QED
    BY <1>2, <1>3, <1>4 DEF Emit

LEMMA FailKeeps == ASSUME OInv, NEW h \in Jobs, Fail(h) PROVE OInv'
<1>1. UNCHANGED <<room, gone>> /\ RolesKeep /\ Finish(h) /\ Remembers
    BY SameRoles DEF Fail, tables, Remembers
<1>2. Making(h) => job[h].room \in broken'
    BY DEF Fail, Making, At
<1> QED
    BY <1>1, <1>2, FinishKeeps

LEMMA SendKeeps ==
    ASSUME OInv, NEW h \in Jobs, NEW u \in Users, NEW r \in Rooms, Send(h, u, r) PROVE OInv'
<1>1. PICK j : j = [Idle EXCEPT !.op = "send", !.pc = "look", !.user = u, !.room = r]
    OBVIOUS
<1>2. j \in JobType /\ j.op = "send" /\ WellMade(j)
    BY <1>1 DEF Idle, JobType, Ops, Points, Types, Somebody, WellMade
<1>3. Next1(h, j)
    BY <1>2 DEF Next1, Holds
<1> QED
    BY <1>1, <1>3, StartKeeps DEF Send

\* Pages change no room.
Lasting == <<room, member, gone, job, crossed, broken, thinned, added, alone, bereft>>

LEMMA PagesChangeNoRoom == ASSUME NEW u \in Readers, PageStep(u) PROVE UNCHANGED Lasting
<1>1. ASSUME NEW r \in Rooms, OpenPage(u, r) \/ MarkMessagesAsRead(u, r) PROVE UNCHANGED Lasting
    BY <1>1 DEF OpenPage, MarkMessagesAsRead, tables, history, Lasting
<1>2. ASSUME UNCHANGED chat PROVE UNCHANGED Lasting
    BY <1>2 DEF chat, Lasting
<1>3. ASSUME NEW a \in reading[u], Read(u, a) \/ Arrive(u, a) \/ FailRead(u, a) PROVE UNCHANGED Lasting
    BY <1>2, <1>3 DEF Read, Arrive, FailRead
<1>4. ASSUME NEW q \in asking[u], CheckMember(u, q) PROVE UNCHANGED Lasting
    BY <1>2, <1>4 DEF CheckMember
<1>5. ASSUME NEW q \in asking[u], Subscribe(u, q) PROVE UNCHANGED Lasting
    BY <1>5 DEF Subscribe, tables, history, Lasting
<1>6. CASE LoadMore(u)
    BY <1>2, <1>6 DEF LoadMore
<1>7. CASE Receive(u)
    BY <1>7 DEF Receive, tables, history, Lasting
<1>8. CASE Drop(u)
    BY <1>8 DEF Drop, Disconnect, tables, Lasting
<1> QED
    BY <1>1, <1>3, <1>4, <1>5, <1>6, <1>7, <1>8 DEF PageStep

LEMMA Untouched ==
    ASSUME OInv, UNCHANGED <<room, member, gone, job, broken, added, bereft>> PROVE OInv'
<1>1. Unowned' = Unowned
    BY DEF Unowned
<1>2. RTypeOK' /\ Made' /\ Known' /\ job' \in [Jobs -> JobType]
    BY DEF OInv, RTypeOK, Exists, Made, Known
<1>3. Fresh' /\ One' /\ Owned'
    BY <1>1 DEF OInv, Fresh, One, Owned, Exists, Making, At
<1>4. Decided'
    BY <1>1 DEF OInv, Decided, At
<1> QED
    BY <1>2, <1>3, <1>4 DEF OInv

\* An account is removed: of the rooms vouched for no owner goes.
LEMMA RemoveAccountKeeps == ASSUME OInv, NEW u \in Users, RemoveAccount(u) PROVE OInv'
<1>1. /\ UNCHANGED <<room, job, broken, added>> /\ gone' = gone \union {u}
      /\ \A r \in RoomsOf(u) : <<r, member[r][u]>> \in bereft'
      /\ bereft \subseteq bereft'
      /\ member' = [r \in Rooms |-> [member[r] EXCEPT ![u] = "none"]]
    BY DEF RemoveAccount
<1>2. /\ member' \in [Rooms -> [Users -> Roles \union {"none"}]]
      /\ \A r \in Rooms, v \in Users : member'[r][v] = IF v = u THEN "none" ELSE member[r][v]
    BY <1>1 DEF OInv, RTypeOK
<1>3. Unowned \subseteq Unowned' /\ \A r \in Rooms : member[r][u] = "owner" => r \in Unowned'
    BY <1>1 DEF Unowned, RoomsOf
<1>4. RTypeOK'
    BY <1>1, <1>2 DEF OInv, RTypeOK, Exists
<1>5. Made' /\ Known'
    BY <1>1 DEF OInv, Made, Known
<1>6. \A h \in Jobs : Making(h)' = Making(h)
    BY <1>1 DEF Making, At
<1>7. Fresh'
    <2>1. \A h \in Jobs : Making(h) => job[h].room \in Rooms
        BY DEF OInv, Known, Making, At, Holds
    <2> QED
        BY <1>1, <1>2, <1>6, <2>1 DEF OInv, Fresh
<1>8. One'
    BY <1>2, <1>3 DEF OInv, One
<1>9. Owned'
    BY <1>1, <1>2, <1>3, <1>6 DEF OInv, Owned, Exists
<1>10. Decided'
    <2>1. ASSUME NEW h \in Jobs, job[h].op \in {"leave", "expel"}
          PROVE  /\ job[h].room \in Rooms /\ job[h].user \in Users /\ job[h].left \subseteq Users
        BY <2>1 DEF OInv, Known, Holds, Made, WellMade, JobType
    <2>2. ASSUME NEW h \in Jobs, job[h].room \notin Unowned'
          PROVE  /\ At(h, "leave", "go") => member'[job[h].room][job[h].user] # "owner"
                 /\ At(h, "expel", "go") => \A v \in job[h].left : member'[job[h].room][v] # "owner"
        BY <1>2, <1>3, <2>1, <2>2 DEF OInv, Decided, At
    <2> QED
        BY <1>1, <2>2 DEF Decided, At
<1> QED
    BY <1>1, <1>4, <1>5, <1>7, <1>8, <1>9, <1>10 DEF OInv

-----------------------------------------------------------------------------
(* The theorems                                                            *)

LEMMA InitHolds == CInit => OInv
<1> SUFFICES ASSUME CInit PROVE OInv
    OBVIOUS
<1>1. PICK o \in Users, others \in SUBSET Users, there \in BOOLEAN :
        /\ there => o \notin others
        /\ room = [r \in Rooms |-> IF r = FirstRoom /\ there THEN "group" ELSE "none"]
        /\ member = [r \in Rooms |-> IF r = FirstRoom /\ there THEN Group(o, others) ELSE NoMembers]
    <2>1. PICK o \in Users, others \in SUBSET Users, old \in {0, MaxMessages - 1} :
            LET there == others # {} /\ o \notin others
            IN  /\ room = [r \in Rooms |-> IF r = FirstRoom /\ there THEN "group" ELSE "none"]
                /\ member = [r \in Rooms |-> IF r = FirstRoom /\ there THEN Group(o, others)
                                              ELSE NoMembers]
        BY DEF CInit, RInit
    <2> QED
        BY <2>1
<1>2. /\ \A u \in Users : Group(o, others)[u] \in Roles \union {"none"}
      /\ there => \A u \in Users : (Group(o, others)[u] = "owner" <=> u = o)
      /\ \A u \in Users : NoMembers[u] = "none"
      /\ Group(o, others) \in [Users -> Roles \union {"none"}]
      /\ NoMembers \in [Users -> Roles \union {"none"}]
    <2>1. ASSUME NEW u \in Users
          PROVE  /\ Group(o, others)[u] \in Roles \union {"none"}
                 /\ there => (Group(o, others)[u] = "owner" <=> u = o)
        BY <1>1 DEF Group, Roles
    <2>2. Group(o, others) = [u \in Users |-> Group(o, others)[u]]
        BY DEF Group
    <2>3. Group(o, others) \in [Users -> Roles \union {"none"}]
        BY <2>1, <2>2
    <2> QED
        BY <2>1, <2>3 DEF NoMembers
<1>3. job = [h \in Jobs |-> Idle] /\ gone = {}
    BY DEF CInit, RInit
<1>4. RTypeOK
    BY <1>1, <1>2, <1>3 DEF RTypeOK, Exists, Types
<1>5. One /\ Owned
    BY <1>1, <1>2 DEF One, Owned, Exists, Types
<1>6. job \in [Jobs -> JobType] /\ Made /\ Known /\ Fresh /\ Decided
    BY <1>3, IdleStep DEF Made, Known, Fresh, Decided, Making, At
<1> QED
    BY <1>4, <1>5, <1>6 DEF OInv

LEMMA NextKeeps == OInv /\ [CNext]_<<chat, client>> => OInv'
<1> SUFFICES ASSUME OInv, [CNext]_<<chat, client>> PROVE OInv'
    OBVIOUS
<1>1. ASSUME NEW h \in Jobs, Serve(h) PROVE OInv'
    BY <1>1, LookUpsKeep, SaveRoomKeeps, SaveOwnerKeeps, SaveMemberKeeps, AddMemberKeeps, GoKeeps,
       CloseKeeps, RemoveTargetKeeps, MessagesKeep DEF Serve
<1>2. ASSUME NEW u \in Users, FindRooms(u) \/ JoinFound(u) \/ Connect(u) PROVE OInv'
    BY <1>2, Untouched DEF FindRooms, JoinFound, Connect, tables, history
<1>3. CASE RNext
    BY <1>1, <1>2, <1>3, FailKeeps, RequestKeeps, RemoveAccountKeeps DEF RNext
<1>4. ASSUME NEW u \in Readers, PageStep(u) PROVE OInv'
    <2>1. UNCHANGED <<room, member, gone, job, broken, added, bereft>>
        BY <1>4, PagesChangeNoRoom DEF Lasting
    <2> QED
        BY <2>1, Untouched
<1>5. CASE UNCHANGED <<chat, client>>
    BY <1>5, Untouched DEF chat
<1> QED
    BY <1>2, <1>3, <1>4, <1>5, SendKeeps, ClientAssumption DEF CNext, Say

LEMMA OInvAlways == CSpec => []OInv
BY InitHolds, NextKeeps, PTL DEF CSpec

\* Rooms have types and users roles in them, and only a room that exists has
\* members, who have accounts: nobody is added to a room that was removed meanwhile,
\* or after his account was (chat.service.ts, auth.service.ts).
THEOREM RoomsTypeCorrect == CSpec => []RTypeOK
<1>1. OInv => RTypeOK
    BY DEF OInv
<1> QED
    BY <1>1, OInvAlways, PTL

\* A room with members has its owner, who alone can close it, unless its creation or
\* somebody's leaving was cut off, the owner's account was removed, or a second owner
\* was added: leaveChatRoom, removeMemberFromRoom, addMemberToRoom and the removal of
\* other accounts may meet in any way.
THEOREM OwnerIsKept == CSpec => []OwnerStays
<1>1. OInv => OwnerStays
    <2> SUFFICES ASSUME OInv, NEW r \in Rooms, Exists(r), MembersOf(r) # {}, r \notin Unowned
                 PROVE  \E u \in Users : member[r][u] = "owner"
        BY DEF OwnerStays
    <2>1. \A h \in Jobs : Making(h) => job[h].room # r
        BY DEF OInv, Fresh, MembersOf
    <2> QED
        BY <2>1 DEF OInv, Owned
<1> QED
    BY <1>1, OInvAlways, PTL

-----------------------------------------------------------------------------
(* Pairs and those left behind                                             *)

Creates(j) == j.op = "create" /\ j.pc \in {"owner", "members"}

\* What a call carries: one other user for a direct room, and a room of its type,
\* to which nobody but the caller came with its creation, as long as it is direct.
WellPaired(j) ==
    /\ j.op # "create" => j.pair = {}
    /\ j.op = "create" => j.user \notin j.left
    /\ j.op = "create" /\ j.type = "group" => j.pair = {}
    /\ j.op = "create" /\ j.type = "direct" =>
         \E v \in Users \ {j.user} : j.left = {v} /\ j.pair = {j.user, v}
    /\ Creates(j) => room[j.room] \in {j.type, "removed"}
    /\ Creates(j) /\ j.type = "direct" => Founders(j.room) \subseteq {j.user}
Paired == \A h \in Jobs : WellPaired(job[h])

\* A room is created by one call.
OwnRooms ==
    \A g, h \in Jobs : g # h /\ Creates(job[g]) /\ Creates(job[h]) => job[g].room # job[h].room

\* Rooms whose owners nobody sent away, and whose accounts were not removed.
Kept(r) == r \notin thinned /\ <<r, "owner">> \notin bereft

\* Whoever makes such a room is its owner while the others are put in it, and is not
\* about to be removed as somebody who leaves.
Hosted ==
    \A h \in Jobs : At(h, "create", "members") /\ Exists(job[h].room) /\ Kept(job[h].room) =>
        /\ member[job[h].room][job[h].user] = "owner"
        /\ \A g \in Jobs : At(g, "leave", "go") /\ job[g].room = job[h].room =>
             job[g].user # job[h].user

\* A pair has one direct room, or one call that is making it.
Pairs == {p \in SUBSET Users : \E a, b \in Users : a # b /\ p = {a, b}}
Claims(j, p) == j.op = "create" /\ j.pair = p /\ j.pc # "find"
Complete(r, p) == room[r] = "direct" /\ p \subseteq Founders(r)
Unclaimed(p) == /\ \A h \in Jobs : ~Claims(job[h], p)
                /\ \A r \in Rooms : ~Complete(r, p)
Unique ==
    \A p \in Pairs \ crossed :
        /\ \A g, h \in Jobs : Claims(job[g], p) /\ Claims(job[h], p) => g = h
        /\ \A h \in Jobs, r \in Rooms : Claims(job[h], p) => ~Complete(r, p)
        /\ \A q, r \in Rooms : Complete(q, p) /\ Complete(r, p) => q = r

\* Where nobody, or one, is left, somebody is still coming or about to count.
Lonely(r) == \A u, v \in MembersOf(r) : u = v
Ends(j) == \/ j.op = "leave" /\ j.pc \in {"count", "close"}
           \/ j.op = "delete" /\ j.pc = "close"
           \/ Creates(j)
Watched(r) == \E h \in Jobs : job[h].room = r /\ Ends(job[h])
Attended == \A r \in Rooms : Exists(r) /\ r \notin Deserted /\ Lonely(r) => Watched(r)

PInv == Paired /\ OwnRooms /\ Hosted /\ Unique /\ Attended

\* What a call may do to those who came to a direct room with its creation: remove
\* some, make the owner of the room it creates, or complete it and end.
Joins(h, j) ==
    \A r \in Rooms : room[r] = "direct" =>
        \/ Founders(r)' \subseteq Founders(r)
        \/ /\ r = job[h].room /\ Creates(job[h]) /\ job[h].type = "direct"
           /\ \/ Founders(r)' \subseteq {job[h].user}
              \/ Founders(r)' \subseteq job[h].pair /\ j.op # "create"

\* A call that starts to make a room for a pair is the only one, or is noticed.
Lays(h, j) ==
    \A p \in Pairs : Claims(j, p) => Claims(job[h], p) \/ p \in crossed' \/ Unclaimed(p)

\* Whoever leaves one behind stays to count, or the room is not vouched for.
Leaves(h, j) ==
    \A r \in Rooms : Exists(r) /\ r \notin Deserted' /\ Lonely(r)' =>
        \/ Ends(j) /\ j.room = r
        \/ r \notin Deserted /\ Lonely(r) /\ ~(Ends(job[h]) /\ job[h].room = r)

\* An owner stays, unless he leaves as somebody who was none, or the room is not kept;
\* and who is found to be the owner does not leave that way.
Stays(h, j) ==
    /\ \A r \in Rooms, u \in Users : Kept(r)' /\ member[r][u] = "owner" =>
         member'[r][u] = "owner" \/ (At(h, "leave", "go") /\ job[h].room = r /\ job[h].user = u)
    /\ j.op = "leave" /\ j.pc = "go" => member[j.room][j.user] # "owner"
    /\ j.op = "create" /\ j.pc = "members" =>
         /\ j.room = job[h].room /\ j.user = job[h].user
         /\ At(h, "create", "members") \/ (Making(h) /\ member'[j.room][j.user] = "owner")

LEMMA FoundersGo ==
    ASSUME added \subseteq added'
    PROVE  \A r : MembersOf(r)' \subseteq MembersOf(r) => Founders(r)' \subseteq Founders(r)
BY DEF Founders

LEMMA DesertedStays ==
    ASSUME Remembers, alone \subseteq alone' PROVE Deserted \subseteq Deserted'
BY DEF Remembers, Deserted

LEMMA DesertedKept == \A r \in Rooms : r \notin Deserted => Kept(r)
BY DEF Deserted, Kept, Roles

LEMMA RoomStep ==
    ASSUME OInv, OInv', PInv, NEW h \in Jobs, NEW j, job' = [job EXCEPT ![h] = j],
           UNCHANGED room, Remembers, WellPaired(j)', Joins(h, j), Lays(h, j), Leaves(h, j),
           Stays(h, j), Creates(j) => Creates(job[h]) /\ j.room = job[h].room
    PROVE  PInv'
<1>1. job'[h] = j /\ \A g \in Jobs \ {h} : job'[g] = job[g]
    BY DEF OInv
<1>2. OwnRooms'
    BY <1>1 DEF PInv, OwnRooms
<1>3. \A g \in Jobs : /\ Holds(job[g]) => job[g].room \in Rooms
                      /\ job[g].op \in {"create", "leave"} => job[g].user \in Users
                      /\ Creates(job[g]) => Holds(job[g]) /\ job[g].op = "create"
    BY DEF OInv, Known, Made, WellMade, Creates, Holds
<1>4. Paired'
    <2>1. ASSUME NEW g \in Jobs \ {h} PROVE WellPaired(job[g])'
        <3>1. WellPaired(job[g])
            BY DEF PInv, Paired
        <3>2. Creates(job[g]) /\ job[g].type = "direct" => Founders(job[g].room)' \subseteq {job[g].user}
            <4> SUFFICES ASSUME Creates(job[g]), job[g].type = "direct"
                         PROVE  Founders(job[g].room)' \subseteq {job[g].user}
                OBVIOUS
            <4>1. PICK r \in Rooms : r = job[g].room
                BY <1>3
            <4>2. Founders(r) \subseteq {job[g].user} /\ room[r] \in {"direct", "removed"}
                BY <3>1, <4>1 DEF WellPaired
            <4>3. Founders(r)' \subseteq {job[g].user}
                <5>1. CASE room[r] = "direct"
                    BY <4>1, <4>2, <5>1 DEF Joins, PInv, OwnRooms
                <5>2. CASE room[r] = "removed"
                    BY <5>2 DEF OInv, RTypeOK, Exists, Types, MembersOf, Founders
                <5> QED BY <4>2, <5>1, <5>2
            <4> QED
                BY <1>1, <4>1, <4>3
        <3> QED
            BY <1>1, <3>1, <3>2 DEF WellPaired, Creates
    <2> QED
        BY <1>1, <2>1 DEF Paired
<1>5. Hosted'
    <2> SUFFICES ASSUME NEW k \in Jobs, At(k, "create", "members")', NEW r, r = job'[k].room,
                        Exists(r)', Kept(r)'
                 PROVE  /\ member'[r][job'[k].user] = "owner"
                        /\ \A g \in Jobs : At(g, "leave", "go")' /\ job'[g].room = r =>
                             job'[g].user # job'[k].user
        BY DEF Hosted
    <2>1. Exists(r) /\ Kept(r)
        BY DEF Exists, Kept, Remembers
    <2>2. ASSUME job'[k].op = job[k].op, job'[k].pc = job[k].pc,
                 job'[k].room = job[k].room, job'[k].user = job[k].user
          PROVE  /\ member'[r][job'[k].user] = "owner"
                 /\ \A g \in Jobs : At(g, "leave", "go")' /\ job'[g].room = r =>
                      job'[g].user # job'[k].user
        <3>1. At(k, "create", "members") /\ r \in Rooms /\ job[k].user \in Users /\ job[k].room = r
            BY <1>3, <2>2 DEF At, Creates
        <3>2. /\ member[r][job[k].user] = "owner"
              /\ \A g \in Jobs : At(g, "leave", "go") /\ job[g].room = r => job[g].user # job[k].user
            BY <2>1, <3>1 DEF PInv, Hosted
        <3>3. member'[r][job[k].user] = "owner"
            BY <3>1, <3>2 DEF Stays
        <3>4. ASSUME NEW g \in Jobs, At(g, "leave", "go")', job'[g].room = r
              PROVE  job'[g].user # job[k].user
            <4>1. CASE g = h
                BY <1>1, <3>2, <3>4, <4>1 DEF Stays, At
            <4>2. CASE g # h
                BY <1>1, <3>2, <3>4, <4>2 DEF At
            <4> QED BY <4>1, <4>2
        <3> QED
            BY <2>2, <3>3, <3>4
    <2>3. CASE k # h
        BY <1>1, <2>2, <2>3
    <2>4. CASE k = h
        <3>1. j.op = "create" /\ j.pc = "members" /\ r = j.room
            BY <1>1, <2>4 DEF At
        <3>2. CASE At(h, "create", "members")
            BY <1>1, <2>2, <2>4, <3>1, <3>2 DEF Stays, At
        <3>3. CASE Making(h) /\ member'[j.room][j.user] = "owner"
            <4>1. ASSUME NEW g \in Jobs, At(g, "leave", "go")', job'[g].room = r PROVE FALSE
                <5>1. g # h /\ job[g] = job'[g] /\ Holds(job[g])
                    BY <1>1, <3>1, <4>1 DEF At, Holds
                <5>2. job[g].room = job[h].room
                    BY <3>1, <4>1, <5>1 DEF Stays
                <5> QED
                    BY <3>3, <5>1, <5>2 DEF OInv, Fresh
            <4> QED
                BY <1>1, <2>4, <3>1, <3>3, <4>1
        <3> QED
            BY <3>1, <3>2, <3>3 DEF Stays
    <2> QED
        BY <2>3, <2>4
<1>6. Unique'
    <2> SUFFICES ASSUME NEW p \in Pairs, p \notin crossed'
                 PROVE  /\ \A g, k \in Jobs : Claims(job'[g], p) /\ Claims(job'[k], p) => g = k
                        /\ \A k \in Jobs, r \in Rooms : Claims(job'[k], p) => ~Complete(r, p)'
                        /\ \A q, r \in Rooms : Complete(q, p)' /\ Complete(r, p)' => q = r
        BY DEF Unique
    <2>1. /\ \A g, k \in Jobs : Claims(job[g], p) /\ Claims(job[k], p) => g = k
          /\ \A k \in Jobs, r \in Rooms : Claims(job[k], p) => ~Complete(r, p)
          /\ \A q, r \in Rooms : Complete(q, p) /\ Complete(r, p) => q = r
        BY DEF PInv, Unique, Remembers
    <2>2. Claims(j, p) => Claims(job[h], p) \/ Unclaimed(p)
        BY DEF Lays
    <2>3. ASSUME NEW r \in Rooms, Complete(r, p)'
          PROVE  Complete(r, p) \/ (r = job[h].room /\ Claims(job[h], p) /\ j.op # "create")
        <3>1. room[r] = "direct" /\ p \subseteq Founders(r)'
            BY <2>3 DEF Complete
        <3>2. CASE Founders(r)' \subseteq Founders(r)
            BY <3>1, <3>2 DEF Complete
        <3>3. CASE ~(Founders(r)' \subseteq Founders(r))
            <4>1. r = job[h].room /\ Creates(job[h]) /\ job[h].type = "direct" /\ job[h].op = "create"
                BY <3>1, <3>3 DEF Joins, Creates
            <4>2. PICK v \in Users \ {job[h].user} : job[h].pair = {job[h].user, v}
                BY <4>1 DEF PInv, Paired, WellPaired
            <4>3. ~(p \subseteq {job[h].user})
                BY DEF Pairs
            <4>4. p \subseteq job[h].pair /\ j.op # "create"
                BY <3>1, <3>3, <4>3 DEF Joins
            <4>5. p = job[h].pair
                BY <4>2, <4>4 DEF Pairs
            <4> QED
                BY <4>1, <4>4, <4>5 DEF Claims, Creates
        <3> QED BY <3>2, <3>3
    <2>4. j.op # "create" => ~Claims(j, p)
        BY DEF Claims
    <2> QED
        BY <1>1, <2>1, <2>2, <2>3, <2>4 DEF Unclaimed
<1>7. Attended'
    <2> SUFFICES ASSUME NEW r \in Rooms, Exists(r), r \notin Deserted', Lonely(r)'
                 PROVE  \E g \in Jobs : job'[g].room = r /\ Ends(job'[g])
        BY DEF Attended, Watched, Exists
    <2>1. CASE Ends(j) /\ j.room = r
        BY <1>1, <2>1
    <2>2. CASE r \notin Deserted /\ Lonely(r) /\ ~(Ends(job[h]) /\ job[h].room = r)
        BY <1>1, <2>2 DEF PInv, Attended, Watched
    <2> QED
        BY <2>1, <2>2 DEF Leaves
<1> QED
    BY <1>2, <1>4, <1>5, <1>6, <1>7 DEF PInv

LEMMA LonelyCount ==
    ASSUME NEW S, \A x, y \in S : x = y
    PROVE  Cardinality(S) <= 1
<1>1. CASE S = {}
    BY <1>1, FS_EmptySet
<1>2. CASE S # {}
    <2>1. PICK x : S = {x}
        BY <1>2
    <2> QED
        BY <2>1, FS_Singleton
<1> QED
    BY <1>1, <1>2

\* While nobody comes or goes, a call that watches a room has to go on doing so.
LEMMA Still ==
    ASSUME UNCHANGED <<room, member>>, Remembers, alone \subseteq alone', NEW h, NEW j,
           ~(j.op = "leave" /\ j.pc = "go"), ~(j.op = "create" /\ j.pc = "members"),
           \A r \in Rooms : Exists(r) /\ r \notin Deserted' /\ Lonely(r) =>
               (Ends(job[h]) /\ job[h].room = r => Ends(j) /\ j.room = r)
    PROVE  Joins(h, j) /\ Leaves(h, j) /\ Stays(h, j)
<1>1. \A r : MembersOf(r)' = MembersOf(r) /\ Lonely(r)' = Lonely(r)
    BY DEF MembersOf, Lonely
<1>2. Joins(h, j)
    BY <1>1, FoundersGo DEF Joins, Remembers
<1>3. Leaves(h, j)
    BY <1>1, DesertedStays DEF Leaves
<1>4. Stays(h, j)
    BY DEF Stays
<1> QED
    BY <1>2, <1>3, <1>4

LEMMA IdlePaired == /\ WellPaired(Idle)' /\ ~Ends(Idle) /\ ~Creates(Idle) /\ Idle.pc = "done"
                    /\ \A h : Lays(h, Idle)
BY DEF Idle, WellPaired, Ends, Creates, Lays, Claims

\* A call ends.
LEMMA FinishPairs ==
    ASSUME OInv, OInv', PInv, NEW h \in Jobs, Finish(h), UNCHANGED room, Remembers,
           Joins(h, Idle), Leaves(h, Idle), Stays(h, Idle)
    PROVE  PInv'
BY IdlePaired, RoomStep DEF Finish

\* A call goes on to its next statement, and nobody comes or goes.
LEMMA GotoPairs ==
    ASSUME OInv, OInv', PInv, NEW h \in Jobs, NEW pc \in Points, Goto(h, pc),
           UNCHANGED <<room, member>>, Remembers, alone \subseteq alone',
           pc \notin {"owner", "members"}, ~Creates(job[h]),
           job[h].op = "leave" /\ job[h].pc \in {"count", "close"} => pc \in {"count", "close"},
           job[h].op = "leave" /\ pc = "go" => member[job[h].room][job[h].user] # "owner",
           job[h].op = "delete" /\ job[h].pc = "close" => pc = "close",
           job[h].op = "create" =>
               job[h].pair \in crossed' \/ job[h].pc # "find" \/ Unclaimed(job[h].pair)
    PROVE  PInv'
<1>1. PICK j \in JobType : j = [job[h] EXCEPT !.pc = pc]
    BY DEF OInv, JobType
<1>2. /\ j.pc = pc /\ \A x \in {"op", "user", "room", "left", "type", "pair"} : j[x] = job[h][x]
      /\ job' = [job EXCEPT ![h] = j]
    BY <1>1 DEF OInv, JobType, Goto
<1>3. ~Creates(j) /\ (Ends(job[h]) => Ends(j))
    BY <1>2 DEF Creates, Ends
<1>4. WellPaired(j)'
    BY <1>2, <1>3 DEF PInv, Paired, WellPaired
<1>5. Lays(h, j)
    BY <1>2 DEF Lays, Claims
<1>6. Joins(h, j) /\ Leaves(h, j) /\ Stays(h, j)
    <2>1. \A r : MembersOf(r)' = MembersOf(r) /\ Lonely(r)' = Lonely(r)
        BY DEF MembersOf, Lonely
    <2>2. Joins(h, j)
        BY <2>1, FoundersGo DEF Joins, Remembers
    <2>3. Leaves(h, j)
        BY <1>2, <1>3, <2>1, DesertedStays DEF Leaves
    <2>4. Stays(h, j)
        BY <1>2 DEF Stays
    <2> QED BY <2>2, <2>3, <2>4
<1> QED
    BY <1>2, <1>3, <1>4, <1>5, <1>6, RoomStep

LEMMA StartPairs ==
    ASSUME OInv, OInv', PInv, NEW h \in Jobs, NEW j, job[h] = Idle,
           job' = [job EXCEPT ![h] = j], UNCHANGED <<tables, history>>, WellPaired(j)',
           ~Creates(j), j.pc # "go", Lays(h, j)
    PROVE  PInv'
<1>1. Remembers /\ UNCHANGED <<room, member, alone>> /\ ~Ends(job[h])
    BY SameHistory, IdlePaired DEF tables, history
<1>2. Joins(h, j) /\ Leaves(h, j) /\ Stays(h, j)
    BY <1>1, Still DEF Creates
<1> QED
    BY <1>1, <1>2, RoomStep

LEMMA RequestPairs ==
    ASSUME OInv, OInv', PInv, NEW h \in Jobs, NEW u \in Users, Request(h, u) PROVE PInv'
<1>1. ASSUME NEW type \in Types, NEW others \in SUBSET Users, Create(h, u, type, others) PROVE PInv'
    <2> DEFINE one == type = "direct"
    <2>1. PICK j : j = [Idle EXCEPT !.op = "create", !.user = u, !.left = others, !.type = type,
                            !.pc = IF one THEN "find" ELSE "save",
                            !.pair = IF one THEN {u} \union others ELSE {}]
        OBVIOUS
    <2>2. /\ j.op = "create" /\ j.pc = IF one THEN "find" ELSE "save"
          /\ j.user = u /\ j.left = others /\ j.type = type
          /\ j.pair = IF one THEN {u} \union others ELSE {}
        BY <2>1 DEF Idle
    <2>3. ~Creates(j) /\ j.pc # "go"
        BY <2>2 DEF Creates
    <2>4. one => \E v \in Users \ {u} : others = {v}
        <3> SUFFICES ASSUME one PROVE \E v \in Users \ {u} : others = {v}
            OBVIOUS
        <3>1. IsFiniteSet(others) /\ Cardinality(others) = 1
            BY <1>1, ChatAssumption, FS_Subset DEF Create
        <3>2. PICK v : others = {v}
            BY <3>1, FS_Singleton
        <3> QED
            BY <1>1, <3>2 DEF Create
    <2>5. WellPaired(j)'
        <3>1. j.type = "direct" => \E v \in Users \ {j.user} : j.left = {v} /\ j.pair = {j.user, v}
            BY <2>2, <2>4
        <3>2. j.type = "group" => j.pair = {}
            BY <2>2
        <3>3. j.user \notin j.left
            BY <1>1, <2>2 DEF Create
        <3> QED
            BY <2>2, <2>3, <3>1, <3>2, <3>3 DEF WellPaired
    <2>6. Lays(h, j)
        BY <2>2 DEF Lays, Claims, Pairs
    <2> QED
        BY <1>1, <2>1, <2>3, <2>5, <2>6, StartPairs DEF Create, Start
<1>2. ASSUME NEW j, Start(h, j), j.op \in {"add", "leave", "expel", "delete"}, j.pair = {}, j.pc # "go"
      PROVE  PInv'
    <2>1. WellPaired(j)' /\ ~Creates(j) /\ Lays(h, j)
        BY <1>2 DEF WellPaired, Creates, Lays, Claims
    <2> QED
        BY <1>2, <2>1, StartPairs DEF Start
<1>3. ASSUME NEW r \in Rooms, Leave(h, u, r) PROVE PInv'
    <2>1. PICK j : j = [Idle EXCEPT !.op = "leave", !.pc = "look", !.user = u, !.room = r]
        OBVIOUS
    <2>2. j.op = "leave" /\ j.pc = "look" /\ j.pair = {}
        BY <2>1 DEF Idle
    <2> QED
        BY <1>2, <1>3, <2>1, <2>2 DEF Leave
<1>4. ASSUME NEW r \in Rooms, Delete(h, u, r) PROVE PInv'
    <2>1. PICK j : j = [Idle EXCEPT !.op = "delete", !.pc = "look", !.user = u, !.room = r]
        OBVIOUS
    <2>2. j.op = "delete" /\ j.pc = "look" /\ j.pair = {}
        BY <2>1 DEF Idle
    <2> QED
        BY <1>2, <1>4, <2>1, <2>2 DEF Delete
<1>5. ASSUME NEW r \in Rooms, NEW v \in Users, Expel(h, u, r, v) PROVE PInv'
    <2>1. PICK j : j = [Idle EXCEPT !.op = "expel", !.pc = "look", !.user = u, !.room = r, !.left = {v}]
        OBVIOUS
    <2>2. j.op = "expel" /\ j.pc = "look" /\ j.pair = {}
        BY <2>1 DEF Idle
    <2> QED
        BY <1>2, <1>5, <2>1, <2>2 DEF Expel
<1>6. ASSUME NEW r \in Rooms, NEW v \in Users, NEW role \in Roles, Add(h, r, v, role) PROVE PInv'
    <2>1. PICK j : j = [Idle EXCEPT !.op = "add", !.pc = "insert", !.room = r, !.left = {v},
                            !.role = role]
        OBVIOUS
    <2>2. j.op = "add" /\ j.pc = "insert" /\ j.pair = {}
        BY <2>1 DEF Idle
    <2> QED
        BY <1>2, <1>6, <2>1, <2>2 DEF Add
<1> QED
    BY <1>1, <1>3, <1>4, <1>5, <1>6 DEF Request

LEMMA LookUpPairs ==
    ASSUME OInv, OInv', PInv, NEW h \in Jobs,
           \/ FindDirect(h) \/ LookUpMember(h) \/ CountLeft(h) \/ LookUpTarget(h)
           \/ LookUpOwner(h) \/ LookUpSender(h)
    PROVE  PInv'
<1>1. /\ UNCHANGED <<room, member, alone>> /\ Remembers /\ ~Creates(job[h])
    <2>1. UNCHANGED <<room, member, alone>> /\ ~Creates(job[h])
        BY DEF FindDirect, LookUpMember, CountLeft, LookUpTarget, LookUpOwner, LookUpSender,
           Creates, At, tables, history
    <2>2. Remembers
        BY DEF FindDirect, LookUpMember, CountLeft, LookUpTarget, LookUpOwner, LookUpSender,
           history, Remembers
    <2> QED BY <2>1, <2>2
<1>2. CASE CountLeft(h)
    <2>1. job[h].op = "leave" /\ job[h].pc = "count"
        BY <1>2 DEF CountLeft, At
    <2>2. CASE Goto(h, "close")
        BY <1>1, <2>1, <2>2, GotoPairs DEF Points
    <2>3. CASE Finish(h) /\ ~(Cardinality(MembersOf(job[h].room)) <= 1)
        <3>1. ~Lonely(job[h].room)
            BY <2>3, LonelyCount DEF Lonely
        <3>2. Joins(h, Idle) /\ Leaves(h, Idle) /\ Stays(h, Idle)
            BY <1>1, <3>1, Still, IdlePaired
        <3> QED
            BY <1>1, <2>3, <3>2, FinishPairs
    <2> QED
        BY <1>2, <2>2, <2>3 DEF CountLeft, GoOn
<1>3. CASE ~CountLeft(h) /\ Finish(h)
    <2>1. ~Ends(job[h])
        BY <1>3 DEF FindDirect, LookUpMember, LookUpTarget, LookUpOwner, LookUpSender, Ends,
                    Creates, At
    <2>2. Joins(h, Idle) /\ Leaves(h, Idle) /\ Stays(h, Idle)
        BY <1>1, <2>1, Still, IdlePaired
    <2> QED
        BY <1>1, <1>3, <2>2, FinishPairs
<1>4. CASE FindDirect(h) /\ ~Finish(h)
    <2>1. PICK p : p = job[h].pair
        OBVIOUS
    <2>2. /\ job[h].op = "create" /\ Goto(h, "save")
          /\ \A r \in Rooms : ~(room[r] = "direct" /\ p \subseteq MembersOf(r))
          /\ crossed' = IF \E g \in Jobs \ {h} : job[g].pair = p /\ job[g].pc # "find"
                        THEN crossed \union {p} ELSE crossed
          /\ job[h].pc = "find"
        BY <1>4, <2>1 DEF FindDirect, At
    <2>3. p \in crossed' \/ Unclaimed(p)
        BY <2>2 DEF Unclaimed, Claims, Complete, Founders
    <2> QED
        BY <1>1, <2>1, <2>2, <2>3, GotoPairs DEF Points
<1>5. CASE LookUpMember(h) /\ ~Finish(h)
    <2>1. job[h].op = "leave" /\ job[h].pc = "look"
        BY <1>5 DEF LookUpMember, At
    <2>2. Goto(h, "close") \/ (Goto(h, "go") /\ member[job[h].room][job[h].user] # "owner")
        BY <1>5 DEF LookUpMember, GoOn
    <2> QED
        BY <1>1, <2>1, <2>2, GotoPairs DEF Points
<1>6. CASE LookUpTarget(h) /\ ~Finish(h)
    BY <1>1, <1>6, GotoPairs DEF LookUpTarget, GoOn, At, Points
<1>7. CASE LookUpOwner(h) /\ ~Finish(h)
    BY <1>1, <1>7, GotoPairs DEF LookUpOwner, GoOn, At, Points
<1>8. CASE LookUpSender(h) /\ ~Finish(h)
    BY <1>1, <1>8, GotoPairs DEF LookUpSender, GoOn, At, Points
<1> QED
    BY <1>2, <1>3, <1>4, <1>5, <1>6, <1>7, <1>8

\* A member comes into the room in hand, or goes from it.
LEMMA MemberComes ==
    ASSUME OInv, NEW r \in Rooms, NEW u \in Users, NEW role \in Roles, Insert(r, u, role),
           added \subseteq added'
    PROVE  /\ MembersOf(r)' = MembersOf(r) \union {u}
           /\ \A q \in Rooms \ {r} : MembersOf(q)' = MembersOf(q)
           /\ Founders(r)' \subseteq Founders(r) \union {u}
           /\ \A q \in Rooms \ {r} : Founders(q)' \subseteq Founders(q)
           /\ \A q \in Rooms, v \in Users : member[q][v] = "owner" => member'[q][v] = "owner"
           /\ member[r][u] = "none" => member'[r][u] = role
<1>1. \A q \in Rooms, v \in Users :
        member'[q][v] = IF q = r /\ v = u /\ member[q][v] = "none" THEN role ELSE member[q][v]
    BY DEF OInv, RTypeOK, Insert
<1>2. /\ MembersOf(r)' = MembersOf(r) \union {u}
      /\ \A q \in Rooms \ {r} : MembersOf(q)' = MembersOf(q)
    BY <1>1 DEF MembersOf, Roles
<1>3. /\ Founders(r)' \subseteq Founders(r) \union {u}
      /\ \A q \in Rooms \ {r} : Founders(q)' \subseteq Founders(q)
    BY <1>2 DEF Founders
<1> QED
    BY <1>1, <1>2, <1>3

LEMMA MemberGoes ==
    ASSUME OInv, NEW r \in Rooms, NEW u \in Users, member' = [member EXCEPT ![r][u] = "none"],
           added \subseteq added'
    PROVE  /\ MembersOf(r)' = MembersOf(r) \ {u}
           /\ \A q \in Rooms \ {r} : MembersOf(q)' = MembersOf(q)
           /\ \A q \in Rooms : Founders(q)' \subseteq Founders(q)
           /\ \A q \in Rooms, v \in Users : q # r \/ v # u => member'[q][v] = member[q][v]
<1>1. \A q \in Rooms, v \in Users :
        member'[q][v] = IF q = r /\ v = u THEN "none" ELSE member[q][v]
    BY DEF OInv, RTypeOK
<1>2. /\ MembersOf(r)' = MembersOf(r) \ {u}
      /\ \A q \in Rooms \ {r} : MembersOf(q)' = MembersOf(q)
    BY <1>1 DEF MembersOf
<1>3. \A q \in Rooms : Founders(q)' \subseteq Founders(q)
    BY <1>2 DEF Founders
<1> QED
    BY <1>1, <1>2, <1>3

\* What is refused is remembered.
LEMMA RefusePairs ==
    ASSUME OInv, OInv', PInv, NEW h \in Jobs, Refuse(h),
           UNCHANGED <<room, crossed, thinned, added, bereft>>
    PROVE  PInv'
<1>1. /\ Finish(h) /\ UNCHANGED <<member, alone>> /\ Remembers /\ job[h].room \in broken'
    BY DEF Refuse, Remembers
<1>2. Joins(h, Idle) /\ Leaves(h, Idle) /\ Stays(h, Idle)
    <2>1. job[h].room \in Deserted'
        BY <1>1 DEF Deserted
    <2> QED
        BY <1>1, <2>1, Still, IdlePaired
<1> QED
    BY <1>1, <1>2, FinishPairs

\* The last member completes a direct room; a room with its owner and another member
\* is not lonely.
LEMMA SaveMemberPairs ==
    ASSUME OInv, OInv', PInv, NEW h \in Jobs, NEW u \in Users, SaveMember(h, u) PROVE PInv'
<1>1. /\ Holds(job[h]) /\ Creates(job[h]) /\ job[h].op = "create" /\ job[h].pc = "members"
      /\ UNCHANGED <<room, crossed, thinned, added, bereft>> /\ u \in job[h].left
    BY DEF SaveMember, At, Holds, Creates
<1>2. PICK r \in Rooms : r = job[h].room
    BY <1>1 DEF OInv, Known
<1>3. PICK o \in Users : o = job[h].user
    BY <1>1 DEF OInv, Made, WellMade
<1>4. WellPaired(job[h]) /\ job[h].type \in Types
    BY <1>1 DEF PInv, Paired, OInv, Made, WellMade
<1>5. CASE ~MayInsert(r, u)
    BY <1>1, <1>2, <1>5, RefusePairs DEF SaveMember
<1>6. CASE MayInsert(r, u)
    <2>1. Insert(r, u, "member") /\ Remembers /\ UNCHANGED <<broken, alone>> /\ Exists(r)
        BY <1>1, <1>2, <1>6 DEF SaveMember, MayInsert, Remembers
    <2>2. /\ MembersOf(r)' = MembersOf(r) \union {u}
          /\ \A q \in Rooms \ {r} : MembersOf(q)' = MembersOf(q)
          /\ Founders(r)' \subseteq Founders(r) \union {u}
          /\ \A q \in Rooms \ {r} : Founders(q)' \subseteq Founders(q)
          /\ \A q \in Rooms, v \in Users : member[q][v] = "owner" => member'[q][v] = "owner"
        BY <1>1, <2>1, MemberComes DEF Roles
    <2>3. o # u /\ room[r] = job[h].type
        BY <1>1, <1>2, <1>3, <1>4, <2>1 DEF WellPaired, Exists, Types
    <2>4. Lonely(r)' => r \in Deserted'
        <3>1. ASSUME Kept(r) PROVE ~Lonely(r)'
            <4>1. member[r][o] = "owner"
                BY <1>1, <1>2, <1>3, <2>1, <3>1 DEF PInv, Hosted, At
            <4> QED
                BY <2>2, <2>3, <4>1 DEF Lonely, MembersOf
        <3> QED
            BY <2>1, <3>1, DesertedKept, DesertedStays
    <2>5. \A q \in Rooms \ {r} : Lonely(q)' = Lonely(q)
        BY <2>2 DEF Lonely
    <2>6. Deserted' = Deserted
        BY <1>1, <2>1 DEF Deserted
    <2>7. room[r] = "direct" =>
             Founders(r)' \subseteq job[h].pair /\ job[h].left = {u} /\ job[h].type = "direct"
        BY <1>1, <1>2, <2>2, <2>3, <1>4 DEF WellPaired
    <2>8. CASE job[h].left = {u}
        <3>1. Finish(h)
            BY <1>2, <1>6, <2>8 DEF SaveMember
        <3>2. Joins(h, Idle)
            BY <1>1, <1>2, <2>2, <2>7, IdleStep DEF Joins
        <3>3. Leaves(h, Idle)
            BY <1>2, <2>4, <2>5, <2>6 DEF Leaves
        <3>4. Stays(h, Idle)
            BY <2>2, IdleStep DEF Stays
        <3> QED
            BY <1>1, <2>1, <3>1, <3>2, <3>3, <3>4, FinishPairs
    <2>9. CASE job[h].left # {u}
        <3>1. PICK j \in JobType : j = [job[h] EXCEPT !.left = @ \ {u}]
            BY DEF OInv, JobType
        <3>2. /\ \A x \in {"op", "pc", "user", "room", "type", "pair"} : j[x] = job[h][x]
              /\ j.left = job[h].left \ {u}
            BY <3>1 DEF OInv, JobType
        <3>3. job' = [job EXCEPT ![h] = j]
            BY <1>2, <1>6, <2>9, <3>1 DEF SaveMember, OInv
        <3>4. Creates(j) /\ Ends(j) /\ j.room = r /\ j.type # "direct"
            BY <1>1, <1>2, <2>3, <2>7, <2>9, <3>2 DEF Creates, Ends
        <3>5. WellPaired(j)'
            <4>1. j.user \notin j.left
                BY <1>1, <1>4, <3>2 DEF WellPaired
            <4> QED
                BY <1>1, <1>2, <1>4, <2>3, <3>2, <3>4, <4>1 DEF WellPaired
        <3>6. Joins(h, j)
            BY <2>2, <2>7, <2>9 DEF Joins
        <3>7. Lays(h, j)
            BY <3>2 DEF Lays, Claims
        <3>8. Leaves(h, j)
            BY <2>5, <2>6, <3>4, <1>2 DEF Leaves
        <3>9. Stays(h, j)
            BY <1>1, <1>2, <2>2, <3>2 DEF Stays, At
        <3> QED
            BY <1>1, <1>2, <2>1, <3>3, <3>4, <3>5, <3>6, <3>7, <3>8, <3>9, RoomStep
    <2> QED
        BY <2>8, <2>9
<1> QED
    BY <1>5, <1>6

LEMMA SaveOwnerPairs ==
    ASSUME OInv, OInv', PInv, NEW h \in Jobs, SaveOwner(h) PROVE PInv'
<1>1. /\ Making(h) /\ Creates(job[h]) /\ Holds(job[h])
      /\ job[h].op = "create" /\ job[h].pc = "owner"
      /\ UNCHANGED <<room, crossed, thinned, added, bereft>>
    BY DEF SaveOwner, At, Making, Creates, Holds
<1>2. PICK r \in Rooms : r = job[h].room
    BY <1>1 DEF OInv, Known
<1>3. PICK o \in Users : o = job[h].user
    BY <1>1 DEF OInv, Made, WellMade
<1>4. WellPaired(job[h])
    BY DEF PInv, Paired
<1>5. CASE ~MayInsert(r, o)
    BY <1>1, <1>2, <1>3, <1>5, RefusePairs DEF SaveOwner
<1>6. CASE MayInsert(r, o)
    <2>1. /\ Insert(r, o, "owner") /\ member[r][o] = "none" /\ Remembers
          /\ GoOn(h, job[h].left # {}, "members")
          /\ alone' = IF job[h].left = {} THEN alone \union {r} ELSE alone
        BY <1>1, <1>2, <1>3, <1>6 DEF SaveOwner, OInv, Fresh, Remembers
    <2>2. /\ MembersOf(r)' = MembersOf(r) \union {o}
          /\ \A q \in Rooms \ {r} : MembersOf(q)' = MembersOf(q)
          /\ Founders(r)' \subseteq Founders(r) \union {o}
          /\ \A q \in Rooms \ {r} : Founders(q)' \subseteq Founders(q)
          /\ \A q \in Rooms, v \in Users : member[q][v] = "owner" => member'[q][v] = "owner"
          /\ member'[r][o] = "owner"
        BY <1>1, <2>1, MemberComes DEF Roles
    <2>3. Founders(r)' \subseteq {o} /\ \A q \in Rooms \ {r} : Lonely(q)' = Lonely(q)
        BY <1>1, <1>2, <2>2 DEF OInv, Fresh, MembersOf, Founders, Lonely
    <2>4. alone \subseteq alone' /\ Deserted \subseteq Deserted'
        BY <2>1, DesertedStays
    <2>5. room[r] = "direct" => job[h].type = "direct"
        BY <1>1, <1>2, <1>4 DEF WellPaired
    <2>6. ASSUME NEW j PROVE Joins(h, j)
        BY <1>1, <1>2, <1>3, <2>2, <2>3, <2>5 DEF Joins
    <2>7. CASE job[h].left = {}
        <3>1. Finish(h) /\ r \in Deserted'
            BY <2>1, <2>7 DEF GoOn, Deserted
        <3>2. Leaves(h, Idle)
            BY <1>2, <2>3, <2>4, <3>1 DEF Leaves
        <3>3. Stays(h, Idle)
            BY <2>2, IdleStep DEF Stays
        <3> QED
            BY <1>1, <2>1, <2>6, <3>1, <3>2, <3>3, FinishPairs
    <2>8. CASE job[h].left # {}
        <3>1. PICK j \in JobType : j = [job[h] EXCEPT !.pc = "members"]
            BY ZenonT(30) DEF OInv, JobType, Points
        <3>2. /\ \A x \in {"op", "left", "user", "room", "type", "pair"} : j[x] = job[h][x]
              /\ j.pc = "members" /\ job' = [job EXCEPT ![h] = j]
            BY <2>1, <2>8, <3>1 DEF OInv, JobType, Goto, GoOn
        <3>3. Creates(j) /\ Ends(j) /\ j.room = r /\ j.user = o
            BY <1>1, <1>2, <1>3, <3>2 DEF Creates, Ends
        <3>4. WellPaired(j)'
            BY <1>1, <1>2, <1>4, <2>3, <3>2, <3>3 DEF WellPaired
        <3>5. Lays(h, j)
            BY <1>1, <3>2 DEF Lays, Claims
        <3>6. Leaves(h, j)
            BY <1>2, <2>3, <2>4, <3>3 DEF Leaves
        <3>7. Stays(h, j)
            BY <1>1, <1>2, <1>3, <2>2, <3>2, <3>3 DEF Stays
        <3> QED
            BY <1>1, <1>2, <2>1, <2>6, <3>2, <3>3, <3>4, <3>5, <3>6, <3>7, RoomStep
    <2> QED
        BY <2>7, <2>8
<1> QED
    BY <1>5, <1>6

\* Whoever is added did not come with the room's creation, and leaves nobody alone.
LEMMA AddMemberPairs ==
    ASSUME OInv, OInv', PInv, NEW h \in Jobs, AddMember(h) PROVE PInv'
<1>1. /\ Holds(job[h]) /\ ~Ends(job[h]) /\ UNCHANGED <<room, crossed, broken, thinned, bereft>>
      /\ Finish(h) /\ job[h].op = "add"
    BY DEF AddMember, At, Holds, Ends, Creates
<1>2. PICK r \in Rooms : r = job[h].room
    BY <1>1 DEF OInv, Known
<1>3. PICK v \in Users : job[h].left = {v}
    BY <1>1 DEF OInv, Made, WellMade
<1>4. PICK role \in Roles : role = job[h].role
    BY <1>1 DEF OInv, Made, WellMade
<1>5. CASE MayInsert(r, v) /\ v \notin MembersOf(r)
    <2>1. /\ Insert(r, v, role) /\ added' = added \union {<<r, v, role>>}
          /\ alone' = IF MembersOf(r) = {} THEN alone ELSE alone \ {r}
        BY <1>2, <1>3, <1>4, <1>5 DEF AddMember
    <2>2. Remembers
        BY <1>1, <2>1 DEF Remembers
    <2>3. /\ MembersOf(r)' = MembersOf(r) \union {v}
          /\ \A q \in Rooms \ {r} : MembersOf(q)' = MembersOf(q)
          /\ Founders(r)' \subseteq Founders(r) \union {v}
          /\ \A q \in Rooms \ {r} : Founders(q)' \subseteq Founders(q)
          /\ \A q \in Rooms, w \in Users : member[q][w] = "owner" => member'[q][w] = "owner"
        BY <2>1, MemberComes
    <2>4. \A q \in Rooms : Founders(q)' \subseteq Founders(q)
        <3>1. v \notin Founders(r)'
            BY <2>1 DEF Founders
        <3> QED
            BY <2>3, <3>1
    <2>5. Joins(h, Idle)
        BY <2>4 DEF Joins
    <2>6. Leaves(h, Idle)
        <3> SUFFICES ASSUME NEW q \in Rooms, q \notin Deserted', Lonely(q)'
                     PROVE  q \notin Deserted /\ Lonely(q)
            BY <1>1 DEF Leaves
        <3>1. Lonely(q)
            BY <2>3 DEF Lonely
        <3>2. q = r => MembersOf(r) = {}
            BY <1>5, <2>3 DEF Lonely
        <3>3. q \in alone => q \in alone'
            BY <2>1, <3>2
        <3> QED
            BY <2>2, <3>1, <3>3 DEF Deserted, Remembers
    <2>7. Stays(h, Idle)
        BY <2>3, IdleStep DEF Stays
    <2> QED
        BY <1>1, <2>2, <2>5, <2>6, <2>7, FinishPairs
<1>6. CASE ~(MayInsert(r, v) /\ v \notin MembersOf(r))
    <2>1. UNCHANGED <<member, added, alone>> /\ Remembers
        BY <1>1, <1>2, <1>3, <1>6 DEF AddMember, Remembers
    <2>2. Joins(h, Idle) /\ Leaves(h, Idle) /\ Stays(h, Idle)
        BY <1>1, <2>1, Still, IdlePaired
    <2> QED
        BY <1>1, <2>1, <2>2, FinishPairs
<1> QED
    BY <1>5, <1>6

\* Whoever leaves stays to count.
LEMMA GoPairs == ASSUME OInv, OInv', PInv, NEW h \in Jobs, Go(h) PROVE PInv'
<1>1. /\ Holds(job[h]) /\ job[h].op = "leave" /\ job[h].pc = "go"
      /\ UNCHANGED <<room, crossed, broken, thinned, added, alone, bereft>> /\ Goto(h, "count")
      /\ RemoveMember(job[h].room, job[h].user)
    BY DEF Go, At, Holds, history, RemoveMember
<1>2. PICK r \in Rooms : r = job[h].room
    BY <1>1 DEF OInv, Known
<1>3. PICK u \in Users : u = job[h].user
    BY <1>1 DEF OInv, Made, WellMade
<1>4. member' = [member EXCEPT ![r][u] = "none"] /\ Remembers /\ Deserted' = Deserted
    BY <1>1, <1>2, <1>3 DEF RemoveMember, Remembers, Deserted
<1>5. /\ MembersOf(r)' = MembersOf(r) \ {u}
      /\ \A q \in Rooms \ {r} : MembersOf(q)' = MembersOf(q)
      /\ \A q \in Rooms : Founders(q)' \subseteq Founders(q)
      /\ \A q \in Rooms, w \in Users : q # r \/ w # u => member'[q][w] = member[q][w]
    BY <1>1, <1>4, MemberGoes
<1>6. PICK j \in JobType : j = [job[h] EXCEPT !.pc = "count"]
    BY ZenonT(30) DEF OInv, JobType, Points
<1>7. /\ j.op = "leave" /\ j.room = r /\ j.pair = job[h].pair
      /\ j.pc = "count" /\ job' = [job EXCEPT ![h] = j]
    BY <1>1, <1>2, <1>6 DEF OInv, JobType, Goto
<1>8. Ends(j) /\ ~Creates(j) /\ ~Ends(job[h])
    BY <1>1, <1>7 DEF Ends, Creates
<1>9. WellPaired(j)' /\ Lays(h, j)
    BY <1>1, <1>7, <1>8 DEF PInv, Paired, WellPaired, Lays, Claims
<1>10. Joins(h, j)
    BY <1>5 DEF Joins
<1>11. Leaves(h, j)
    BY <1>4, <1>5, <1>7, <1>8 DEF Leaves, Lonely
<1>12. Stays(h, j)
    BY <1>1, <1>2, <1>3, <1>5, <1>7 DEF Stays, At
<1> QED
    BY <1>1, <1>4, <1>7, <1>8, <1>9, <1>10, <1>11, <1>12, RoomStep

LEMMA RemoveTargetPairs ==
    ASSUME OInv, OInv', PInv, NEW h \in Jobs, RemoveTarget(h) PROVE PInv'
<1>1. /\ Holds(job[h]) /\ job[h].op = "expel" /\ job[h].pc = "go"
      /\ UNCHANGED <<crossed, broken, added, alone, bereft>> /\ Finish(h)
      /\ thinned' = thinned \union {job[h].room} /\ ~Ends(job[h])
    BY DEF RemoveTarget, At, Holds, Ends, Creates
<1>2. PICK r \in Rooms : r = job[h].room
    BY <1>1 DEF OInv, Known
<1>3. PICK v \in Users : job[h].left = {v}
    BY <1>1 DEF OInv, Made, WellMade
<1>4. member' = [member EXCEPT ![r][v] = "none"] /\ UNCHANGED room /\ Remembers
    BY <1>1, <1>2, <1>3 DEF RemoveTarget, RemoveMember, Remembers
<1>5. /\ MembersOf(r)' = MembersOf(r) \ {v}
      /\ \A q \in Rooms \ {r} : MembersOf(q)' = MembersOf(q)
      /\ \A q \in Rooms : Founders(q)' \subseteq Founders(q)
      /\ \A q \in Rooms, w \in Users : q # r \/ w # v => member'[q][w] = member[q][w]
    BY <1>1, <1>4, MemberGoes
<1>6. ~Kept(r)' /\ r \in Deserted' /\ Deserted \subseteq Deserted'
    BY <1>1, <1>2, <1>4, DesertedStays DEF Kept, Deserted
<1>7. Joins(h, Idle)
    BY <1>5 DEF Joins
<1>8. Leaves(h, Idle)
    BY <1>1, <1>5, <1>6 DEF Leaves, Lonely
<1>9. Stays(h, Idle)
    BY <1>5, <1>6, IdleStep DEF Stays
<1> QED
    BY <1>1, <1>4, <1>7, <1>8, <1>9, FinishPairs

LEMMA SaveRoomPairs == ASSUME OInv, OInv', PInv, NEW h \in Jobs, SaveRoom(h) PROVE PInv'
<1>1. /\ job[h].op = "create" /\ job[h].pc = "save"
      /\ UNCHANGED <<member, crossed, broken, thinned, added, alone, bereft>>
      /\ job[h].type \in Types /\ ~Creates(job[h]) /\ ~Ends(job[h])
    BY DEF SaveRoom, At, history, OInv, Made, WellMade, Creates, Ends
<1>2. CASE job[h].user \in gone
    <2>1. Finish(h) /\ UNCHANGED room /\ Remembers
        BY <1>1, <1>2 DEF SaveRoom, Remembers
    <2>2. Joins(h, Idle) /\ Leaves(h, Idle) /\ Stays(h, Idle)
        BY <1>1, <2>1, Still, IdlePaired
    <2> QED
        BY <2>1, <2>2, FinishPairs
<1>3. CASE job[h].user \notin gone
    <2>1. PICK r \in Rooms : room[r] = "none" /\ r = CHOOSE q \in Rooms : room[q] = "none"
        BY DEF SaveRoom
    <2>2. room' = [room EXCEPT ![r] = job[h].type] /\ job' = [job EXCEPT ![h].room = r, ![h].pc = "owner"]
        BY <1>3, <2>1 DEF SaveRoom
    <2>3. PICK j \in JobType : j = [job[h] EXCEPT !.room = r, !.pc = "owner"]
        BY ZenonT(30) DEF OInv, JobType, Points
    <2>4. /\ \A x \in {"op", "left", "user", "type", "pair"} : j[x] = job[h][x]
          /\ j.pc = "owner" /\ j.room = r
        BY <1>1, <2>3 DEF OInv, JobType
    <2>5. job'[h] = j /\ \A g \in Jobs \ {h} : job'[g] = job[g]
        BY <2>2, <2>3 DEF OInv
    <2>6. \A q \in Rooms : room'[q] = IF q = r THEN job[h].type ELSE room[q]
        BY <2>2 DEF OInv, RTypeOK
    <2>7. /\ MembersOf(r) = {} /\ Founders(r)' = {}
          /\ \A q : MembersOf(q)' = MembersOf(q) /\ Founders(q)' = Founders(q)
          /\ Deserted' = Deserted
        BY <1>1, <2>1 DEF OInv, RTypeOK, Exists, Types, MembersOf, Founders, Deserted
    <2>8. Creates(j) /\ Ends(j)
        BY <1>1, <2>4 DEF Creates, Ends
    <2>9. \A g \in Jobs : /\ Holds(job[g]) => job[g].room \in Rooms \ {r}
                          /\ Creates(job[g]) => Holds(job[g])
        BY <2>1 DEF OInv, Known, Holds, Creates
    <2>10. OwnRooms'
        BY <1>1, <2>4, <2>5, <2>8, <2>9 DEF PInv, OwnRooms
    <2>11. Paired'
        <3>1. ASSUME NEW g \in Jobs \ {h} PROVE WellPaired(job[g])'
            <4>1. WellPaired(job[g])
                BY DEF PInv, Paired
            <4>2. Creates(job[g]) => room'[job[g].room] = room[job[g].room]
                BY <2>6, <2>9
            <4>3. Founders(job[g].room)' = Founders(job[g].room)
                BY <1>1, <2>5 DEF MembersOf, Founders
            <4> QED
                BY <2>5, <4>1, <4>2, <4>3 DEF WellPaired, Creates
        <3>2. WellPaired(j)'
            BY <1>1, <2>4, <2>6, <2>7 DEF PInv, Paired, WellPaired, Creates
        <3> QED
            BY <2>5, <3>1, <3>2 DEF Paired
    <2>12. Hosted'
        <3> SUFFICES ASSUME NEW k \in Jobs, At(k, "create", "members")', Exists(job[k].room)',
                            Kept(job[k].room)'
                     PROVE  /\ member'[job'[k].room][job'[k].user] = "owner"
                            /\ \A g \in Jobs : At(g, "leave", "go")' /\ job'[g].room = job'[k].room =>
                                 job'[g].user # job'[k].user
            BY DEF Hosted
        <3>1. k # h /\ job'[k] = job[k] /\ At(k, "create", "members") /\ Creates(job[k])
            BY <2>4, <2>5 DEF At, Creates
        <3>2. Exists(job[k].room) /\ Kept(job[k].room)
            BY <1>1, <2>6, <2>9, <3>1 DEF Exists, Kept
        <3>3. \A g \in Jobs : At(g, "leave", "go")' => job'[g] = job[g] /\ At(g, "leave", "go")
            BY <1>1, <2>4, <2>5 DEF At
        <3> QED
            BY <1>1, <3>1, <3>2, <3>3 DEF PInv, Hosted
    <2>13. Unique'
        <3> SUFFICES ASSUME NEW p \in Pairs, p \notin crossed
                     PROVE  /\ \A g, k \in Jobs : Claims(job'[g], p) /\ Claims(job'[k], p) => g = k
                            /\ \A k \in Jobs, q \in Rooms : Claims(job'[k], p) => ~Complete(q, p)'
                            /\ \A q, k \in Rooms : Complete(q, p)' /\ Complete(k, p)' => q = k
            BY <1>1 DEF Unique
        <3>1. \A g \in Jobs : Claims(job'[g], p) => Claims(job[g], p)
            BY <1>1, <2>4, <2>5 DEF Claims
        <3>2. p # {}
            BY DEF Pairs
        <3>3. \A q \in Rooms : Complete(q, p)' => Complete(q, p)
            BY <2>6, <2>7, <3>2 DEF Complete
        <3> QED
            BY <3>1, <3>3 DEF PInv, Unique
    <2>14. Attended'
        <3> SUFFICES ASSUME NEW q \in Rooms, Exists(q)', q \notin Deserted, Lonely(q)'
                     PROVE  \E g \in Jobs : job'[g].room = q /\ Ends(job'[g])
            BY <2>7 DEF Attended, Watched
        <3>1. CASE q = r
            BY <2>4, <2>5, <2>8, <3>1
        <3>2. CASE q # r
            <4>1. Exists(q) /\ Lonely(q)
                BY <2>6, <2>7, <3>2 DEF Exists, Lonely
            <4> QED
                BY <1>1, <2>5, <4>1 DEF PInv, Attended, Watched
        <3> QED BY <3>1, <3>2
    <2> QED
        BY <2>10, <2>11, <2>12, <2>13, <2>14 DEF PInv
<1> QED
    BY <1>2, <1>3

LEMMA ClosePairs == ASSUME OInv, OInv', PInv, NEW h \in Jobs, Close(h) PROVE PInv'
<1>1. /\ Holds(job[h]) /\ Finish(h)
      /\ UNCHANGED <<crossed, broken, thinned, added, alone, bereft>>
    BY DEF Close, Holds, history
<1>2. PICK r \in Rooms : r = job[h].room
    BY <1>1 DEF OInv, Known
<1>3. /\ \A q \in Rooms : room'[q] = IF q = r THEN "removed" ELSE room[q]
      /\ \A q \in Rooms, u \in Users : member'[q][u] = IF q = r THEN "none" ELSE member[q][u]
    BY <1>1, <1>2 DEF Close, RemoveRoom, NoMembers, OInv, RTypeOK, Known
<1>4. /\ MembersOf(r)' = {} /\ Founders(r)' = {}
      /\ \A q \in Rooms \ {r} : MembersOf(q)' = MembersOf(q) /\ Founders(q)' = Founders(q)
      /\ Deserted' = Deserted
    BY <1>1, <1>3 DEF MembersOf, Founders, Deserted
<1>5. job'[h] = Idle /\ \A g \in Jobs \ {h} : job'[g] = job[g]
    BY <1>1 DEF Finish, OInv
<1>6. OwnRooms'
    BY <1>5, IdlePaired DEF PInv, OwnRooms
<1>7. Paired'
    <2>1. ASSUME NEW g \in Jobs \ {h} PROVE WellPaired(job[g])'
        <3>1. WellPaired(job[g]) /\ (Creates(job[g]) => job[g].room \in Rooms)
            BY DEF PInv, Paired, OInv, Known, Holds, Creates
        <3>2. CASE ~Creates(job[g])
            BY <1>5, <3>1, <3>2 DEF WellPaired, Creates
        <3>3. ASSUME NEW q \in Rooms, q = job[g].room, Creates(job[g])
              PROVE  WellPaired(job[g])'
            <4>1. /\ room'[job[g].room] \in {room[job[g].room], "removed"}
                  /\ Founders(job[g].room)' \subseteq Founders(job[g].room)
                BY <1>3, <1>4, <1>5, <3>3
            <4> QED
                BY <1>5, <3>1, <4>1 DEF WellPaired, Creates
        <3> QED
            BY <3>1, <3>2, <3>3
    <2> QED
        BY <1>5, <2>1, IdlePaired DEF Paired
<1>8. Hosted'
    <2> SUFFICES ASSUME NEW k \in Jobs, At(k, "create", "members")', Exists(job[k].room)',
                        Kept(job[k].room)'
                 PROVE  /\ member'[job'[k].room][job'[k].user] = "owner"
                        /\ \A g \in Jobs : At(g, "leave", "go")' /\ job'[g].room = job'[k].room =>
                             job'[g].user # job'[k].user
        BY DEF Hosted
    <2>1. k # h /\ job'[k] = job[k] /\ At(k, "create", "members")
        BY <1>5, IdleStep DEF At
    <2>2. job[k].room \in Rooms /\ job[k].user \in Users
        BY <2>1 DEF At, OInv, Known, Holds, Made, WellMade
    <2>3. job[k].room # r /\ Exists(job[k].room) /\ Kept(job[k].room)
        BY <1>1, <1>3, <2>1, <2>2 DEF Exists, Kept, Types
    <2>4. \A g \in Jobs : At(g, "leave", "go")' => job'[g] = job[g] /\ At(g, "leave", "go")
        BY <1>5, IdleStep DEF At
    <2>5. member[job[k].room][job[k].user] = "owner"
        BY <2>1, <2>3 DEF PInv, Hosted
    <2>6. member'[job[k].room][job[k].user] = "owner"
        BY <1>3, <2>2, <2>3, <2>5
    <2> QED
        BY <2>1, <2>3, <2>4, <2>6 DEF PInv, Hosted
<1>9. Unique'
    <2> SUFFICES ASSUME NEW p \in Pairs, p \notin crossed
                 PROVE  /\ \A g, k \in Jobs : Claims(job'[g], p) /\ Claims(job'[k], p) => g = k
                        /\ \A k \in Jobs, q \in Rooms : Claims(job'[k], p) => ~Complete(q, p)'
                        /\ \A q, k \in Rooms : Complete(q, p)' /\ Complete(k, p)' => q = k
        BY <1>1 DEF Unique
    <2>1. \A g \in Jobs : Claims(job'[g], p) => Claims(job[g], p)
        BY <1>5, IdleStep DEF Claims
    <2>2. \A q \in Rooms : Complete(q, p)' => Complete(q, p)
        BY <1>3, <1>4 DEF Complete
    <2> QED
        BY <2>1, <2>2 DEF PInv, Unique
<1>10. Attended'
    <2> SUFFICES ASSUME NEW q \in Rooms, Exists(q)', q \notin Deserted, Lonely(q)'
                 PROVE  \E g \in Jobs : job'[g].room = q /\ Ends(job'[g])
        BY <1>4 DEF Attended, Watched
    <2>1. q # r /\ Exists(q)
        BY <1>3 DEF Exists, Types
    <2>2. Lonely(q)
        BY <1>4, <2>1 DEF Lonely
    <2> QED
        BY <1>2, <1>5, <2>1, <2>2 DEF PInv, Attended, Watched
<1> QED
    BY <1>6, <1>7, <1>8, <1>9, <1>10 DEF PInv

LEMMA MessagePairs ==
    ASSUME OInv, OInv', PInv, NEW h \in Jobs, Begin(h) \/ Commit(h) \/ Emit(h) PROVE PInv'
<1>1. /\ job[h].op = "send" /\ ~Creates(job[h]) /\ ~Ends(job[h])
      /\ UNCHANGED <<room, member, alone>> /\ Remembers
    BY SameHistory DEF Begin, Commit, Emit, At, Creates, Ends, tables, history
<1>2. CASE Finish(h)
    <2>1. Joins(h, Idle) /\ Leaves(h, Idle) /\ Stays(h, Idle)
        BY <1>1, Still, IdlePaired
    <2> QED
        BY <1>1, <1>2, <2>1, FinishPairs
<1>3. CASE Begin(h)
    <2>1. PICK m \in Messages : job' = [job EXCEPT ![h].message = m, ![h].pc = "commit"]
        BY <1>3 DEF Begin
    <2>2. PICK j : j = [job[h] EXCEPT !.message = m, !.pc = "commit"]
        OBVIOUS
    <2>3. job' = [job EXCEPT ![h] = j]
        BY <2>1, <2>2 DEF OInv
    <2>4. j.op = "send" /\ j.pair = job[h].pair
        BY <1>1, <2>2 DEF OInv, JobType
    <2>5. WellPaired(j)' /\ Lays(h, j) /\ ~Creates(j)
        BY <1>1, <2>4 DEF PInv, Paired, WellPaired, Creates, Lays, Claims
    <2>6. Joins(h, j) /\ Leaves(h, j) /\ Stays(h, j)
        BY <1>1, <2>4, Still
    <2> QED
        BY <1>1, <2>3, <2>5, <2>6, RoomStep
<1>4. CASE Commit(h) /\ ~Finish(h)
    BY <1>1, <1>4, GotoPairs DEF Commit, Points
<1> QED
    BY <1>2, <1>3, <1>4 DEF Emit

LEMMA FailPairs == ASSUME OInv, OInv', PInv, NEW h \in Jobs, Fail(h) PROVE PInv'
<1>1. /\ UNCHANGED <<room, member, alone>> /\ Finish(h) /\ Remembers
      /\ job[h].op # "send" => job[h].room \in broken'
    BY DEF Fail, tables, Remembers
<1>2. Joins(h, Idle) /\ Leaves(h, Idle) /\ Stays(h, Idle)
    <2>1. Ends(job[h]) => job[h].room \in Deserted'
        BY <1>1 DEF Ends, Creates, Deserted
    <2> QED
        BY <1>1, <2>1, Still, IdlePaired
<1> QED
    BY <1>1, <1>2, FinishPairs

LEMMA SendPairs ==
    ASSUME OInv, OInv', PInv, NEW h \in Jobs, NEW u \in Users, NEW r \in Rooms, Send(h, u, r)
    PROVE  PInv'
<1>1. PICK j : j = [Idle EXCEPT !.op = "send", !.pc = "look", !.user = u, !.room = r]
    OBVIOUS
<1>2. j.op = "send" /\ j.pair = {} /\ j.pc = "look"
    BY <1>1 DEF Idle
<1>3. WellPaired(j)' /\ Lays(h, j) /\ ~Creates(j)
    BY <1>2 DEF WellPaired, Creates, Lays, Claims
<1> QED
    BY <1>1, <1>2, <1>3, StartPairs DEF Send

\* An account is removed: where nobody counts, it is remembered.
LEMMA RemoveAccountPairs ==
    ASSUME OInv, OInv', PInv, NEW u \in Users, RemoveAccount(u) PROVE PInv'
<1>1. /\ UNCHANGED <<room, job, crossed, broken, thinned, added, alone>> /\ bereft \subseteq bereft'
      /\ \A r \in RoomsOf(u) : <<r, member[r][u]>> \in bereft'
      /\ member' = [r \in Rooms |-> [member[r] EXCEPT ![u] = "none"]]
    BY DEF RemoveAccount
<1>2. \A r \in Rooms, v \in Users : member'[r][v] = IF v = u THEN "none" ELSE member[r][v]
    BY <1>1 DEF OInv, RTypeOK
<1>3. \A r \in Rooms : /\ MembersOf(r)' = MembersOf(r) \ {u}
                       /\ Founders(r)' \subseteq Founders(r)
    BY <1>1, <1>2 DEF MembersOf, Founders
<1>4. Deserted \subseteq Deserted' /\ \A r \in Rooms : u \in MembersOf(r) => r \in Deserted'
    <2>1. Deserted \subseteq Deserted'
        BY <1>1 DEF Deserted
    <2>2. ASSUME NEW r \in Rooms, u \in MembersOf(r) PROVE r \in Deserted'
        <3>1. r \in RoomsOf(u) /\ member[r][u] \in Roles
            BY <2>2 DEF RoomsOf, MembersOf, OInv, RTypeOK
        <3>2. \E role \in Roles : <<r, role>> \in bereft'
            BY <1>1, <3>1
        <3> QED
            BY <3>2 DEF Deserted
    <2> QED
        BY <2>1, <2>2
<1>5. \A g \in Jobs : Creates(job[g]) => job[g].room \in Rooms
    BY DEF OInv, Known, Holds, Creates
<1>6. Paired'
    <2>1. ASSUME NEW g \in Jobs PROVE WellPaired(job[g])'
        <3>1. WellPaired(job[g])
            BY DEF PInv, Paired
        <3>2. Creates(job[g]) => Founders(job[g].room)' \subseteq Founders(job[g].room)
            BY <1>1, <1>3, <1>5
        <3> QED
            BY <1>1, <3>1, <3>2 DEF WellPaired, Creates
    <2> QED
        BY <2>1 DEF Paired
<1>7. OwnRooms'
    BY <1>1 DEF PInv, OwnRooms, Creates
<1>8. Hosted'
    <2> SUFFICES ASSUME NEW k \in Jobs, At(k, "create", "members")', Exists(job[k].room)',
                        Kept(job[k].room)'
                 PROVE  /\ member'[job'[k].room][job'[k].user] = "owner"
                        /\ \A g \in Jobs : At(g, "leave", "go")' /\ job'[g].room = job'[k].room =>
                             job'[g].user # job'[k].user
        BY DEF Hosted
    <2>1. At(k, "create", "members") /\ job[k].room \in Rooms /\ job[k].user \in Users
        BY <1>1 DEF At, OInv, Known, Holds, Made, WellMade
    <2>2. Exists(job[k].room) /\ Kept(job[k].room)
        BY <1>1 DEF Exists, Kept
    <2>3. member[job[k].room][job[k].user] = "owner"
        BY <2>1, <2>2 DEF PInv, Hosted
    <2>4. job[k].user # u
        BY <1>1, <2>1, <2>3 DEF RoomsOf, Kept
    <2>5. member'[job[k].room][job[k].user] = "owner"
        BY <1>2, <2>1, <2>3, <2>4
    <2> QED
        BY <1>1, <2>1, <2>2, <2>5 DEF PInv, Hosted, At
<1>9. Unique'
    BY <1>1, <1>3 DEF PInv, Unique, Claims, Complete
<1>10. Attended'
    <2> SUFFICES ASSUME NEW r \in Rooms, Exists(r), r \notin Deserted', Lonely(r)'
                 PROVE  Watched(r)'
        BY <1>1 DEF Attended, Exists
    <2>1. Lonely(r) /\ r \notin Deserted
        BY <1>3, <1>4 DEF Lonely
    <2> QED
        BY <1>1, <2>1 DEF PInv, Attended, Watched, Ends, Creates
<1> QED
    BY <1>6, <1>7, <1>8, <1>9, <1>10 DEF PInv

LEMMA UntouchedPairs ==
    ASSUME PInv, UNCHANGED <<room, member, job, crossed, broken, thinned, added, alone, bereft>>
    PROVE  PInv'
<1>1. \A r : MembersOf(r)' = MembersOf(r) /\ Founders(r)' = Founders(r)
    BY DEF MembersOf, Founders
<1>2. Deserted' = Deserted
    BY DEF Deserted
<1>3. Paired' /\ OwnRooms'
    BY DEF PInv, Paired, WellPaired, Creates, OwnRooms, Founders, MembersOf
<1>4. Hosted'
    BY DEF PInv, Hosted, At, Exists, Kept
<1>5. Unique'
    BY <1>1 DEF PInv, Unique, Claims, Complete
<1>6. Attended'
    BY <1>1, <1>2 DEF PInv, Attended, Exists, Lonely, Watched, Ends, Creates
<1> QED
    BY <1>3, <1>4, <1>5, <1>6 DEF PInv

LEMMA PInitHolds == CInit => PInv
<1> SUFFICES ASSUME CInit PROVE PInv
    OBVIOUS
<1>1. PICK o \in Users, others \in SUBSET Users, there \in BOOLEAN :
        /\ there => others # {} /\ o \notin others
        /\ room = [r \in Rooms |-> IF r = FirstRoom /\ there THEN "group" ELSE "none"]
        /\ member = [r \in Rooms |-> IF r = FirstRoom /\ there THEN Group(o, others) ELSE NoMembers]
    <2>1. PICK o \in Users, others \in SUBSET Users, old \in {0, MaxMessages - 1} :
            LET there == others # {} /\ o \notin others
            IN  /\ room = [r \in Rooms |-> IF r = FirstRoom /\ there THEN "group" ELSE "none"]
                /\ member = [r \in Rooms |-> IF r = FirstRoom /\ there THEN Group(o, others)
                                              ELSE NoMembers]
        BY DEF CInit, RInit
    <2> QED
        BY <2>1
<1>2. job = [h \in Jobs |-> Idle]
    BY DEF CInit, RInit
<1>3. Paired /\ OwnRooms /\ Hosted /\ \A p, h : h \in Jobs => ~Claims(job[h], p)
    BY <1>2 DEF Paired, OwnRooms, Hosted, At, WellPaired, Creates, Idle, Claims
<1>4. \A r \in Rooms : room[r] # "direct"
    BY <1>1
<1>5. Unique
    BY <1>3, <1>4 DEF Unique, Complete
<1>6. Attended
    <2> SUFFICES ASSUME NEW r \in Rooms, Exists(r) PROVE ~Lonely(r)
        BY DEF Attended
    <2>1. there /\ member[r] = Group(o, others)
        BY <1>1 DEF Exists, Types
    <2>2. PICK v \in Users : v \in others /\ v # o
        BY <1>1, <2>1
    <2>3. member[r][o] # "none" /\ member[r][v] # "none"
        BY <2>1, <2>2 DEF Group
    <2> QED
        BY <2>2, <2>3 DEF Lonely, MembersOf
<1> QED
    BY <1>3, <1>5, <1>6 DEF PInv

LEMMA PNextKeeps == OInv /\ OInv' /\ PInv /\ [CNext]_<<chat, client>> => PInv'
<1> SUFFICES ASSUME OInv, OInv', PInv, [CNext]_<<chat, client>> PROVE PInv'
    OBVIOUS
<1>1. ASSUME NEW h \in Jobs, Serve(h) PROVE PInv'
    BY <1>1, LookUpPairs, SaveRoomPairs, SaveOwnerPairs, SaveMemberPairs, AddMemberPairs, GoPairs,
       ClosePairs, RemoveTargetPairs, MessagePairs DEF Serve
<1>2. ASSUME NEW u \in Users, FindRooms(u) \/ JoinFound(u) \/ Connect(u) PROVE PInv'
    BY <1>2, UntouchedPairs DEF FindRooms, JoinFound, Connect, tables, history
<1>3. CASE RNext
    BY <1>1, <1>2, <1>3, FailPairs, RequestPairs, RemoveAccountPairs DEF RNext
<1>4. ASSUME NEW u \in Readers, PageStep(u) PROVE PInv'
    <2>1. UNCHANGED <<room, member, job, crossed, broken, thinned, added, alone, bereft>>
        BY <1>4, PagesChangeNoRoom DEF Lasting
    <2> QED
        BY <2>1, UntouchedPairs
<1>5. CASE UNCHANGED <<chat, client>>
    BY <1>5, UntouchedPairs DEF chat
<1> QED
    BY <1>2, <1>3, <1>4, <1>5, SendPairs, ClientAssumption DEF CNext, Say

LEMMA PInvAlways == CSpec => []PInv
<1>1. CInit /\ [][CNext]_<<chat, client>> /\ []OInv => []PInv
    BY PInitHolds, PNextKeeps, PTL
<1> QED
    BY <1>1, OInvAlways, PTL DEF CSpec

\* Two users have one direct room they came to with its creation, unless two calls
\* looked for it at the same moment (createChatRoom): the room is looked for, saved and
\* given its members in four statements, and whatever else happens between them, also
\* that others are added to it, makes no second one.
THEOREM DirectRoomIsOne == CSpec => []OneDirectRoom
<1>1. PInv => OneDirectRoom
    <2> SUFFICES ASSUME PInv, NEW a \in Users, NEW b \in Users, a # b, {a, b} \notin crossed
                 PROVE  Cardinality(DirectRooms(a, b)) <= 1
        BY DEF OneDirectRoom
    <2>1. {a, b} \in Pairs
        BY DEF Pairs
    <2>2. \A q, r \in DirectRooms(a, b) : q = r
        BY <2>1 DEF PInv, Unique, Complete, DirectRooms
    <2> QED
        BY <2>2, LonelyCount
<1> QED
    BY <1>1, PInvAlways, PTL

\* However many leave a room at the same time (leaveChatRoom removes the member, then
\* counts), nobody is left alone in it: the last one to count removes it. (Rooms whose
\* owner has nobody or sent members away, that a removed account was in, or where a
\* call was cut off, are the exceptions.)
THEOREM NobodyIsLeftBehind == CSpec => []NobodyLeftBehind
<1>1. PInv => NobodyLeftBehind
    <2> SUFFICES ASSUME PInv, NEW r \in Rooms, Exists(r), r \notin Deserted,
                        Cardinality(MembersOf(r)) = 1
                 PROVE  \E h \in Jobs : job[h].room = r /\ job[h].op \in {"create", "leave", "delete"}
        BY DEF NobodyLeftBehind
    <2>1. IsFiniteSet(MembersOf(r))
        BY ChatAssumption, FS_Subset DEF MembersOf
    <2>2. Lonely(r)
        BY <2>1, FS_Singleton DEF Lonely
    <2> QED
        BY <2>2 DEF PInv, Attended, Watched, Ends, Creates
<1> QED
    BY <1>1, PInvAlways, PTL

-----------------------------------------------------------------------------
(* Whoever sends hears                                                     *)

MessageType == [room : Rooms \union {"none"}, from : Users \union {"nobody"},
                state : {"none", "begun", "saved", "sent", "gone"}]
AskType == [room : Rooms, visit : Nat, member : BOOLEAN]

Shapes ==
    /\ load \in Nat
    /\ DOMAIN page = Readers
    /\ \A u \in Readers : DOMAIN page[u] = DOMAIN NoPage /\ page[u].visit \in Nat
    /\ asking \in [Readers -> SUBSET AskType]
    /\ joined \in [Users -> SUBSET Rooms]
    /\ found \in [Users -> SUBSET Rooms]
    /\ DOMAIN socket = Users
    /\ message \in [Messages -> MessageType]

\* The readers the code vouches for.
Stay == Readers \ dropped
Up == \A u \in Stay : socket[u] # "down"

\* A subscription is of the page it was asked by, or of one left since: a visit is
\* never repeated.
Visits ==
    \A u \in Readers :
        /\ page[u].visit <= load
        /\ \A q \in asking[u] : q.visit <= load /\ (OnPage(u, q.visit) => q.room = page[u].room)

\* A page that may send is heard by its socket, and so is what it has sent.
ReadyHears == \A u \in Stay : page[u].ready => page[u].room \in joined[u]
SentHears ==
    \A h \in Jobs : job[h].op = "send" /\ job[h].user \in Stay => job[h].room \in joined[job[h].user]

\* A message under way is the sender's.
InFlight(j) == j.op = "send" /\ j.pc \in {"commit", "emit"}
Mine ==
    \A h \in Jobs : InFlight(job[h]) =>
        /\ job[h].message \in Messages
        /\ message[job[h].message].from = job[h].user
        /\ message[job[h].message] # NoMessage

\* Nobody has missed a message that was not sent yet.
Unsent == \A m \in Messages : message[m] = NoMessage => \A u \in Stay : <<u, m>> \notin missed

HInv == Shapes /\ Up /\ Visits /\ ReadyHears /\ SentHears /\ Mine /\ Unsent /\ SenderHears

\* A statement of a call: messages keep their senders, and only a message that goes out
\* is missed, by those who do not hear its room.
Writes ==
    /\ message' \in [Messages -> MessageType]
    /\ \A m \in Messages : /\ message'[m].from = message[m].from \/ message[m] = NoMessage
                           /\ message[m] # NoMessage => message'[m] # NoMessage

Misses(h) ==
    \A w \in Users, m \in Messages : <<w, m>> \in missed' =>
        \/ <<w, m>> \in missed
        \/ /\ At(h, "send", "emit") /\ m = job[h].message
           /\ socket[w] = "down" \/ job[h].room \notin joined[w]

LEMMA CallHears ==
    ASSUME OInv, HInv, NEW h \in Jobs, \A g \in Jobs \ {h} : job'[g] = job[g],
           UNCHANGED <<client, socket, joined, found>>, load' \in Nat, load <= load',
           Writes, Misses(h),
           job'[h].op = "send" =>
               \/ job[h].op = "send" /\ job'[h].user = job[h].user /\ job'[h].room = job[h].room
               \/ job'[h].user \in Stay => job'[h].room \in joined[job'[h].user],
           InFlight(job'[h]) =>
               /\ job'[h].message \in Messages
               /\ message'[job'[h].message].from = job'[h].user
               /\ message'[job'[h].message] # NoMessage
    PROVE  HInv'
<1>1. UNCHANGED <<page, asking, dropped>> /\ Stay' = Stay /\ Stay \subseteq Users
    BY ClientAssumption DEF client, Stay
<1>2. Shapes'
    BY <1>1 DEF HInv, Shapes, Writes
<1>3. Up' /\ ReadyHears'
    BY <1>1 DEF HInv, Up, ReadyHears
<1>4. Visits'
    <2> SUFFICES ASSUME NEW u \in Readers
                 PROVE  /\ page[u].visit <= load'
                        /\ \A q \in asking[u] : q.visit <= load'
                                                /\ (OnPage(u, q.visit) => q.room = page[u].room)
        BY <1>1 DEF Visits, OnPage
    <2>1. page[u].visit \in Nat /\ \A q \in asking[u] : q.visit \in Nat
        BY DEF HInv, Shapes, AskType
    <2> QED
        BY <2>1 DEF HInv, Visits, Shapes
<1>5. SentHears'
    BY <1>1 DEF HInv, SentHears
<1>6. Mine'
    <2> SUFFICES ASSUME NEW g \in Jobs \ {h}, InFlight(job[g])
                 PROVE  /\ job[g].message \in Messages
                        /\ message'[job[g].message].from = job[g].user
                        /\ message'[job[g].message] # NoMessage
        BY DEF Mine
    <2> QED
        BY DEF HInv, Mine, Writes
<1>7. At(h, "send", "emit") => InFlight(job[h])
    BY DEF At, InFlight
<1>8. Unsent'
    <2> SUFFICES ASSUME NEW m \in Messages, message'[m] = NoMessage, NEW u \in Stay
                 PROVE  <<u, m>> \notin missed'
        BY <1>1 DEF Unsent
    <2>1. message[m] = NoMessage /\ <<u, m>> \notin missed
        BY DEF Writes, HInv, Unsent
    <2> QED
        BY <1>1, <1>7, <2>1 DEF Misses, HInv, Mine
<1>9. SenderHears'
    <2> SUFFICES ASSUME NEW m \in Messages, message'[m].from \in Stay
                 PROVE  <<message'[m].from, m>> \notin missed'
        BY <1>1 DEF SenderHears, Stay
    <2>1. PICK u \in Stay : u = message'[m].from
        OBVIOUS
    <2>2. <<u, m>> \notin missed
        BY <2>1 DEF Writes, HInv, Unsent, SenderHears, Stay
    <2>3. ASSUME At(h, "send", "emit"), m = job[h].message
          PROVE  socket[u] # "down" /\ job[h].room \in joined[u]
        <3>1. message[m].from = job[h].user /\ message[m] # NoMessage /\ job[h].op = "send"
            BY <1>7, <2>3 DEF HInv, Mine, InFlight
        <3>2. u = job[h].user
            BY <2>1, <3>1 DEF Writes
        <3> QED
            BY <3>1, <3>2 DEF HInv, Up, SentHears
    <2> QED
        BY <1>1, <2>1, <2>2, <2>3 DEF Misses
<1> QED
    BY <1>2, <1>3, <1>4, <1>5, <1>6, <1>8, <1>9 DEF HInv

LEMMA WritesNothing == ASSUME HInv, UNCHANGED <<message, missed>>, NEW h PROVE Writes /\ Misses(h)
BY DEF HInv, Shapes, Writes, Misses

\* A call that sends nothing.
LEMMA OthersHear ==
    ASSUME OInv, HInv, NEW h \in Jobs, \A g \in Jobs \ {h} : job'[g] = job[g],
           UNCHANGED <<client, socket, joined, found, missed>>, Writes,
           load' \in Nat, load <= load', job'[h].op # "send"
    PROVE  HInv'
<1>1. Misses(h)
    BY DEF Misses
<1> QED
    BY <1>1, CallHears DEF InFlight

LEMMA SameLoad == ASSUME HInv, UNCHANGED load PROVE load' \in Nat /\ load <= load'
BY DEF HInv, Shapes

LEMMA FinishHears ==
    ASSUME OInv, HInv, NEW h \in Jobs, Finish(h),
           UNCHANGED <<client, socket, joined, found, load>>, Writes, Misses(h)
    PROVE  HInv'
<1>1. job'[h] = Idle /\ \A g \in Jobs \ {h} : job'[g] = job[g]
    BY DEF Finish, OInv
<1> QED
    BY <1>1, IdleStep, SameLoad, CallHears DEF InFlight

LEMMA ServeHears ==
    ASSUME OInv, HInv, NEW h \in Jobs, UNCHANGED client,
           Serve(h) \/ Fail(h) \/ \E u \in Users : Request(h, u)
    PROVE  HInv'
<1>1. ASSUME UNCHANGED <<message, missed, socket, joined, found>>,
             \A g \in Jobs \ {h} : job'[g] = job[g], job'[h].op # "send",
             UNCHANGED load \/ Spend(1)
      PROVE  HInv'
    <2>1. load' \in Nat /\ load <= load'
        BY <1>1 DEF HInv, Shapes, Spend
    <2> QED
        BY <1>1, <2>1, WritesNothing, OthersHear
<1>2. ASSUME job[h].op # "send", UNCHANGED <<message, sockets, load, missed>>, NEW pc,
             Goto(h, pc) \/ Finish(h)
      PROVE  HInv'
    <2>1. job'[h].op # "send" /\ \A g \in Jobs \ {h} : job'[g] = job[g]
        BY <1>2, IdleStep DEF Goto, Finish, OInv, JobType
    <2> QED
        BY <1>1, <1>2, <2>1 DEF sockets
<1>3. CASE FindDirect(h)
    BY <1>2, <1>3 DEF FindDirect, At, history
<1>4. CASE LookUpMember(h) \/ CountLeft(h) \/ LookUpTarget(h) \/ LookUpOwner(h)
    BY <1>2, <1>4 DEF LookUpMember, CountLeft, LookUpTarget, LookUpOwner, GoOn, At, history
<1>5. CASE SaveRoom(h)
    <2>1. CASE job[h].user \in gone
        BY <1>2, <1>5, <2>1 DEF SaveRoom, At, history
    <2>2. CASE job[h].user \notin gone
        <3>1. PICK r : job' = [job EXCEPT ![h].room = r, ![h].pc = "owner"]
            BY <1>5, <2>2 DEF SaveRoom
        <3>2. job'[h].op # "send" /\ \A g \in Jobs \ {h} : job'[g] = job[g]
            BY <1>5, <3>1 DEF SaveRoom, At, OInv, JobType
        <3> QED
            BY <1>1, <1>5, <3>2 DEF SaveRoom, sockets, history
    <2> QED
        BY <2>1, <2>2
<1>6. CASE SaveOwner(h) \/ AddMember(h) \/ Go(h) \/ RemoveTarget(h)
    <2>1. UNCHANGED message
        <3>1. CASE RemoveTarget(h)
            <4>1. PICK v \in Users : job[h].left = {v}
                BY <3>1 DEF RemoveTarget, At, OInv, Made, WellMade
            <4> QED
                BY <3>1, <4>1 DEF RemoveTarget, RemoveMember
        <3> QED
            BY <1>6, <3>1 DEF SaveOwner, AddMember, Go, RemoveMember
    <2>2. UNCHANGED <<sockets, load, missed>>
        BY <1>6 DEF SaveOwner, AddMember, Go, RemoveTarget, history
    <2>3. /\ job[h].op # "send"
          /\ Goto(h, "members") \/ Goto(h, "count") \/ Finish(h)
        BY <1>6 DEF SaveOwner, AddMember, Go, RemoveTarget, GoOn, Refuse, At
    <2> QED
        BY <1>2, <2>1, <2>2, <2>3
<1>7. ASSUME NEW u \in Users, SaveMember(h, u) PROVE HInv'
    <2>1. CASE Finish(h)
        BY <1>2, <1>7, <2>1 DEF SaveMember, At, history
    <2>2. CASE job' = [job EXCEPT ![h].left = @ \ {u}]
        <3>1. job'[h].op # "send" /\ \A g \in Jobs \ {h} : job'[g] = job[g]
            BY <1>7, <2>2 DEF SaveMember, At, OInv, JobType
        <3> QED
            BY <1>1, <1>7, <3>1 DEF SaveMember, sockets, history
    <2> QED
        BY <1>7, <2>1, <2>2 DEF SaveMember, Refuse
<1>8. CASE Close(h)
    <2>1. /\ Finish(h) /\ UNCHANGED <<socket, joined, found, load, missed>>
          /\ message' = [m \in Messages |-> IF m \in Saved(job[h].room)
                                            THEN [message[m] EXCEPT !.state = "gone"] ELSE message[m]]
        BY <1>8 DEF Close, RemoveRoom, sockets, history
    <2>2. Writes
        <3>1. \A m \in Messages : message[m] \in MessageType
            BY DEF HInv, Shapes
        <3>2. ASSUME NEW m \in Messages
              PROVE  /\ message'[m] \in MessageType /\ message'[m].from = message[m].from
                     /\ message[m] # NoMessage => message'[m] # NoMessage
            <4>1. CASE message'[m] = message[m]
                BY <3>1, <4>1
            <4>2. CASE message'[m] = [message[m] EXCEPT !.state = "gone"]
                BY <3>1, <4>2 DEF MessageType, NoMessage
            <4> QED BY <2>1, <4>1, <4>2
        <3> QED
            BY <2>1, <3>2 DEF Writes
    <2>3. Misses(h)
        BY <2>1 DEF Misses
    <2> QED
        BY <2>1, <2>2, <2>3, FinishHears
<1>9. ASSUME NEW m, NEW state \in {"saved", "sent", "gone"},
             message' = [message EXCEPT ![m].state = state]
      PROVE  Writes
    <2>1. \A n \in Messages : message[n] \in MessageType
        BY DEF HInv, Shapes
    <2>2. ASSUME NEW n \in Messages
          PROVE  /\ message'[n] \in MessageType /\ message'[n].from = message[n].from
                 /\ message'[n] = message[n] \/ message'[n] # NoMessage
        <3>1. CASE n # m
            BY <1>9, <2>1, <3>1 DEF HInv, Shapes
        <3>2. CASE n = m
            <4>1. message'[n] = [message[n] EXCEPT !.state = state]
                BY <1>9, <3>2 DEF HInv, Shapes
            <4> QED
                BY <2>1, <4>1 DEF MessageType, NoMessage
        <3> QED BY <3>1, <3>2
    <2>3. DOMAIN message' = Messages /\ message' = [n \in Messages |-> message'[n]]
        BY <1>9 DEF HInv, Shapes
    <2> QED
        BY <2>2, <2>3 DEF Writes
<1>10. CASE LookUpSender(h)
    <2>1. CASE Finish(h)
        BY <1>10, <2>1, WritesNothing, FinishHears DEF LookUpSender, sockets, history
    <2>2. CASE Goto(h, "begin")
        <3>1. /\ \A g \in Jobs \ {h} : job'[g] = job[g]
              /\ job[h].op = "send"
              /\ job'[h].pc = "begin" /\ job'[h].user = job[h].user /\ job'[h].room = job[h].room
            BY <1>10, <2>2 DEF LookUpSender, At, Goto, OInv, JobType
        <3>2. UNCHANGED <<message, missed, socket, joined, found, load>>
            BY <1>10 DEF LookUpSender, sockets, history
        <3> QED
            BY <3>1, <3>2, WritesNothing, SameLoad, CallHears DEF InFlight
    <2> QED
        BY <1>10, <2>1, <2>2 DEF LookUpSender, GoOn
<1>11. CASE Begin(h)
    <2>1. PICK m \in Messages :
            /\ message[m] = NoMessage
            /\ message' = [message EXCEPT ![m] =
                   [room |-> job[h].room, from |-> job[h].user, state |-> "begun"]]
            /\ job' = [job EXCEPT ![h].message = m, ![h].pc = "commit"]
        BY <1>11 DEF Begin
    <2>2. /\ \A g \in Jobs \ {h} : job'[g] = job[g]
          /\ job[h].op = "send" /\ job'[h].message = m
          /\ job'[h].user = job[h].user /\ job'[h].room = job[h].room
          /\ job[h].user \in Users /\ job[h].room \in Rooms \union {"none"}
        BY <1>11, <2>1 DEF Begin, At, OInv, JobType, Made, WellMade
    <2>3. PICK new \in MessageType :
            new = [room |-> job[h].room, from |-> job[h].user, state |-> "begun"]
        BY <2>2 DEF MessageType
    <2>4. new.from = job[h].user /\ new # NoMessage
        BY <2>3 DEF NoMessage
    <2>5. message' \in [Messages -> MessageType] /\ message'[m] = new
          /\ \A n \in Messages \ {m} : message'[n] = message[n]
        BY <2>1, <2>3 DEF HInv, Shapes
    <2>6. Writes
        BY <2>1, <2>4, <2>5 DEF Writes
    <2>7. Misses(h) /\ UNCHANGED <<socket, joined, found, load>>
        BY <1>11 DEF Begin, Misses, sockets, history
    <2> QED
        BY <2>2, <2>4, <2>5, <2>6, <2>7, SameLoad, CallHears
<1>12. CASE Commit(h)
    <2>1. UNCHANGED <<socket, joined, found, load, missed>> /\ job[h].op = "send"
          /\ Misses(h) /\ InFlight(job[h])
        BY <1>12 DEF Commit, sockets, history, Misses, At, InFlight
    <2>2. Writes
        BY <1>9, <1>12 DEF Commit
    <2>3. CASE Finish(h)
        BY <2>1, <2>2, <2>3, FinishHears
    <2>4. CASE Goto(h, "emit")
        <3>1. /\ \A g \in Jobs \ {h} : job'[g] = job[g]
              /\ job'[h].message = job[h].message
              /\ job'[h].user = job[h].user /\ job'[h].room = job[h].room
            BY <2>4 DEF Goto, OInv, JobType
        <3>2. /\ job[h].message \in Messages /\ message'[job[h].message].from = job[h].user
              /\ message'[job[h].message] # NoMessage
            BY <2>1, <2>2 DEF HInv, Mine, Writes
        <3> QED
            BY <2>1, <2>2, <3>1, <3>2, SameLoad, CallHears
    <2> QED
        BY <1>12, <2>3, <2>4 DEF Commit
<1>13. CASE Emit(h)
    <2>1. /\ Finish(h) /\ UNCHANGED <<socket, joined, found, load>> /\ At(h, "send", "emit")
          /\ missed' = missed \union
                 {<<u, job[h].message>> : u \in Users \
                      {w \in Users : socket[w] # "down" /\ job[h].room \in joined[w]}}
          /\ message' = [message EXCEPT ![job[h].message].state = IF @ = "saved" THEN "sent" ELSE @]
        BY <1>13 DEF Emit
    <2>2. Misses(h)
        BY <2>1 DEF Misses
    <2>3. PICK m \in Messages : m = job[h].message
        BY <2>1 DEF HInv, Mine, InFlight, At
    <2>4. Writes
        <3>1. CASE message[m].state = "saved"
            BY <1>9, <2>1, <2>3, <3>1 DEF HInv, Shapes
        <3>2. CASE message[m].state # "saved"
            <4>1. message[m] = [message[m] EXCEPT !.state = message[m].state]
                BY DEF HInv, Shapes, MessageType
            <4>2. message' = message
                BY <2>1, <2>3, <3>2, <4>1 DEF HInv, Shapes
            <4> QED
                BY <4>2 DEF Writes, HInv, Shapes
        <3> QED BY <3>1, <3>2
    <2> QED
        BY <2>1, <2>2, <2>4, FinishHears
<1>14. CASE Fail(h)
    <2>1. Finish(h) /\ UNCHANGED <<socket, joined, found, load, missed>> /\ Misses(h)
        BY <1>14 DEF Fail, sockets, Misses
    <2>2. Writes
        BY <1>9, <1>14, WritesNothing DEF Fail
    <2> QED
        BY <2>1, <2>2, FinishHears
<1>15. ASSUME NEW u \in Users, Request(h, u) PROVE HInv'
    <2>1. ASSUME NEW type \in Types, NEW others \in SUBSET Users, Create(h, u, type, others)
          PROVE  \E j : Start(h, j) /\ j.op # "send"
        <3>1. PICK j : j = [Idle EXCEPT !.op = "create", !.user = u, !.left = others, !.type = type,
                     !.pc = IF type = "direct" THEN "find" ELSE "save",
                     !.pair = IF type = "direct" THEN {u} \union others ELSE {}]
            OBVIOUS
        <3>2. j.op = "create"
            BY <3>1 DEF Idle
        <3> QED
            BY <2>1, <3>1, <3>2 DEF Create
    <2>2. ASSUME NEW r \in Rooms, Leave(h, u, r) \/ Delete(h, u, r)
          PROVE  \E j : Start(h, j) /\ j.op # "send"
        <3>1. PICK op \in {"leave", "delete"} :
                Start(h, [Idle EXCEPT !.op = op, !.pc = "look", !.user = u, !.room = r])
            BY <2>2 DEF Leave, Delete
        <3>2. PICK j : j = [Idle EXCEPT !.op = op, !.pc = "look", !.user = u, !.room = r]
            OBVIOUS
        <3>3. j.op = op
            BY <3>2 DEF Idle
        <3> QED
            BY <3>1, <3>2, <3>3
    <2>3. ASSUME NEW r \in Rooms, NEW v \in Users,
                 Expel(h, u, r, v) \/ \E role \in Roles : Add(h, r, v, role)
          PROVE  \E j : Start(h, j) /\ j.op # "send"
        <3>1. CASE Expel(h, u, r, v)
            <4>1. PICK j : j = [Idle EXCEPT !.op = "expel", !.pc = "look", !.user = u, !.room = r,
                                    !.left = {v}]
                OBVIOUS
            <4>2. j.op = "expel"
                BY <4>1 DEF Idle
            <4> QED
                BY <3>1, <4>1, <4>2 DEF Expel
        <3>2. ASSUME NEW role \in Roles, Add(h, r, v, role)
              PROVE  \E j : Start(h, j) /\ j.op # "send"
            <4>1. PICK j : j = [Idle EXCEPT !.op = "add", !.pc = "insert", !.room = r, !.left = {v},
                                    !.role = role]
                OBVIOUS
            <4>2. j.op = "add"
                BY <4>1 DEF Idle
            <4> QED
                BY <3>2, <4>1, <4>2 DEF Add
        <3> QED
            BY <2>3, <3>1, <3>2
    <2>4. PICK j : Start(h, j) /\ j.op # "send"
        BY <1>15, <2>1, <2>2, <2>3 DEF Request
    <2>5. job'[h] = j /\ \A g \in Jobs \ {h} : job'[g] = job[g]
        BY <2>4 DEF Start, OInv
    <2> QED
        BY <1>1, <2>4, <2>5 DEF Start, sockets, history
<1> QED
    BY <1>3, <1>4, <1>5, <1>6, <1>7, <1>8, <1>10, <1>11, <1>12, <1>13, <1>14, <1>15 DEF Serve

\* An account is removed, and its messages with it: they keep their senders, and nobody
\* has missed another for it.
LEMMA RemoveAccountHears ==
    ASSUME HInv, NEW u \in Users, RemoveAccount(u), UNCHANGED client PROVE HInv'
<1>1. /\ UNCHANGED <<job, socket, joined, found, missed, page, asking, dropped>> /\ Stay' = Stay
      /\ load' \in Nat /\ load <= load'
    BY DEF RemoveAccount, sockets, client, Stay, HInv, Shapes, Spend
<1>2. ASSUME NEW m \in Messages
      PROVE  /\ message'[m] \in MessageType /\ message'[m].from = message[m].from
             /\ message'[m] = NoMessage <=> message[m] = NoMessage
    <2>1. message[m] \in MessageType
        BY DEF HInv, Shapes
    <2>2. \/ message'[m] = message[m]
          \/ message'[m] = [message[m] EXCEPT !.state = "gone"] /\ message[m].state \in {"saved", "sent"}
        BY DEF RemoveAccount
    <2>3. CASE message'[m] = message[m]
        BY <2>1, <2>3
    <2>4. CASE /\ message'[m] = [message[m] EXCEPT !.state = "gone"]
               /\ message[m].state \in {"saved", "sent"}
        BY <2>1, <2>4 DEF MessageType, NoMessage
    <2> QED
        BY <2>2, <2>3, <2>4
<1>3. message' \in [Messages -> MessageType]
    <2>1. message' = [m \in Messages |-> message'[m]]
        BY DEF RemoveAccount
    <2> QED
        BY <1>2, <2>1
<1>4. Shapes'
    BY <1>1, <1>3 DEF HInv, Shapes
<1>5. Visits'
    <2> SUFFICES ASSUME NEW v \in Readers
                 PROVE  /\ page[v].visit <= load'
                        /\ \A q \in asking[v] : q.visit <= load'
                                                /\ (OnPage(v, q.visit) => q.room = page[v].room)
        BY <1>1 DEF Visits, OnPage
    <2>1. page[v].visit \in Nat /\ \A q \in asking[v] : q.visit \in Nat
        BY DEF HInv, Shapes, AskType
    <2> QED
        BY <1>1, <2>1 DEF HInv, Visits, Shapes
<1>6. Up' /\ ReadyHears' /\ SentHears'
    BY <1>1 DEF HInv, Up, ReadyHears, SentHears
<1>7. Mine' /\ Unsent' /\ SenderHears'
    BY <1>1, <1>2 DEF HInv, Mine, InFlight, Unsent, SenderHears, Stay
<1> QED
    BY <1>4, <1>5, <1>6, <1>7 DEF HInv

LEMMA SendHears ==
    ASSUME OInv, HInv, NEW h \in Jobs, NEW u \in Users, NEW r \in Rooms, Say(h, u, r)
    PROVE  HInv'
<1>1. /\ job' = [job EXCEPT ![h] = [Idle EXCEPT !.op = "send", !.pc = "look", !.user = u, !.room = r]]
      /\ UNCHANGED <<message, client, socket, joined, found, missed>> /\ Spend(1)
    BY DEF Say, Send, sockets, history
<1>2. /\ job'[h].op = "send" /\ job'[h].user = u /\ job'[h].room = r /\ ~InFlight(job'[h])
      /\ \A g \in Jobs \ {h} : job'[g] = job[g]
    BY <1>1 DEF OInv, Idle, InFlight
<1>3. u \in Stay => r \in joined[u]
    BY DEF Say, MaySend, Stay, HInv, ReadyHears
<1>4. load' \in Nat /\ load <= load'
    BY <1>1 DEF HInv, Shapes, Spend
<1> QED
    BY <1>1, <1>2, <1>3, <1>4, WritesNothing, CallHears

\* The socket of a reader comes up, or hears more rooms.
LEMMA SocketHears ==
    ASSUME HInv, UNCHANGED <<client, message, job, missed>>, load' \in Nat, load <= load',
           joined' \in [Users -> SUBSET Rooms], found' \in [Users -> SUBSET Rooms],
           \A u \in Users : joined[u] \subseteq joined'[u],
           DOMAIN socket' = Users, \A u \in Users : socket[u] # "down" => socket'[u] # "down"
    PROVE  HInv'
<1>1. UNCHANGED <<page, asking, dropped>> /\ Stay' = Stay /\ Stay \subseteq Users
    BY ClientAssumption DEF client, Stay
<1>2. Shapes'
    BY <1>1 DEF HInv, Shapes
<1>3. Visits'
    <2> SUFFICES ASSUME NEW u \in Readers
                 PROVE  /\ page[u].visit <= load'
                        /\ \A q \in asking[u] : q.visit <= load'
                                                /\ (OnPage(u, q.visit) => q.room = page[u].room)
        BY <1>1 DEF Visits, OnPage
    <2>1. page[u].visit \in Nat /\ \A q \in asking[u] : q.visit \in Nat
        BY DEF HInv, Shapes, AskType
    <2> QED
        BY <2>1 DEF HInv, Visits, Shapes
<1>4. SentHears'
    <2> SUFFICES ASSUME NEW h \in Jobs, job[h].op = "send", job[h].user \in Stay
                 PROVE  job[h].room \in joined'[job[h].user]
        BY <1>1 DEF SentHears
    <2>1. PICK u \in Users : u = job[h].user
        BY <1>1
    <2> QED
        BY <2>1 DEF HInv, SentHears
<1>5. Up' /\ ReadyHears'
    BY <1>1 DEF HInv, Up, ReadyHears
<1>6. Mine' /\ Unsent' /\ SenderHears'
    BY <1>1 DEF HInv, Mine, Unsent, SenderHears, InFlight
<1> QED
    BY <1>2, <1>3, <1>4, <1>5, <1>6 DEF HInv

LEMMA ConnectHears ==
    ASSUME OInv, HInv, NEW u \in Users, UNCHANGED client,
           FindRooms(u) \/ JoinFound(u) \/ Connect(u)
    PROVE  HInv'
<1>1. UNCHANGED <<message, job, missed>> /\ load' \in Nat /\ load <= load'
    BY DEF FindRooms, JoinFound, Connect, history, Spend, HInv, Shapes
<1>2. RoomsOf(u) \in SUBSET Rooms
    BY DEF RoomsOf
<1>3. /\ joined' \in [Users -> SUBSET Rooms] /\ found' \in [Users -> SUBSET Rooms]
      /\ \A w \in Users : joined[w] \subseteq joined'[w]
    BY <1>2 DEF FindRooms, JoinFound, Connect, HInv, Shapes
<1>4. DOMAIN socket' = Users /\ \A w \in Users : socket[w] # "down" => socket'[w] # "down"
    BY DEF FindRooms, JoinFound, Connect, HInv, Shapes
<1> QED
    BY <1>1, <1>3, <1>4, SocketHears

\* Readings change nothing of a page that sending depends on.
LEMMA ReadingHears ==
    ASSUME HInv, UNCHANGED <<chat, asking, dropped>>, DOMAIN page' = Readers,
           \A u \in Readers : /\ DOMAIN page'[u] = DOMAIN page[u]
                              /\ \A x \in {"room", "visit", "ready"} : page'[u][x] = page[u][x]
    PROVE  HInv'
<1>1. UNCHANGED <<message, job, missed, load, joined, found, socket>> /\ Stay' = Stay
    BY DEF chat, Stay
<1>2. \A u \in Readers : /\ page'[u].room = page[u].room /\ page'[u].visit = page[u].visit
                         /\ page'[u].ready = page[u].ready
    OBVIOUS
<1>3. Shapes' /\ Visits'
    BY <1>1, <1>2 DEF HInv, Shapes, Visits, OnPage
<1>4. ReadyHears'
    BY <1>1, <1>2 DEF HInv, ReadyHears, Stay
<1>5. Up' /\ SentHears' /\ Mine' /\ Unsent' /\ SenderHears'
    BY <1>1 DEF HInv, Up, SentHears, Mine, Unsent, SenderHears, InFlight
<1> QED
    BY <1>3, <1>4, <1>5 DEF HInv

\* A page is told that it may send: its socket is in the room then, or it is told so by
\* mistake and not vouched for.
LEMMA ToldHears ==
    ASSUME HInv, NEW u \in Readers, NEW q \in asking[u], NEW A \in SUBSET AskType,
           \A k \in A : \E o \in asking[u] : k.visit = o.visit /\ k.room = o.room,
           asking' = [asking EXCEPT ![u] = A],
           page' = page \/ page' = IF OnPage(u, q.visit) THEN [page EXCEPT ![u].ready = TRUE] ELSE page,
           dropped \subseteq dropped', joined' \in [Users -> SUBSET Rooms],
           \A w \in Users : joined[w] \subseteq joined'[w],
           page' = page \/ u \in dropped' \/ q.room \in joined'[u],
           UNCHANGED <<message, job, missed, load, found, socket>>
    PROVE  HInv'
<1>1. Stay' \subseteq Stay /\ Stay \subseteq Users
    BY ClientAssumption DEF Stay
<1>2. \A w \in Readers : DOMAIN page[w] = DOMAIN NoPage
    BY DEF HInv, Shapes
<1>3. /\ DOMAIN page' = Readers
      /\ \A w \in Readers : /\ DOMAIN page'[w] = DOMAIN page[w]
                            /\ page'[w].room = page[w].room /\ page'[w].visit = page[w].visit
                            /\ page'[w].ready => page[w].ready \/ (w = u /\ OnPage(u, q.visit))
    <2>1. CASE page' = page
        BY <2>1 DEF HInv, Shapes
    <2>2. CASE OnPage(u, q.visit) /\ page' = [page EXCEPT ![u].ready = TRUE]
        <3>1. DOMAIN page = Readers
            BY DEF HInv, Shapes
        <3>2. PICK new : new = [page[u] EXCEPT !.ready = TRUE]
            OBVIOUS
        <3>3. DOMAIN new = DOMAIN page[u] /\ new.room = page[u].room /\ new.visit = page[u].visit
            BY <1>2, <3>2 DEF NoPage
        <3>4. DOMAIN page' = Readers /\ \A w \in Readers : page'[w] = IF w = u THEN new ELSE page[w]
            BY <2>2, <3>1, <3>2
        <3> QED
            BY <2>2, <3>3, <3>4
    <2> QED BY <2>1, <2>2
<1>4. \A w \in Readers \ {u} : asking'[w] = asking[w]
    BY DEF HInv, Shapes
<1>5. asking'[u] = A /\ asking' \in [Readers -> SUBSET AskType]
    BY DEF HInv, Shapes
<1>6. Shapes'
    BY <1>3, <1>5 DEF HInv, Shapes
<1>7. Visits'
    BY <1>3, <1>4, <1>5 DEF HInv, Visits, OnPage
<1>8. ReadyHears'
    <2> SUFFICES ASSUME NEW w \in Stay', page'[w].ready
                 PROVE  page[w].room \in joined'[w]
        BY <1>3 DEF ReadyHears, Stay
    <2>1. CASE page[w].ready
        BY <1>1, <2>1 DEF HInv, ReadyHears
    <2>2. CASE ~page[w].ready
        <3>1. w = u /\ OnPage(u, q.visit) /\ page' # page
            BY <1>3, <2>2 DEF Stay
        <3>2. q.room = page[u].room
            BY <3>1 DEF HInv, Visits
        <3> QED
            BY <3>1, <3>2 DEF Stay
    <2> QED BY <2>1, <2>2
<1>9. SentHears'
    <2> SUFFICES ASSUME NEW h \in Jobs, job[h].op = "send", job[h].user \in Stay
                 PROVE  job[h].room \in joined'[job[h].user]
        BY <1>1 DEF SentHears
    <2>1. PICK w \in Users : w = job[h].user
        BY <1>1
    <2> QED
        BY <2>1 DEF HInv, SentHears
<1>10. Up' /\ Mine' /\ Unsent' /\ SenderHears'
    BY <1>1 DEF HInv, Up, Mine, Unsent, SenderHears, InFlight, Stay
<1> QED
    BY <1>6, <1>7, <1>8, <1>9, <1>10 DEF HInv

\* A page has the fields of every page.
LEMMA PageShape == HInv => DOMAIN page = Readers /\ \A u \in Readers : DOMAIN page[u] = DOMAIN NoPage
    BY DEF HInv, Shapes

\* A reading sets fields of a page that sending does not depend on.
LEMMA ReadHears ==
    ASSUME HInv, NEW u \in Readers, NEW a, Read(u, a) \/ Arrive(u, a) \/ FailRead(u, a) \/ LoadMore(u)
    PROVE  HInv'
<1>1. UNCHANGED <<chat, asking, dropped>>
    BY DEF Read, Arrive, FailRead, LoadMore
<1>2. \/ page' = page
      \/ \E x, y : page' = [page EXCEPT ![u]["first"] = x, ![u]["low"] = y]
      \/ \E x, y : page' = [page EXCEPT ![u]["last"] = x, ![u]["more"] = y]
      \/ page' = [page EXCEPT ![u]["more"] = FALSE]
    <2>1. CASE Read(u, a)
        BY <2>1 DEF Read
    <2>2. CASE Arrive(u, a)
        BY <2>2 DEF Arrive
    <2>3. CASE FailRead(u, a)
        BY <2>3 DEF FailRead
    <2>4. CASE LoadMore(u)
        BY <2>4 DEF LoadMore
    <2> QED
        BY <2>1, <2>2, <2>3, <2>4
<1>3. /\ DOMAIN page' = Readers
      /\ \A w \in Readers : /\ DOMAIN page'[w] = DOMAIN page[w]
                            /\ \A f \in {"room", "visit", "ready"} : page'[w][f] = page[w][f]
    <2>1. CASE page' = page
        BY <2>1 DEF HInv, Shapes
    <2>2. ASSUME NEW x, NEW y, page' = [page EXCEPT ![u]["first"] = x, ![u]["low"] = y]
          PROVE  /\ DOMAIN page' = Readers
                 /\ \A w \in Readers : /\ DOMAIN page'[w] = DOMAIN page[w]
                                       /\ \A f \in {"room", "visit", "ready"} : page'[w][f] = page[w][f]
        <3>1. PICK new : new = [page[u] EXCEPT !["first"] = x, !["low"] = y]
            OBVIOUS
        <3>2. DOMAIN new = DOMAIN page[u] /\ \A f \in {"room", "visit", "ready"} : new[f] = page[u][f]
            BY <3>1, PageShape DEF NoPage
        <3>3. DOMAIN page' = Readers /\ \A w \in Readers : page'[w] = IF w = u THEN new ELSE page[w]
            BY <2>2, <3>1, PageShape
        <3> QED
            BY <3>2, <3>3
    <2>3. ASSUME NEW x, NEW y, page' = [page EXCEPT ![u]["last"] = x, ![u]["more"] = y]
          PROVE  /\ DOMAIN page' = Readers
                 /\ \A w \in Readers : /\ DOMAIN page'[w] = DOMAIN page[w]
                                       /\ \A f \in {"room", "visit", "ready"} : page'[w][f] = page[w][f]
        <3>1. PICK new : new = [page[u] EXCEPT !["last"] = x, !["more"] = y]
            OBVIOUS
        <3>2. DOMAIN new = DOMAIN page[u] /\ \A f \in {"room", "visit", "ready"} : new[f] = page[u][f]
            BY <3>1, PageShape DEF NoPage
        <3>3. DOMAIN page' = Readers /\ \A w \in Readers : page'[w] = IF w = u THEN new ELSE page[w]
            BY <2>3, <3>1, PageShape
        <3> QED
            BY <3>2, <3>3
    <2>4. CASE page' = [page EXCEPT ![u]["more"] = FALSE]
        <3>1. PICK new : new = [page[u] EXCEPT !["more"] = FALSE]
            OBVIOUS
        <3>2. DOMAIN new = DOMAIN page[u] /\ \A f \in {"room", "visit", "ready"} : new[f] = page[u][f]
            BY <3>1, PageShape DEF NoPage
        <3>3. DOMAIN page' = Readers /\ \A w \in Readers : page'[w] = IF w = u THEN new ELSE page[w]
            BY <2>4, <3>1, PageShape
        <3> QED
            BY <3>2, <3>3
    <2> QED
        BY <1>2, <2>1, <2>2, <2>3, <2>4
<1> QED
    BY <1>1, <1>3, ReadingHears

\* A page is opened by a visit of its own, and is not ready.
LEMMA OpenHears == ASSUME HInv, NEW u \in Readers, NEW r \in Rooms, OpenPage(u, r) PROVE HInv'
<1>1. /\ UNCHANGED <<message, job, missed, socket, joined, found, dropped>>
      /\ load' = load + 1 /\ load \in Nat
      /\ page' = [page EXCEPT ![u] = [NoPage EXCEPT !.room = r, !.visit = load', !.last = 1, !.more = TRUE]]
      /\ asking' = [asking EXCEPT ![u] = @ \union {[room |-> r, visit |-> load', member |-> FALSE]}]
    BY DEF OpenPage, Spend, sockets, history, HInv, Shapes
<1>2. PICK n \in Nat : n = load'
    BY <1>1
<1>3. PICK p : p = [NoPage EXCEPT !.room = r, !.visit = n, !.last = 1, !.more = TRUE]
    OBVIOUS
<1>4. DOMAIN p = DOMAIN NoPage /\ p.room = r /\ p.visit = n /\ p.ready = FALSE
    BY <1>3 DEF NoPage
<1>5. DOMAIN page' = Readers /\ \A w \in Readers : page'[w] = IF w = u THEN p ELSE page[w]
    BY <1>1, <1>2, <1>3 DEF HInv, Shapes
<1>6. PICK q \in AskType : q = [room |-> r, visit |-> n, member |-> FALSE]
    BY <1>2 DEF AskType
<1>7. /\ asking' \in [Readers -> SUBSET AskType] /\ q.visit = n /\ q.room = r
      /\ \A w \in Readers : asking'[w] = IF w = u THEN asking[w] \union {q} ELSE asking[w]
    BY <1>1, <1>2, <1>6 DEF HInv, Shapes
<1>8. Shapes'
    BY <1>1, <1>4, <1>5, <1>7 DEF HInv, Shapes
<1>9. Visits'
    <2>1. \A w \in Readers : page[w].visit <= load /\ page[w].visit \in Nat
        BY DEF HInv, Visits, Shapes
    <2>2. \A w \in Readers : \A o \in asking[w] : o.visit <= load /\ o.visit \in Nat
        BY DEF HInv, Visits, Shapes, AskType
    <2>3. ASSUME NEW w \in Readers, w # u
          PROVE  /\ page'[w].visit <= n
                 /\ \A o \in asking'[w] : o.visit <= n
                        /\ (page'[w].visit = o.visit /\ page'[w].room # "none" => o.room = page'[w].room)
        <3>1. page'[w] = page[w] /\ asking'[w] = asking[w]
            BY <1>5, <1>7, <2>3
        <3> QED
            BY <1>1, <1>2, <2>1, <2>2, <3>1 DEF HInv, Visits, OnPage
    <2>4. /\ page'[u].visit <= n
          /\ \A o \in asking'[u] : o.visit <= n
                 /\ (page'[u].visit = o.visit /\ page'[u].room # "none" => o.room = page'[u].room)
        BY <1>1, <1>2, <1>4, <1>5, <1>7, <2>2
    <2> QED
        BY <1>2, <2>3, <2>4 DEF Visits, OnPage
<1>10. ReadyHears'
    BY <1>1, <1>4, <1>5 DEF HInv, ReadyHears, Stay
<1>11. Up' /\ SentHears' /\ Mine' /\ Unsent' /\ SenderHears'
    BY <1>1 DEF HInv, Up, SentHears, Mine, Unsent, SenderHears, InFlight, Stay
<1> QED
    BY <1>8, <1>9, <1>10, <1>11 DEF HInv

LEMMA AskHears ==
    ASSUME HInv, NEW u \in Readers, NEW q \in asking[u], CheckMember(u, q) \/ Subscribe(u, q)
    PROVE  HInv'
<1>1. q \in AskType /\ asking[u] \in SUBSET AskType /\ joined \in [Users -> SUBSET Rooms] /\ u \in Users
    BY ClientAssumption DEF HInv, Shapes
<1>2. CASE CheckMember(u, q)
    <2>1. /\ UNCHANGED <<message, job, missed, load, found, socket, joined>>
        BY <1>2 DEF CheckMember, chat
    <2>2. PICK k \in AskType : k = [q EXCEPT !.member = TRUE]
        BY <1>1 DEF AskType
    <2>3. k.visit = q.visit /\ k.room = q.room
        BY <1>1, <2>2 DEF AskType
    <2>4. CASE u \in MembersOf(q.room)
        <3>1. PICK A \in SUBSET AskType : A = (asking[u] \ {q}) \union {k}
            BY <1>1
        <3>2. asking' = [asking EXCEPT ![u] = A] /\ page' = page /\ dropped' = dropped
            BY <1>2, <2>2, <2>4, <3>1 DEF CheckMember
        <3>3. \A i \in A : \E o \in asking[u] : i.visit = o.visit /\ i.room = o.room
            BY <2>3, <3>1
        <3> QED
            BY <1>1, <2>1, <3>2, <3>3, ToldHears
    <2>5. CASE u \notin MembersOf(q.room)
        <3>1. PICK A \in SUBSET AskType : A = asking[u] \ {q}
            BY <1>1
        <3>2. /\ asking' = [asking EXCEPT ![u] = A] /\ dropped' = dropped \union {u}
              /\ page' = IF OnPage(u, q.visit) THEN [page EXCEPT ![u].ready = TRUE] ELSE page
            BY <1>2, <2>5, <3>1 DEF CheckMember
        <3> QED
            BY <1>1, <2>1, <3>1, <3>2, ToldHears
    <2> QED BY <2>4, <2>5
<1>3. CASE Subscribe(u, q)
    <2>1. UNCHANGED <<message, job, missed, load, found, socket, dropped>>
        BY <1>3 DEF Subscribe, history
    <2>2. joined' = [joined EXCEPT ![u] = @ \union {q.room}] /\ q.room \in Rooms
        BY <1>1, <1>3 DEF Subscribe, AskType
    <2>3. /\ joined' \in [Users -> SUBSET Rooms] /\ q.room \in joined'[u]
          /\ \A w \in Users : joined[w] \subseteq joined'[w]
        BY <1>1, <2>2
    <2>4. PICK A \in SUBSET AskType : A = asking[u] \ {q}
        BY <1>1
    <2>5. /\ asking' = [asking EXCEPT ![u] = A]
          /\ page' = IF OnPage(u, q.visit) THEN [page EXCEPT ![u].ready = TRUE] ELSE page
        BY <1>3, <2>4 DEF Subscribe
    <2> QED
        BY <2>1, <2>3, <2>4, <2>5, ToldHears
<1> QED
    BY <1>2, <1>3

\* Marking and receiving concern the store only; whoever is disconnected is not vouched
\* for any more.
LEMMA StoreHears ==
    ASSUME HInv, NEW u \in Readers, Receive(u) \/ \E r \in Rooms : MarkMessagesAsRead(u, r)
    PROVE  HInv'
<1>1. UNCHANGED <<message, job, missed, load, joined, found, socket, page, asking, dropped>>
    <2>1. CASE Receive(u)
        BY <2>1 DEF Receive, history
    <2>2. ASSUME NEW r \in Rooms, MarkMessagesAsRead(u, r)
          PROVE  UNCHANGED <<message, job, missed, load, joined, found, socket, page, asking, dropped>>
        BY <2>2 DEF MarkMessagesAsRead, sockets, history
    <2> QED BY <2>1, <2>2
<1> QED
    BY <1>1 DEF HInv, Shapes, Up, Visits, OnPage, ReadyHears, SentHears, Mine, InFlight, Unsent,
                SenderHears, Stay

LEMMA DropHears == ASSUME HInv, NEW u \in Readers, Drop(u) PROVE HInv'
<1>1. /\ UNCHANGED <<message, job, load, page>> /\ dropped' = dropped \union {u}
      /\ socket' = [socket EXCEPT ![u] = "down"] /\ joined' = [joined EXCEPT ![u] = {}]
      /\ found' = [found EXCEPT ![u] = {}] /\ missed' = missed \union Lost(u)
      /\ asking' = [asking EXCEPT ![u] = {}]
    BY DEF Drop, Disconnect
<1>2. /\ Stay' = Stay \ {u} /\ Stay \subseteq Users
      /\ \A w \in Stay' : \A m : <<w, m>> \in missed' => <<w, m>> \in missed
    BY <1>1, ClientAssumption DEF Stay, Lost
<1>3. Shapes'
    BY <1>1 DEF HInv, Shapes
<1>4. \A w \in Stay' : joined'[w] = joined[w] /\ socket'[w] = socket[w]
    BY <1>1, <1>2 DEF HInv, Shapes
<1>5. Up' /\ ReadyHears'
    BY <1>1, <1>2, <1>4 DEF HInv, Up, ReadyHears
<1>6. Visits'
    BY <1>1 DEF HInv, Shapes, Visits, OnPage
<1>7. SentHears'
    BY <1>1, <1>2, <1>4 DEF HInv, SentHears
<1>8. Mine'
    BY <1>1 DEF HInv, Mine, InFlight
<1>9. Unsent' /\ SenderHears'
    BY <1>1, <1>2 DEF HInv, Unsent, SenderHears, Stay
<1> QED
    BY <1>3, <1>5, <1>6, <1>7, <1>8, <1>9 DEF HInv

LEMMA HInitHolds == CInit => HInv
<1> SUFFICES ASSUME CInit PROVE HInv
    OBVIOUS
<1>1. /\ page = [u \in Readers |-> NoPage] /\ asking = [u \in Readers |-> {}] /\ dropped = {}
      /\ job = [h \in Jobs |-> Idle] /\ socket = [u \in Users |-> "up"] /\ missed = {}
      /\ found = [u \in Users |-> {}] /\ load = 0
      /\ joined \in {[u \in Users |-> RoomsOf(u) \ late] : late \in {{}, Rooms}}
    BY DEF CInit, RInit
<1>2. joined \in [Users -> SUBSET Rooms]
    BY <1>1 DEF RoomsOf
<1>3. PICK o \in Users, others \in SUBSET Users, old \in {0, MaxMessages - 1} :
        LET there == others # {} /\ o \notin others
        IN  /\ room = [r \in Rooms |-> IF r = FirstRoom /\ there THEN "group" ELSE "none"]
            /\ member = [r \in Rooms |-> IF r = FirstRoom /\ there THEN Group(o, others)
                                          ELSE NoMembers]
            /\ message = [m \in Messages |-> IF m <= old /\ there
                   THEN [room |-> FirstRoom, from |-> o, state |-> "sent"] ELSE NoMessage]
    BY DEF CInit, RInit
<1>4. message \in [Messages -> MessageType]
    <2>1. NoMessage \in MessageType
        BY DEF NoMessage, MessageType
    <2>2. FirstRoom \in Rooms
        BY ChatAssumption DEF FirstRoom
    <2> QED
        BY <1>3, <2>1, <2>2 DEF MessageType
<1>5. Shapes
    BY <1>1, <1>2, <1>4 DEF Shapes, NoPage
<1>6. Up /\ Visits /\ ReadyHears
    BY <1>1, ClientAssumption DEF Up, Stay, Visits, ReadyHears, NoPage
<1>7. SentHears /\ Mine /\ Unsent /\ SenderHears
    BY <1>1, IdleStep DEF SentHears, Mine, InFlight, Unsent, SenderHears
<1> QED
    BY <1>5, <1>6, <1>7 DEF HInv

LEMMA HNextKeeps == OInv /\ HInv /\ [CNext]_<<chat, client>> => HInv'
<1> SUFFICES ASSUME OInv, HInv, [CNext]_<<chat, client>> PROVE HInv'
    OBVIOUS
<1>1. CASE RNext /\ UNCHANGED client
    BY <1>1, ServeHears, ConnectHears, RemoveAccountHears DEF RNext
<1>2. ASSUME NEW u \in Readers, PageStep(u) PROVE HInv'
    BY <1>2, OpenHears, StoreHears, ReadHears, AskHears, DropHears DEF PageStep
<1>3. ASSUME NEW u \in Readers, Connect(u) /\ UNCHANGED client PROVE HInv'
    BY <1>3, ConnectHears, ClientAssumption
<1>4. ASSUME NEW h \in Jobs, NEW u \in Users, NEW r \in Rooms, Say(h, u, r) PROVE HInv'
    BY <1>4, SendHears
<1>5. CASE UNCHANGED <<chat, client>>
    <2>1. UNCHANGED <<message, job, missed, load, joined, found, socket, page, asking, dropped>>
        BY <1>5 DEF chat, client
    <2> QED
        BY <2>1 DEF HInv, Shapes, Up, Visits, OnPage, ReadyHears, SentHears, Mine, InFlight, Unsent,
                    SenderHears, Stay
<1> QED
    BY <1>1, <1>2, <1>3, <1>4, <1>5 DEF CNext

\* Whoever sends a message from a page hears it there: handleSendMessage waits until the
\* page was told of its subscription, and subscribe-room tells it only when the socket is
\* in the room, whichever page asked and however pages were opened meanwhile.
THEOREM SenderIsHeard == CSpec => []SenderHears
<1>1. CInit /\ [][CNext]_<<chat, client>> /\ []OInv => []HInv
    BY HInitHolds, HNextKeeps, PTL
<1>2. HInv => SenderHears
    BY DEF HInv
<1> QED
    BY <1>1, <1>2, OInvAlways, PTL DEF CSpec

=============================================================================
