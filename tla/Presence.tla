------------------------------- MODULE Presence -------------------------------
(***************************************************************************)
(* Who is online: the chat gateway writes it when a socket comes or goes   *)
(* and tells the friends (chat.gateway.ts), Redis keeps it for five        *)
(* minutes (redis.service.ts), three scheduled jobs look after it          *)
(* (online-status-monitor.service.ts).                                     *)
(*                                                                         *)
(* A user's presence is a key of its own and membership in a set; they are *)
(* two commands, and handlers and jobs interleave between them. Presence   *)
(* is per user, sockets are per tab: whichever tab goes takes the presence *)
(* with it. Nothing renews the key of a user who stays.                    *)
(***************************************************************************)
EXTENDS Friends

CONSTANTS
    Resident, Home,  \* bound: one user keeps the tab Home open, the others come and go
    Sockets,         \* bound: sockets ever opened
    Crons,           \* bound: scheduled jobs running at the same time
    MaxLoad          \* bound: sockets opened (3 each) and calls made (2 each), together

VARIABLES
    key,      \* user:online:<user>: a status, or "absent"
    online,   \* the set users:online
    owner,    \* the user of each socket
    arrived,  \* when each socket came, 0 for those that are not open
    handler,  \* handleConnection ("in") and handleDisconnect ("out") of each socket
    cron,     \* the scheduled jobs
    heard,    \* the users the page of a socket was told are online
    \* History:
    raced,    \* users with two handlers or jobs at the same time, or connected when
              \* the server stopped
    parted    \* pairs that were not friends at some time

presence == <<key, online, owner, arrived, handler, cron, heard, raced, parted>>

\* The name that stands for nobody.
Nobody == "nobody"

ASSUME PresenceAssumption ==
    /\ Nobody \notin Users
    /\ Resident \in Users /\ Home \in Sockets
    /\ IsFiniteSet(Sockets) /\ IsFiniteSet(Crons)

-----------------------------------------------------------------------------
(* A key may be seen at any age up to its lifetime, in minutes; a little    *)
(* later Redis drops it.                                                    *)

Lifetime == 5
Needed(kind) == IF kind = "idle" THEN 5 ELSE 30
MayBeSeenAt(kind) == \E age \in 0 .. Lifetime : age >= Needed(kind)
Kinds == {"idle", "away", "cleanup"}

Resting == [pc |-> "done", left |-> {}]
Asleep == [kind |-> "none", pc |-> "asleep", user |-> Nobody]

Ways == {"in", "out"}
IsOpen(s) == arrived[s] # 0
Open1(u) == {s \in Sockets : owner[s] = u /\ IsOpen(s)}
Busy(u) == {h \in Sockets \X Ways : owner[h[1]] = u /\ handler[h] # Resting}
InHand(u) == {c \in Crons : cron[c].user = u}
Step(h, pc) == handler' = [handler EXCEPT ![h].pc = pc]
At1(h, way, pc) == h[2] = way /\ handler[h].pc = pc

Opened == {s \in Sockets \ {Home} : owner[s] # Nobody}
Load == 3 * Cardinality(Opened) + 2 * calls

\* Bound: tabs come and go among people who are friends or part, requests are
\* made and answered beside the tab that stays.
NoneAsked == \A r \in Requests : requests[r] = NoRow

PInit ==
    /\ FInit
    /\ key = [u \in Users |-> "absent"]
    /\ online = {}
    /\ owner = [s \in Sockets |-> IF s = Home THEN Resident ELSE Nobody]
    /\ arrived = [s \in Sockets |-> IF s = Home THEN 1 ELSE 0]
    /\ handler = [h \in Sockets \X Ways |-> Resting]
    /\ cron = [c \in Crons |-> Asleep]
    /\ heard = [s \in Sockets |-> {}]
    /\ raced = {}
    /\ parted = {p \in Pairs : \A f \in Friendships : friendships[f] # p}

\* Two of the handlers and jobs are about u.
Overlap(u) == Cardinality(Busy(u)) + Cardinality(InHand(u)) > 1

-----------------------------------------------------------------------------
(* handleConnection, handleDisconnect                                       *)

\* The socket is connected at once; its handler looks the user up first.
Connect(s, u) ==
    /\ owner[s] = Nobody
    /\ Load + 3 <= MaxLoad /\ NoneAsked
    /\ owner' = [owner EXCEPT ![s] = u]
    /\ arrived' = [arrived EXCEPT ![s] = 1 + Cardinality({t \in Sockets : owner[t] # Nobody})]
    /\ handler' = [handler EXCEPT ![<<s, "in">>] = [pc |-> "set", left |-> {}]]
    /\ UNCHANGED <<key, online, cron, heard, parted>>

\* A tab closes: handleDisconnect runs, whatever handleConnection still does.
Disconnect(s) ==
    /\ IsOpen(s) /\ s # Home
    /\ arrived' = [arrived EXCEPT ![s] = 0]
    /\ handler' = [handler EXCEPT ![<<s, "out">>] = [pc |-> "delete", left |-> {}]]
    /\ heard' = [heard EXCEPT ![s] = {}]
    /\ UNCHANGED <<key, online, owner, cron, parted>>

\* setUserOnlineStatus: the key with a new lifetime, then the set.
SetKey(h) ==
    /\ At1(h, "in", "set")
    /\ key' = [key EXCEPT ![owner[h[1]]] = "online"]
    /\ Step(h, "add")
    /\ UNCHANGED <<online, owner, arrived, cron, heard, parted>>

AddToSet(h) ==
    /\ At1(h, "in", "add")
    /\ online' = online \union {owner[h[1]]}
    /\ Step(h, "friends")
    /\ UNCHANGED <<key, owner, arrived, cron, heard, parted>>

\* Mutant of RemoveFromSet: the set is left to the jobs.
LeaveInSet(h) ==
    /\ At1(h, "out", "remove")
    /\ Step(h, "friends")
    /\ UNCHANGED <<key, online, owner, arrived, cron, heard, parted>>

\* setUserOffline: the same two, whatever other tabs the user has.
DeleteKey(h) ==
    /\ At1(h, "out", "delete")
    /\ key' = [key EXCEPT ![owner[h[1]]] = "absent"]
    /\ Step(h, "remove")
    /\ UNCHANGED <<online, owner, arrived, cron, heard, parted>>

RemoveFromSet(h) ==
    /\ At1(h, "out", "remove")
    /\ online' = online \ {owner[h[1]]}
    /\ Step(h, "friends")
    /\ UNCHANGED <<key, owner, arrived, cron, heard, parted>>

\* notifyFriendsOnlineStatus: the friends are read, then each is looked for
\* among the sockets and told on the first one found.
ReadFriends(h) ==
    /\ handler[h].pc = "friends"
    /\ handler' = [handler EXCEPT ![h] =
           LET them == Befriended(owner[h[1]]) IN
           IF them = {} THEN Resting ELSE [pc |-> "tell", left |-> them]]
    /\ UNCHANGED <<key, online, owner, arrived, cron, heard, parted>>

\* Mutant of Hear: those who leave are announced as those who come.
HearAlike(them, u, way) == them \union {u}

Hear(them, u, way) == IF way = "in" THEN them \union {u} ELSE them \ {u}

FirstSocket(u) == {s \in Open1(u) : \A t \in Open1(u) : arrived[s] <= arrived[t]}

TellFriend(h, v) ==
    /\ handler[h].pc = "tell" /\ v \in handler[h].left
    /\ LET first == FirstSocket(v)
       IN  heard' = [s \in Sockets |-> IF s \in first
                                       THEN Hear(heard[s], owner[h[1]], h[2]) ELSE heard[s]]
    /\ handler' = [handler EXCEPT ![h] =
           LET left == handler[h].left \ {v} IN
           IF left = {} THEN Resting ELSE [pc |-> "tell", left |-> left]]
    /\ UNCHANGED <<key, online, owner, arrived, cron, parted>>

Serve1(h) ==
    \/ SetKey(h) \/ AddToSet(h) \/ DeleteKey(h) \/ RemoveFromSet(h)
    \/ ReadFriends(h) \/ \E v \in Users : TellFriend(h, v)

-----------------------------------------------------------------------------
(* Scheduled jobs: checkIdleUsers, checkAwayUsers, cleanupExpiredStatus     *)

\* A job reads the set and goes through it. Users do not depend on each other,
\* so a job here looks at one of those it has read.
Wake(c, kind, u) ==
    /\ cron[c] = Asleep
    /\ u \in online
    /\ cron' = [cron EXCEPT ![c] = [kind |-> kind, pc |-> "read", user |-> u]]
    /\ UNCHANGED <<key, online, owner, arrived, handler, heard, parted>>

Then(c, goOn, pc) == cron' = [cron EXCEPT ![c] = IF goOn THEN [@ EXCEPT !.pc = pc] ELSE Asleep]

\* setUserIdle and setUserAway mark who is online, or not away yet.
StillUp(kind, status) == status \in IF kind = "idle" THEN {"online"} ELSE {"online", "idle"}

\* The status of the user is read: old enough to be marked, or gone.
Inspect(c) ==
    /\ cron[c].pc = "read"
    /\ LET it == cron[c]
       IN  IF it.kind = "cleanup" THEN Then(c, key[it.user] = "absent", "remove")
           ELSE Then(c, StillUp(it.kind, key[it.user]) /\ MayBeSeenAt(it.kind), "again")
    /\ UNCHANGED <<key, online, owner, arrived, handler, heard, parted>>

\* setUserIdle, setUserAway: the status is read again, its age is not.
ReadAgain(c) ==
    /\ cron[c].pc = "again"
    /\ Then(c, StillUp(cron[c].kind, key[cron[c].user]), "mark")
    /\ UNCHANGED <<key, online, owner, arrived, handler, heard, parted>>

Mark(c) ==
    /\ cron[c].pc = "mark"
    /\ key' = [key EXCEPT ![cron[c].user] = cron[c].kind]
    /\ cron' = [cron EXCEPT ![c].pc = "list"]
    /\ UNCHANGED <<online, owner, arrived, handler, heard, parted>>

List(c) ==
    /\ cron[c].pc = "list"
    /\ online' = online \union {cron[c].user}
    /\ cron' = [cron EXCEPT ![c] = Asleep]
    /\ UNCHANGED <<key, owner, arrived, handler, heard, parted>>

\* Mutant of CleanUp: the set is left alone.
CleanUpNothing(c) ==
    /\ cron[c].pc = "remove"
    /\ cron' = [cron EXCEPT ![c] = Asleep]
    /\ UNCHANGED <<key, online, owner, arrived, handler, heard, parted>>

\* cleanupExpiredOnlineStatus: who had no key when he was read is removed.
CleanUp(c) ==
    /\ cron[c].pc = "remove"
    /\ online' = online \ {cron[c].user}
    /\ cron' = [cron EXCEPT ![c] = Asleep]
    /\ UNCHANGED <<key, owner, arrived, handler, heard, parted>>

Run(c) == Inspect(c) \/ ReadAgain(c) \/ Mark(c) \/ List(c) \/ CleanUp(c)

-----------------------------------------------------------------------------
(* Time and failure                                                         *)

Expire(u) ==
    /\ key[u] # "absent"
    /\ key' = [key EXCEPT ![u] = "absent"]
    /\ UNCHANGED <<online, owner, arrived, handler, cron, heard, parted>>

\* The server stops: sockets, handlers, jobs and calls are gone, Redis stays.
Crash ==
    /\ \E s \in Sockets : IsOpen(s)
    /\ arrived' = [s \in Sockets |-> 0]
    /\ handler' = [h \in Sockets \X Ways |-> Resting]
    /\ cron' = [c \in Crons |-> Asleep]
    /\ heard' = [s \in Sockets |-> {}]
    /\ UNCHANGED <<key, online, owner, parted>>

PStep ==
    \/ \E s \in Sockets : Disconnect(s) \/ \E u \in Users \ {Resident} : Connect(s, u)
    \/ \E h \in Sockets \X Ways : Serve1(h)
    \/ \E c \in Crons : Run(c) \/ \E kind \in Kinds, u \in Users : Wake(c, kind, u)
    \/ \E u \in Users : Expire(u)

Seen == raced' = raced \union {u \in Users : Overlap(u)'}

PNext ==
    \/ PStep /\ Seen /\ UNCHANGED friends
    \/ /\ Crash /\ raced' = raced \union {u \in Users : Open1(u) # {} \/ Busy(u) # {}}
       /\ job' = [h \in Jobs |-> Idle]
       /\ unsaved' = unsaved \union UNION {HalfDone(h) : h \in Jobs}
       /\ UNCHANGED <<database, shown, calls, asked, agreed, crossed, reopened, revived>>
    \/ /\ FNext
       /\ parted' = parted \union {p \in Pairs : \A f \in Friendships : friendships'[f] # p}
       /\ UNCHANGED <<key, online, owner, arrived, handler, cron, heard, raced>>
       /\ Load' <= MaxLoad /\ (Opened # {} => NoneAsked')

\* Handlers and jobs go on, jobs are started at their times, keys expire.
PFairness ==
    /\ WF_presence(\E h \in Sockets \X Ways : Serve1(h) /\ Seen)
    /\ WF_presence(\E c \in Crons : Run(c) /\ Seen)
    /\ \A u \in Users : SF_presence(\E c \in Crons : Wake(c, "cleanup", u) /\ Seen)
    /\ WF_presence(\E u \in Users : Expire(u) /\ Seen)

-----------------------------------------------------------------------------
(* Properties                                                               *)

\* Type invariant.
PTypeOK ==
    /\ FTypeOK
    /\ key \in [Users -> {"online", "idle", "away", "absent"}]
    /\ online \subseteq Users
    /\ owner \in [Sockets -> Users \union {Nobody}]
    /\ \A s \in Sockets : IsOpen(s) => owner[s] # Nobody
    /\ \A s, t \in Sockets : IsOpen(s) /\ IsOpen(t) /\ arrived[s] = arrived[t] => s = t
    /\ \A h \in Sockets \X Ways : handler[h].left \subseteq Users
                                  /\ (handler[h] # Resting => owner[h[1]] # Nobody)
    /\ \A c \in Crons : cron[c] = Asleep <=> cron[c].user = Nobody

\* The key and the set agree: who has a key is in the set the jobs work from, and
\* who has closed the last tab has neither, so that his friends see him gone
\* (getFriends reads the key). Excepted are users whose handlers are at work, or
\* overlapped each other or a job that was looking at them, or whose server stopped.
PresenceAgrees ==
    \A u \in Users \ raced : Busy(u) = {} =>
        /\ key[u] # "absent" => u \in online
        /\ Open1(u) = {} => key[u] = "absent" /\ u \notin online

\* A page that was told a friend is online is told when he goes, by the same
\* route: the first of its user's sockets at both times, as long as the two
\* stay friends and his handlers do not overlap.
ToldWhenGone ==
    \A s \in Sockets, u \in Users \ raced :
        /\ u \in heard[s] /\ Busy(u) = {} /\ {owner[s], u} \notin parted
        => \E t \in Sockets : owner[t] = u /\ (IsOpen(t) \/ handler[<<t, "out">>] # Resting)

\* Presence does not outlive its user: after the last connection, whatever the
\* handlers, jobs and failures that crossed, everybody is forgotten at last; a
\* job marks a user idle once, and that renews the key once. The user who stays
\* connected is forgotten with the others: nothing renews his key.
Forgotten == <>[](online = {} /\ \A u \in Users : key[u] = "absent")

PSpec == PInit /\ [][PNext]_<<friends, presence>> /\ PFairness
=============================================================================
