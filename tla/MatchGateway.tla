---------------------------- MODULE MatchGateway ----------------------------
(***************************************************************************)
(* The socket side of random matchmaking (match.gateway.ts), composed with *)
(* the queues of MatchQueue. Two Redis keys per user tie the two together: *)
(* MATCH_SOCKET_KEY, the id of "the" socket of the user, written by        *)
(* handleConnection and deleted by handleDisconnect of whichever socket of *)
(* the user, and MATCH_ROOM_KEY, the room the user was matched into,       *)
(* written by notifyMatchSuccess, which runs on its own after the handler  *)
(* that formed the match has moved on.                                     *)
(*                                                                         *)
(* A user may have several sockets (tabs, reconnections); <<u, n>> is the  *)
(* n-th one u opens.                                                       *)
(***************************************************************************)
EXTENDS MatchQueue

CONSTANTS
    MaxSockets        \* bound: sockets all users open together

ASSUME SocketsAssumption == MaxSockets \in Nat

VARIABLES
    sock,      \* sock[s]: the connection s and where its handlers are
    socketKey, \* MATCH_SOCKET_KEY of each user
    roomKey,   \* MATCH_ROOM_KEY of each user: the index of a match
    rooms,     \* <<s, k>>: socket s is in the Socket.IO room of match k
    job,       \* job[k]: notifyMatchSuccess of match k
    \* History, read by no action of the program:
    overlap,   \* users who opened a socket before an earlier one was done with
    told,      \* <<s, k>>: s received match_success for match k
    ended      \* <<s, k>>: s received match_end for match k

gateway == <<sock, socketKey, roomKey, rooms, job, overlap, told, ended>>
allVars == <<vars, gateway>>

-----------------------------------------------------------------------------
(* Data                                                                    *)

Sockets == Users \X (1 .. MaxSockets)
NoSocket == <<>>
NoRoom == 0
NoRoomRead == [pc |-> "off", live |-> FALSE, room |-> NoRoom]

\* "arriving": handleConnection is looking the user up; "keying": it is about
\* to set MATCH_SOCKET_KEY; "leaving" and "ending": handleDisconnect is about
\* to read MATCH_ROOM_KEY, and about to tell the room; "lost": the server died.
SocketPhases == {"off", "arriving", "keying", "up", "leaving", "ending", "gone", "lost"}
JobPhases == {"read", "join", "keys", "tell", "emit", "done", "failed"}

Opened(u) == {n \in 1 .. MaxSockets : sock[<<u, n>>].pc # "off"}
TotalOpened == Cardinality({s \in Sockets : sock[s].pc # "off"})

\* s is in use: connected, and its user is known.
Usable(s) == sock[s].pc = "up" /\ sock[s].live
HasSocket(u) == \E n \in 1 .. MaxSockets : Usable(<<u, n>>)

SetPc(s, pc) == sock' = [sock EXCEPT ![s].pc = pc]

GInit ==
    /\ Init
    /\ sock = [s \in Sockets |-> NoRoomRead]
    /\ socketKey = [u \in Users |-> NoSocket]
    /\ roomKey = [u \in Users |-> NoRoom]
    /\ rooms = {}
    /\ job = <<>>
    /\ overlap = {}
    /\ told = {}
    /\ ended = {}

-----------------------------------------------------------------------------
(* handleConnection and handleDisconnect                                   *)

Open(s) ==
    /\ TotalOpened < MaxSockets
    /\ sock[s].pc = "off"
    /\ s[2] = Cardinality(Opened(s[1])) + 1
    /\ sock' = [sock EXCEPT ![s].pc = "arriving", ![s].live = TRUE]
    /\ overlap' = IF \A n \in Opened(s[1]) : sock[<<s[1], n>>].pc \in {"gone", "lost"}
                  THEN overlap ELSE overlap \union {s[1]}
    /\ UNCHANGED <<vars, socketKey, roomKey, rooms, job, told, ended>>

\* The user is found; all waiting of the user is cancelled.
Arrive(s) ==
    /\ sock[s].pc = "arriving"
    /\ SetPc(s, "keying")
    /\ Leave(s[1])
    /\ UNCHANGED <<socketKey, roomKey, rooms, job, overlap, told, ended>>

\* Mutant of SetKey: SET NX, an old value is kept.
SetKeyIfAbsent(s) ==
    /\ sock[s].pc = "keying"
    /\ socketKey' = [socketKey EXCEPT ![s[1]] = IF @ = NoSocket THEN s ELSE @]
    /\ SetPc(s, IF sock[s].live THEN "up" ELSE "gone")
    /\ UNCHANGED <<vars, roomKey, rooms, job, overlap, told, ended>>

\* Nothing checks that the socket is still connected.
SetKey(s) ==
    /\ sock[s].pc = "keying"
    /\ socketKey' = [socketKey EXCEPT ![s[1]] = s]
    /\ SetPc(s, IF sock[s].live THEN "up" ELSE "gone")
    /\ UNCHANGED <<vars, roomKey, rooms, job, overlap, told, ended>>

\* The client disconnects. Before the user lookup ended, handleDisconnect has
\* no user key to work with. (Between that and "up" it would send its commands
\* after the SET handleConnection has already sent.)
DropEarly(s) ==
    /\ sock[s].pc = "arriving" /\ sock[s].live
    /\ sock' = [sock EXCEPT ![s].live = FALSE]
    /\ UNCHANGED <<vars, socketKey, roomKey, rooms, job, overlap, told, ended>>

Drop(s) ==
    /\ Usable(s)
    /\ sock' = [sock EXCEPT ![s].pc = "leaving", ![s].live = FALSE]
    /\ rooms' = {m \in rooms : m[1] # s}
    /\ Leave(s[1])
    /\ UNCHANGED <<socketKey, roomKey, job, overlap, told, ended>>

\* Mutant of ReadRoom: the keys are deleted first.
ReadRoomLate(s) ==
    /\ sock[s].pc = "leaving"
    /\ sock' = [sock EXCEPT ![s].pc = "ending", ![s].room = NoRoom]
    /\ roomKey' = [roomKey EXCEPT ![s[1]] = NoRoom]
    /\ UNCHANGED <<vars, socketKey, rooms, job, overlap, told, ended>>

ReadRoom(s) ==
    /\ sock[s].pc = "leaving"
    /\ sock' = [sock EXCEPT ![s].pc = "ending", ![s].room = roomKey[s[1]]]
    /\ UNCHANGED <<vars, socketKey, roomKey, rooms, job, overlap, told, ended>>

\* getRoomMemberCount looks for "room:room:<id>" and counts nobody, so the room
\* always gets match_end, never match_user_left. Both keys of the user go,
\* whichever socket of the user they are about.
EndRoom(s) ==
    /\ sock[s].pc = "ending"
    /\ ended' = ended \union {m \in rooms : m[2] = sock[s].room}
    /\ roomKey' = [roomKey EXCEPT ![s[1]] = NoRoom]
    /\ socketKey' = [socketKey EXCEPT ![s[1]] = NoSocket]
    /\ SetPc(s, "gone")
    /\ UNCHANGED <<vars, rooms, job, overlap, told>>

-----------------------------------------------------------------------------
(* The queue handlers, started from a socket                               *)

GRequest(h, u, g) ==
    /\ HasSocket(u)
    /\ Request(h, u, g)
    /\ UNCHANGED gateway

GCancel(u, g) ==
    /\ HasSocket(u)
    /\ Cancel(u, g)
    /\ UNCHANGED gateway

\* handleCreateMatchRequest starts notifyMatchSuccess and does not await it.
GSave(h) ==
    /\ Save(h)
    /\ job' = Append(job, [pc |-> "read", ids |-> {}, at |-> 1, to |-> NoSocket])
    /\ UNCHANGED <<sock, socketKey, roomKey, rooms, overlap, told, ended>>

-----------------------------------------------------------------------------
(* notifyMatchSuccess                                                      *)

MatchUsers(k) == matches[k].users
LastUser(k) == job[k].at = Len(MatchUsers(k))

\* Mutant of NotifyRead: only the last user's socket is kept.
NotifyReadLast(k) ==
    /\ job[k].pc = "read"
    /\ LET ids == {socketKey[MatchUsers(k)[Len(MatchUsers(k))]]} \ {NoSocket}
       IN  job' = [job EXCEPT ![k].ids = ids,
                              ![k].pc = IF ids = {} THEN "tell" ELSE "join"]
    /\ UNCHANGED <<vars, sock, socketKey, roomKey, rooms, overlap, told, ended>>

\* Promise.all of the GETs of every user's socket.
NotifyRead(k) ==
    /\ job[k].pc = "read"
    /\ LET ids == {socketKey[MatchUsers(k)[i]] : i \in DOMAIN MatchUsers(k)} \ {NoSocket}
       IN  job' = [job EXCEPT ![k].ids = ids,
                              ![k].pc = IF ids = {} THEN "tell" ELSE "join"]
    /\ UNCHANGED <<vars, sock, socketKey, roomKey, rooms, overlap, told, ended>>

\* socketsJoin moves only sockets that are connected by now.
NotifyJoin(k) ==
    /\ job[k].pc = "join"
    /\ rooms' = rooms \union {<<s, k>> : s \in {t \in job[k].ids : sock[t].live}}
    /\ job' = [job EXCEPT ![k].pc = "keys"]
    /\ UNCHANGED <<vars, sock, socketKey, roomKey, overlap, told, ended>>

\* One MATCH_ROOM_KEY after the other.
NotifyKey(k) ==
    /\ job[k].pc = "keys"
    /\ roomKey' = [roomKey EXCEPT ![MatchUsers(k)[job[k].at]] = k]
    /\ job' = [job EXCEPT ![k].pc = IF LastUser(k) THEN "tell" ELSE "keys",
                          ![k].at = IF LastUser(k) THEN 1 ELSE @ + 1]
    /\ UNCHANGED <<vars, sock, socketKey, rooms, overlap, told, ended>>

\* Mutant of TellRead: a user without a socket is waited for.
TellWaits(k) ==
    /\ job[k].pc = "tell"
    /\ LET to == socketKey[MatchUsers(k)[job[k].at]]
       IN  /\ to # NoSocket
           /\ job' = [job EXCEPT ![k].to = to, ![k].pc = "emit"]
    /\ UNCHANGED <<vars, sock, socketKey, roomKey, rooms, overlap, told, ended>>

\* The socket of each user is read a second time.
TellRead(k) ==
    /\ job[k].pc = "tell"
    /\ LET to == socketKey[MatchUsers(k)[job[k].at]]
       IN  job' = [job EXCEPT
                ![k].to = to,
                ![k].pc = IF to # NoSocket THEN "emit"
                          ELSE IF LastUser(k) THEN "done" ELSE "tell",
                ![k].at = IF to = NoSocket /\ ~LastUser(k) THEN @ + 1 ELSE @]
    /\ UNCHANGED <<vars, sock, socketKey, roomKey, rooms, overlap, told, ended>>

TellEmit(k) ==
    /\ job[k].pc = "emit"
    /\ told' = IF sock[job[k].to].live THEN told \union {<<job[k].to, k>>} ELSE told
    /\ job' = [job EXCEPT ![k].pc = IF LastUser(k) THEN "done" ELSE "tell",
                          ![k].at = IF LastUser(k) THEN @ ELSE @ + 1]
    /\ UNCHANGED <<vars, sock, socketKey, roomKey, rooms, overlap, ended>>

\* getRouterRtpCapabilities throws: the users not told yet never will be.
TellFails(k) ==
    /\ job[k].pc = "emit"
    /\ faults < MaxFaults
    /\ faults' = faults + 1
    /\ job' = [job EXCEPT ![k].pc = "failed"]
    /\ UNCHANGED <<now, queue, handler, matches, history,
                   sock, socketKey, roomKey, rooms, overlap, told, ended>>

\* The server dies with its sockets, rooms and jobs; the keys stay in Redis.
GCrash ==
    /\ Crash
    /\ sock' = [s \in Sockets |->
                    [sock[s] EXCEPT !.pc = IF @ = "off" THEN "off" ELSE "lost",
                                    !.live = FALSE]]
    /\ rooms' = {}
    /\ job' = [k \in DOMAIN job |->
                    [job[k] EXCEPT !.pc = IF @ = "done" THEN "done" ELSE "failed"]]
    /\ UNCHANGED <<socketKey, roomKey, overlap, told, ended>>

-----------------------------------------------------------------------------

SocketStep(s) == Arrive(s) \/ SetKey(s) \/ ReadRoom(s) \/ EndRoom(s)

JobStep(k) ==
    \/ NotifyRead(k)
    \/ NotifyJoin(k)
    \/ NotifyKey(k)
    \/ TellRead(k)
    \/ TellEmit(k)
    \/ TellFails(k)

GHandlerStep(h) == GSave(h) \/ (QueueStep(h) /\ UNCHANGED gateway)

GNext ==
    \/ Tick /\ UNCHANGED gateway
    \/ \E s \in Sockets : Open(s) \/ DropEarly(s) \/ Drop(s) \/ SocketStep(s)
    \/ \E h \in Handlers, u \in Users, g \in GameTypes : GRequest(h, u, g)
    \/ \E u \in Users, g \in GameTypes : GCancel(u, g)
    \/ \E h \in Handlers : GHandlerStep(h)
    \/ \E k \in 1 .. Len(job) : JobStep(k)
    \/ GCrash

\* Redis, the database and mediasoup answer every call, so handlers and
\* notifications run on. Nothing makes clients connect, ask or disconnect.
GFairness ==
    /\ \A s \in Sockets : WF_allVars(SocketStep(s))
    /\ \A h \in Handlers : WF_allVars(GHandlerStep(h))
    /\ \A k \in 1 .. MaxRequests : WF_allVars(k <= Len(job) /\ JobStep(k))

GSpec == GInit /\ [][GNext]_allVars /\ GFairness

-----------------------------------------------------------------------------
(* Properties                                                              *)

\* Every variable of the gateway has the shape the code gives it, and there is
\* one notification per match.
GTypeOK ==
    /\ sock \in [Sockets -> [pc : SocketPhases, live : BOOLEAN, room : Nat]]
    /\ socketKey \in [Users -> Sockets \union {NoSocket}]
    /\ roomKey \in [Users -> 0 .. Len(matches)]
    /\ rooms \subseteq Sockets \X (1 .. Len(matches))
    /\ job \in Seq([pc : JobPhases, ids : SUBSET Sockets, at : Nat \ {0},
                    to : Sockets \union {NoSocket}])
    /\ Len(job) = Len(matches)
    /\ overlap \subseteq Users
    /\ told \subseteq Sockets \X (1 .. Len(matches))
    /\ ended \subseteq Sockets \X (1 .. Len(matches))

\* u never opened a second socket.
OneSocket(u) == Cardinality(Opened(u)) = 1

\* A user who opens a socket only after the disconnect handler of the one
\* before has finished, or a crash, can be reached at the socket they have.
\* (With overlapping sockets they may not: the handler of an old socket
\* deletes the key of the new one.)
SocketReachable ==
    \A s \in Sockets : Usable(s) /\ s[1] \notin overlap => socketKey[s[1]] = s

\* If no user of a match ever had another socket, or lost the one they have,
\* then once the notification is through all of them are in the room, know it
\* and can be found in it.
UndisturbedMatchTold ==
    \A k \in 1 .. Len(job) :
        /\ job[k].pc = "done"
        /\ \A i \in DOMAIN MatchUsers(k) :
              OneSocket(MatchUsers(k)[i]) /\ HasSocket(MatchUsers(k)[i])
        => \A i \in DOMAIN MatchUsers(k) :
              LET u == MatchUsers(k)[i]
              IN  /\ <<<<u, 1>>, k>> \in rooms \intersect told
                  /\ roomKey[u] # NoRoom

\* When a user who was told of a match, and never had another socket or
\* another match, has disconnected, whoever is left in the room was told that
\* the match ended: the room keys are set before the first user is told, and
\* handleDisconnect reads the key before it deletes it. (With a reconnection
\* while the notification runs they may not be: the handler of the old socket
\* deletes the room key just written.)
PartnerLearns ==
    \A s \in Sockets, k \in 1 .. Len(matches) :
        /\ <<s, k>> \in told
        /\ sock[s].pc = "gone"
        /\ OneSocket(s[1])
        /\ MatchesOf(s[1]) = {k}
        => {m \in rooms : m[2] = k} \subseteq ended

\* Every notification comes to an end.
NotifyEnds ==
    \A k \in 1 .. MaxRequests :
        k <= Len(job) ~> k <= Len(job) /\ job[k].pc \in {"done", "failed"}

=============================================================================
