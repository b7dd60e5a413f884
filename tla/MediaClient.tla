----------------------------- MODULE MediaClient -----------------------------
(***************************************************************************)
(* What the page of a user holds of a call: the call store (call.ts), the  *)
(* one camera stream, and the media service with its transports, producers *)
(* and consumers (mediaSoupService.ts).  Operators on records; CallPage    *)
(* says when they are applied.                                             *)
(*                                                                         *)
(* A closed producer or consumer left in a Map does nothing any more, so   *)
(* it is not told apart from none.  Elements, names and photographs are    *)
(* left out; a stream is attached whenever it is live.                     *)
(***************************************************************************)
EXTENDS Naturals, FiniteSets, Sequences

CONSTANTS
    MatchRooms,     \* rooms of random matches; each is used once
    Chats,          \* chat rooms, where friends call
    Members         \* the others who may be in a room

Rooms == MatchRooms \union Chats
People == UNION {Members[r] : r \in Rooms}
NoRoom == "none"

ASSUME MediaClientAssumption ==
    /\ MatchRooms \intersect Chats = {} /\ NoRoom \notin Rooms
    /\ \A r, q \in Rooms : r # q => Members[r] \intersect Members[q] = {}
    /\ IsFiniteSet(People) /\ {} \notin People

VARIABLES
    store,          \* useCallStore
    media           \* mediaSoupService

Tracks == {"audio", "video"}
Produced == Tracks \union {"screen"}
Keys == Rooms \X People         \* getConsumerKey, each person having one feed

States == {"ended", "inMatchWait", "inMatch", "outGoing", "inComing", "inCall"}
Off == [k \in Tracks |-> FALSE]
NoProducers == [k \in Produced |-> "none"]
NoConsumers == [k \in Keys |-> 0]

FreshStore == [state |-> "ended", room |-> NoRoom, people |-> {}, stream |-> "none",
               enabled |-> Off, shown |-> Off, sharing |-> FALSE]
FreshMedia == [device |-> "none", send |-> NoRoom, recv |-> NoRoom,
               producers |-> NoProducers, consumers |-> NoConsumers]

-----------------------------------------------------------------------------
(* The store.                                                              *)

\* Mutant of WithRoom: an end forgets the room.
RoomOrNone(s, room) == [s EXCEPT !.room = room]

\* The ?? of setCallState: a room left out, or undefined, keeps the last one.
WithRoom(s, room) == IF room = NoRoom THEN s ELSE [s EXCEPT !.room = room]

SetCallState(s, state, room) == [WithRoom(s, room) EXCEPT !.state = state]

\* What cleanupLocalOnlySync does to the store, and setCallState after it.
Hangs(s) ==
    [s EXCEPT !.people = {}, !.sharing = FALSE, !.enabled = Off,
              !.stream = IF @ = "live" THEN "stopped" ELSE @]

\* setupLocalStream with a new stream: both tracks are disabled, and the video
\* flag of the current user as it was read before the await.
Opened(s, flag) == [s EXCEPT !.stream = "live", !.enabled = Off, !.shown["video"] = flag]

\* updateCurrentUser at the start of a call.
FlagsOff(s) == [s EXCEPT !.shown = Off]

\* Mutant of AddParticipant: the new Map does not start from the old one.
AddAlone(s, p) == [s EXCEPT !.people = {p}]

AddParticipant(s, p) == [s EXCEPT !.people = @ \union {p}]
RemoveParticipant(s, p) == [s EXCEPT !.people = @ \ {p}]

-----------------------------------------------------------------------------
(* The service.                                                            *)

\* The old transport is closed, and its producers with it.
CreateSendTransport(m, r) == [m EXCEPT !.send = r, !.producers = NoProducers]

CreateRecvTransport(m, r) == [m EXCEPT !.recv = r, !.consumers = NoConsumers]

SetProducers(m) == [m EXCEPT !.producers["audio"] = "on", !.producers["video"] = "on"]

SetScreen(m) == [m EXCEPT !.producers["screen"] = "on"]

\* Mutant of PauseProducer: the track goes on to the server.
PauseNothing(m, k) == m

PauseProducer(m, k) ==
    IF m.producers[k] = "on" THEN [m EXCEPT !.producers[k] = "paused"] ELSE m

ResumeProducer(m, k) ==
    IF m.producers[k] = "paused" THEN [m EXCEPT !.producers[k] = "on"] ELSE m

CloseProducer(m, k) == [m EXCEPT !.producers[k] = "none"]

\* A consumer takes the place of an earlier one of its key, which nobody closes.
CreateConsumer(m, r, p) == [m EXCEPT !.consumers[<<r, p>>] = @ + 1]

\* Mutant of Cleanup: the receiving transport is forgotten.
KeepRecv(m) == [m EXCEPT !.producers = NoProducers, !.send = NoRoom]

Cleanup(m) == [FreshMedia EXCEPT !.device = m.device]

=============================================================================
