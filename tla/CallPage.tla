------------------------------- MODULE CallPage -------------------------------
(***************************************************************************)
(* The page of one user through matches and calls: useMatch,               *)
(* useMediasoup, useCallManagement and useCallControls, on the store and   *)
(* the media service of MediaClient.                                       *)
(*                                                                         *)
(* A handler or a click runs to its next await; what follows the await is  *)
(* a step of its own, and anything may come between.  An asynchronous      *)
(* function under way is a task.  All sockets of the page share one        *)
(* connection, so events and answers arrive in the order the server sent   *)
(* them; when it is lost, the sockets connect again and the page is not    *)
(* told.  The server is what MatchGateway, CallSignalling and              *)
(* MediasoupRooms make of it, seen from this user: srv.                    *)
(***************************************************************************)
EXTENDS MediaClient

CONSTANTS
    Slots,          \* bound: asynchronous functions under way at once
    MaxClicks,      \* bound: clicks
    MaxActs         \* bound: acts of others

VARIABLES
    task,           \* the asynchronous functions under way
    inbox,          \* events and answers on their way to the page
    sent,           \* emissions without an answer, on their way to the server
    srv,            \* the server, as far as this user goes
    moves,          \* clicks, and acts of others, so far
    \* History:
    strayed,        \* sessions the page gave up for something about another one, or whose
                    \* connection was lost
    touched,        \* since the last end, a task it crossed, a control, or one that a loss of
                    \* the connection broke off, set up media
    gone,           \* people who left a room
    uninvited,      \* people who joined a call the page is not in
    hasty           \* tracks toggled again before the last toggle was through, or whose
                    \* answer was lost with the connection

kvars == <<store, media, task, inbox, sent, srv, moves, strayed, touched, gone, uninvited,
           hasty>>

-----------------------------------------------------------------------------
(* Tasks and messages.                                                     *)

Idle == [op |-> "idle", at |-> "done", room |-> NoRoom, left |-> {}, flag |-> FALSE,
         live |-> FALSE, request |-> "none", crossed |-> FALSE, closed |-> FALSE]
Task(op, room) == [Idle EXCEPT !.op = op, !.room = room, !.at = "camera"]
Asking(k, at) == [k EXCEPT !.at = at, !.request = "sent"]

FreeSlots == {t \in Slots : task[t] = Idle}
Slot == CHOOSE t \in FreeSlots : TRUE
Running(ops) == \E t \in Slots : task[t].op \in ops
At(t, op, at) == task[t].op = op /\ task[t].at = at

Event(ev, room, who) == [ev |-> ev, room |-> room, who |-> who]
Answer(t, ok) == [ev |-> "answer", room |-> t, who |-> ok]
Head1(ev) == inbox # <<>> /\ Head(inbox).ev = ev
Take == inbox' = Tail(inbox)
Push(s) == inbox' = inbox \o s

\* An answer to task t is next, and t goes on with it.
Answered(t, ok) == Head1("answer") /\ Head(inbox).room = t /\ Head(inbox).who = ok /\ Take

Moves == {"click", "act"}
MaxMoves == [m \in Moves |-> IF m = "click" THEN MaxClicks ELSE MaxActs]
Move(m) == moves[m] < MaxMoves[m] /\ moves' = [moves EXCEPT ![m] = @ + 1]

-----------------------------------------------------------------------------
(* The page holds one session at a time, and nothing compares rooms.       *)

Live == {"inMatch", "inCall"}
Waiting == "queue"
ASSUME WaitingAssumption == Waiting \notin Rooms

Held(s) == CASE s.state = "inMatchWait" -> Waiting
             [] s.state \in Live -> s.room
             [] OTHER -> NoRoom

\* A step about the given sessions replaced the one that was shown.
Witness(about) ==
    strayed' = IF Held(store) \notin about \union {NoRoom, Held(store')}
               THEN strayed \union {Held(store)} ELSE strayed

Touch(k) == touched' = (touched \/ k.crossed)

Quiet == UNCHANGED <<gone, uninvited, hasty>>

\* Every end of the page: setCallState with 'ended', whoever asks for it.
End(about, tasks) ==
    /\ store' = Hangs(SetCallState(store, "ended", NoRoom))
    /\ media' = Cleanup(media)
    /\ task' = [t \in Slots |-> IF tasks[t] = Idle THEN Idle
                                ELSE [tasks[t] EXCEPT !.crossed = TRUE, !.closed = TRUE]]
    /\ touched' = FALSE
    /\ Witness(about)

KInit ==
    /\ store = FreshStore /\ media = FreshMedia
    /\ task = [t \in Slots |-> Idle]
    /\ inbox = <<>> /\ sent = {}
    /\ srv = [queue |-> FALSE, seats |-> {}, ring |-> [c \in Chats |-> "none"],
              listed |-> [c \in Chats |-> {}], present |-> [r \in Rooms |-> {}],
              feeds |-> {}, used |-> {}]
    /\ moves = [m \in Moves |-> 0]
    /\ strayed = {} /\ touched = FALSE /\ gone = {} /\ uninvited = {} /\ hasty = {}

-----------------------------------------------------------------------------
(* After setupLocalStream                                                   *)

\* What a function is about; one that an end crossed belongs to a session that is over,
\* and who rejects a call is in none.
About(k) ==
    IF k.op \in {"ring", "reject"} \/ k.crossed THEN {}
    ELSE IF k.op \in {"match", "cancel"} THEN {Waiting}
    ELSE IF k.room \in MatchRooms THEN {Waiting, k.room} ELSE {k.room}
Put(t, k) == task' = [task EXCEPT ![t] = k]

\* useMatch, useCallManagement: the request is sent. One asked for during another
\* match is told apart from it by nobody.
AskMatch(t, k, s) ==
    /\ k.op = "match" /\ store' = s /\ UNCHANGED media /\ Put(t, Asking(k, "match"))
    /\ strayed' = IF \/ Held(s) # NoRoom
                     \/ \E u \in Slots \ {t} : task[u].op \in {"match", "cancel", "setup"}
                  THEN strayed \union {Waiting} ELSE strayed

AskRing(t, k, s) ==
    /\ k.op = "ring"
    /\ store' = SetCallState(s, "outGoing", k.room)
    /\ UNCHANGED media
    /\ Put(t, Asking(k, "ring"))

\* Mutant of Greet: a match, like a call, is shown by somebody else.
GreetLikeACall(s, r) == FlagsOff(s)

\* match:match_success shows the match before the media are set up, call:success
\* the call when they are.
Greet(s, r) ==
    IF r \in MatchRooms
    THEN SetCallState([FlagsOff(s) EXCEPT !.people = @ \union Members[r]], "inMatch", r)
    ELSE FlagsOff(s)

StartSetup(t, k, s) ==
    /\ k.op = "setup"
    /\ store' = Greet(s, k.room)
    /\ UNCHANGED media
    /\ Put(t, [k EXCEPT !.at = "device"])

\* toggleVideo and toggleMic: what was shown at the click is turned round.
\* Without a call the video is only turned locally.
Turn(t, k, s) ==
    /\ k.op \in Tracks
    /\ LET to == ~k.flag
           s1 == [s EXCEPT !.enabled[k.op] = to]
       IN  IF k.op = "video" /\ ~k.live
           THEN /\ store' = [s1 EXCEPT !.shown["video"] = to]
                /\ UNCHANGED media /\ Put(t, Idle)
           ELSE /\ store' = s1
                /\ media' = IF to THEN ResumeProducer(media, k.op) ELSE PauseProducer(media, k.op)
                /\ Put(t, Asking([k EXCEPT !.flag = to], "turn"))

Continue(t, k, s) ==
    \/ AskMatch(t, k, s)
    \/ (AskRing(t, k, s) \/ StartSetup(t, k, s) \/ Turn(t, k, s)) /\ Witness(About(k))

\* A valid stream is kept, and what follows runs at once.
Begin(k) ==
    /\ FreeSlots # {}
    /\ IF store.stream = "live" THEN Continue(Slot, k, store)
       ELSE Put(Slot, k) /\ UNCHANGED <<store, media, strayed>>

\* getUserMedia answers. The flag of the video is cleared in the current user
\* as it was read before, which may have been replaced.
CameraOpens(t) ==
    /\ task[t].at = "camera" /\ task[t].op # "share"
    /\ LET k == IF task[t].op = "video" THEN [task[t] EXCEPT !.flag = FALSE] ELSE task[t] IN
       \E flag \in {FALSE, store.shown["video"]} : Continue(t, k, Opened(store, flag))
    /\ touched' = (touched \/ task[t].crossed \/ (task[t].op \in Tracks /\ store.state = "ended"))
    /\ UNCHANGED <<inbox, sent, srv, moves>> /\ Quiet

\* The user refuses: the function throws. Only handleInitiateCall catches it.
CameraFails(t) ==
    /\ task[t].at = "camera" /\ task[t].op # "share"
    /\ IF task[t].op = "ring" THEN End({}, [task EXCEPT ![t] = Idle])
       ELSE /\ Put(t, Idle)
            /\ strayed' = IF task[t].op = "setup" THEN strayed \union {task[t].room} ELSE strayed
            /\ UNCHANGED <<store, media, touched>>
    /\ UNCHANGED <<inbox, sent, srv, moves>> /\ Quiet

-----------------------------------------------------------------------------
(* The media of a match or a call, step by step                             *)

Rest == UNCHANGED <<srv, moves>> /\ Quiet

\* initializeDevice: the device is there before it is loaded, and whoever finds
\* it does not wait.
InitializeDevice(t) ==
    /\ At(t, "setup", "device")
    /\ IF media.device = "none"
       THEN media' = [media EXCEPT !.device = "unloaded"] /\ Put(t, [task[t] EXCEPT !.at = "load"])
       ELSE Put(t, Asking(task[t], "send")) /\ UNCHANGED media
    /\ UNCHANGED <<store, inbox, sent, strayed, touched>> /\ Rest

LoadDevice(t) ==
    /\ At(t, "setup", "load")
    /\ media' = [media EXCEPT !.device = "loaded"]
    /\ Put(t, Asking(task[t], "send"))
    /\ UNCHANGED <<store, inbox, sent, strayed, touched>> /\ Rest

\* A set-up that does not come to its end leaves what it made.
GivesUp(t) ==
    IF task[t].op = "setup"
    THEN strayed' = strayed \union {task[t].room} /\ touched' = TRUE
    ELSE UNCHANGED <<strayed, touched>>

\* A device that is not loaded throws, and the set-up is over.
SendTransport(t) ==
    /\ At(t, "setup", "send") /\ Answered(t, TRUE)
    /\ IF media.device # "loaded"
       THEN /\ Put(t, Idle) /\ GivesUp(t)
            /\ UNCHANGED media
       ELSE /\ media' = CreateSendTransport(media, task[t].room)
            /\ task' = [u \in Slots |->
                   IF u = t THEN Asking([task[t] EXCEPT !.closed = FALSE], "recv")
                   ELSE [task[u] EXCEPT !.closed = @ \/ task[u].at \in {"video", "audio", "screen"}]]
            /\ Touch(task[t]) /\ UNCHANGED strayed
    /\ UNCHANGED <<store, sent>> /\ Rest

\* Mutant of AskFeeds: nobody asks for what is there already.
AskNothing(r) == sent' = sent

\* client:get_producers, at the end of every set-up.
AskFeeds(r) == sent' = sent \union {<<"feeds", r>>}

\* A match is shown already; a call is shown now, whatever happened meanwhile.
Finish(t) ==
    /\ AskFeeds(task[t].room)
    /\ store' = IF task[t].room \in Chats THEN SetCallState(store, "inCall", task[t].room) ELSE store
    /\ Witness({task[t].room})
    /\ Touch(task[t])

\* Then the local stream is produced, if it is there and its tracks are alive.
RecvTransport(t) ==
    /\ At(t, "setup", "recv") /\ Answered(t, TRUE)
    /\ media' = CreateRecvTransport(media, task[t].room)
    /\ LET others == [u \in Slots |-> [task[u] EXCEPT !.closed = @ \/ task[u].op = "consume"]] IN
       IF store.stream = "live"
       THEN /\ task' = [others EXCEPT ![t] = Asking(task[t], "video")]
            /\ Touch(task[t]) /\ UNCHANGED <<store, sent, strayed>>
       ELSE task' = [others EXCEPT ![t] = Idle] /\ Finish(t)
    /\ Rest

\* createProducer: video, then audio. A closed transport throws, which is caught.
ProduceVideo(t) ==
    /\ At(t, "setup", "video") /\ Answered(t, TRUE)
    /\ IF task[t].closed \/ store.stream # "live"
       THEN Put(t, Idle) /\ Finish(t)
       ELSE Put(t, Asking(task[t], "audio")) /\ UNCHANGED <<store, sent, strayed, touched>>
    /\ UNCHANGED media /\ Rest

\* Both are paused as soon as they are known.
ProduceAudio(t) ==
    /\ At(t, "setup", "audio") /\ Answered(t, TRUE)
    /\ media' = IF task[t].closed THEN media
                ELSE PauseProducer(PauseProducer(SetProducers(media), "video"), "audio")
    /\ Put(t, Idle) /\ Finish(t)
    /\ Rest

Setup(t) == InitializeDevice(t) \/ LoadDevice(t) \/ SendTransport(t) \/ RecvTransport(t)
            \/ ProduceVideo(t) \/ ProduceAudio(t)

-----------------------------------------------------------------------------
(* Answers to the other requests                                            *)

\* createMatchRequest shows the wait whenever the answer comes.
MatchAnswered(t) ==
    /\ At(t, "match", "match") /\ Answered(t, TRUE)
    /\ store' = SetCallState(store, "inMatchWait", NoRoom)
    /\ Witness({Waiting}) /\ Put(t, Idle)
    /\ UNCHANGED <<media, sent, touched>> /\ Rest

\* cancelMatchRequest, handleRejectCall, handleEndCall; handleInitiateCall
\* when it was refused.
EndAnswered(t) ==
    /\ \/ task[t].op \in {"cancel", "reject", "end"} /\ Answered(t, TRUE)
       \/ At(t, "ring", "ring") /\ Answered(t, FALSE)
    /\ End(About(task[t]), [task EXCEPT ![t] = Idle])
    /\ UNCHANGED sent /\ Rest

\* Answers after which nothing is done.
NothingDone(t) ==
    /\ \/ task[t].op \in {"reject", "end"} /\ Answered(t, FALSE)
       \/ At(t, "ring", "ring") /\ Answered(t, TRUE)
       \/ At(t, "accept", "accept") /\ Answered(t, FALSE)
    /\ Put(t, Idle)
    /\ UNCHANGED <<store, media, sent, strayed, touched>> /\ Rest

\* handleAcceptCall: the call is shown in the room that is shown, and those
\* who are in it are asked for.
Accepted(t) ==
    /\ At(t, "accept", "accept") /\ Answered(t, TRUE)
    /\ store' = SetCallState(store, "inCall", NoRoom)
    /\ touched' = (touched \/ task[t].crossed \/ store.room # task[t].room)
    /\ Witness({task[t].room}) /\ Put(t, Asking(task[t], "existing"))
    /\ UNCHANGED <<media, sent>> /\ Rest

Existing(t) ==
    /\ At(t, "accept", "existing") /\ Answered(t, TRUE)
    /\ store' = [store EXCEPT !.people = @ \union task[t].left]
    /\ Touch(task[t]) /\ Put(t, Idle)
    /\ UNCHANGED <<media, sent, strayed>> /\ Rest

\* toggleVideo, toggleMic: only now is it shown.
Turned(t) ==
    /\ task[t].op \in Tracks /\ task[t].at = "turn" /\ Answered(t, TRUE)
    /\ store' = [store EXCEPT !.shown[task[t].op] = task[t].flag]
    /\ Put(t, Idle)
    /\ UNCHANGED <<media, sent, strayed, touched>> /\ Rest

\* toggleScreenShare: the screen is produced, announced, shown.
ScreenProduced(t) ==
    /\ At(t, "share", "screen") /\ Answered(t, TRUE)
    /\ IF task[t].closed THEN Put(t, Idle) /\ UNCHANGED media
       ELSE media' = SetScreen(media) /\ Put(t, Asking(task[t], "shared"))
    /\ UNCHANGED <<store, sent, strayed, touched>> /\ Rest

Shared(t) ==
    /\ At(t, "share", "shared") /\ Answered(t, TRUE)
    /\ store' = [store EXCEPT !.sharing = task[t].flag]
    /\ Touch(task[t]) /\ Put(t, Idle)
    /\ UNCHANGED <<media, sent, strayed>> /\ Rest

\* The screen has been chosen, or not; without a transport there is nothing more.
ScreenChosen(t) ==
    /\ At(t, "share", "camera")
    /\ \/ Put(t, Idle)
       \/ /\ media.send # NoRoom
          /\ Put(t, Asking([task[t] EXCEPT !.closed = FALSE], "screen"))
    /\ UNCHANGED <<store, media, inbox, sent, strayed, touched>> /\ Rest

\* server:new_producer, one consumer after the other; a closed transport throws.
Consumed(t) ==
    /\ task[t].op = "consume" /\ Head1("answer") /\ Head(inbox).room = t /\ Take
    /\ LET of == Head(inbox).who IN
       media' = IF of = {} \/ task[t].closed THEN media
                ELSE CreateConsumer(media, task[t].room, of)
    /\ Put(t, IF task[t].left = {} THEN Idle ELSE Asking(task[t], "consume"))
    /\ UNCHANGED <<store, sent, strayed, touched>> /\ Rest

Resume(t) ==
    \/ MatchAnswered(t) \/ EndAnswered(t) \/ NothingDone(t) \/ Accepted(t) \/ Existing(t)
    \/ Turned(t) \/ ScreenChosen(t) \/ ScreenProduced(t) \/ Shared(t) \/ Consumed(t)

-----------------------------------------------------------------------------
(* Events                                                                   *)

Incoming(ev) == Head1(ev) /\ Take /\ UNCHANGED <<sent, srv, moves>>

\* match:match_success, call:success
Success ==
    /\ Incoming("success") /\ Begin(Task("setup", Head(inbox).room))
    /\ UNCHANGED touched /\ Quiet

\* server:new_producer: without a transport it is dropped. The room is the one
\* that is shown.
NewProducer ==
    /\ Incoming("new")
    /\ IF media.recv = NoRoom \/ store.room = NoRoom THEN UNCHANGED task
       ELSE /\ FreeSlots # {}
            /\ Put(Slot, Asking([Task("consume", store.room) EXCEPT !.left = Head(inbox).who],
                                "consume"))
    /\ UNCHANGED <<store, media, strayed, touched>> /\ Quiet

\* server:mediasoup_end, call:ended, call:cancelled: whatever is shown is over.
Over ==
    /\ Incoming("over") /\ End({Head(inbox).room}, task) /\ Quiet

\* call:incoming
Rings ==
    /\ Incoming("incoming")
    /\ store' = SetCallState(store, "inComing", Head(inbox).room)
    /\ Witness({Head(inbox).room})
    /\ UNCHANGED <<media, task, touched>> /\ Quiet

\* The page takes part in the session of r, or is about to.
Shows(r) == store.state \in Live /\ store.room = r
TaskOf(op, r) == \E t \in Slots : task[t].op = op /\ task[t].room = r /\ ~task[t].crossed
In(r) == Shows(r) \/ TaskOf("setup", r)

\* call:user_joined goes to everybody of the chat room.
UserJoined ==
    /\ Incoming("joined")
    /\ store' = AddParticipant(store, Head(inbox).who)
    /\ uninvited' = IF srv.ring[Head(inbox).room] = "active" /\ In(Head(inbox).room)
                    THEN uninvited ELSE uninvited \union {Head(inbox).who}
    /\ UNCHANGED <<media, task, strayed, touched, gone, hasty>>

\* server:user_left, call:user_left. The consumers stay: the server names its
\* producers id and kind, the page reads producerId and trackType.
UserLeft ==
    /\ Incoming("left")
    /\ store' = RemoveParticipant(store, Head(inbox).who)
    /\ gone' = gone \union {Head(inbox).who}
    /\ UNCHANGED <<media, task, strayed, touched, uninvited, hasty>>

Events == Success \/ NewProducer \/ Over \/ Rings \/ UserJoined \/ UserLeft

-----------------------------------------------------------------------------
(* Clicks                                                                   *)

ClickIn(states) ==
    Move("click") /\ store.state \in states /\ UNCHANGED <<inbox, srv, touched, gone, uninvited>>
Click(states) == ClickIn(states) /\ UNCHANGED hasty

\* A request is sent at once.
Request(k, at) ==
    FreeSlots # {} /\ Put(Slot, Asking(k, at)) /\ UNCHANGED <<store, media, sent, strayed>>

\* MatchButton, MatchingWaitModal
ClickMatch ==
    Click(States \ {"inCall", "inMatch", "inMatchWait"})
    /\ Begin(Task("match", NoRoom)) /\ UNCHANGED sent
ClickCancel == Click({"inMatchWait"}) /\ Request(Task("cancel", NoRoom), "cancel")

ClickRing(c) == Click({"ended"}) /\ Begin(Task("ring", c)) /\ UNCHANGED sent

\* IncomingCallModal, OutgoingCallModal: the room that is shown.
ClickAccept == Click({"inComing"}) /\ Request(Task("accept", store.room), "accept")
ClickReject == Click({"inComing"}) /\ Request(Task("reject", store.room), "reject")
ClickEndCall == Click({"outGoing"}) /\ Request(Task("end", store.room), "end")

\* mediasoupEnd
ClickHangUp ==
    /\ Move("click") /\ store.state \in Live
    /\ sent' = sent \union {<<"leave", store.room>>}
                    \union (IF store.state = "inCall" THEN {<<"end", store.room>>} ELSE {})
    /\ End({store.room}, task)
    /\ UNCHANGED <<inbox, srv>> /\ Quiet

\* toggleVideo, toggleMic
ClickToggle(kind) ==
    /\ ClickIn(States) /\ (kind = "audio" => store.room # NoRoom)
    /\ hasty' = IF Running({kind}) THEN hasty \union {kind} ELSE hasty
    /\ Begin([Task(kind, store.room) EXCEPT !.flag = store.shown[kind],
                                            !.live = store.state \in Live])
    /\ UNCHANGED sent

\* toggleScreenShare
StartShare ==
    /\ Click(Live) /\ ~store.sharing /\ FreeSlots # {}
    /\ Put(Slot, [Task("share", store.room) EXCEPT !.flag = TRUE])
    /\ UNCHANGED <<store, media, sent, strayed>>

\* The button again, or the browser's own, whose ended event toggles too.
StopShare ==
    /\ store.state \in Live /\ store.sharing /\ ~Running({"share"}) /\ FreeSlots # {}
    /\ media' = CloseProducer(media, "screen")
    /\ Put(Slot, Asking(Task("share", store.room), "shared"))
    /\ UNCHANGED <<store, inbox, sent, srv, moves, strayed, touched>> /\ Quiet

Clicks ==
    \/ ClickMatch \/ ClickCancel \/ ClickAccept \/ ClickReject \/ ClickEndCall
    \/ ClickHangUp \/ StartShare \/ StopShare
    \/ \E c \in Chats : ClickRing(c)
    \/ \E kind \in Tracks : ClickToggle(kind)

-----------------------------------------------------------------------------
(* The server                                                               *)

Page == UNCHANGED <<store, media, touched>> /\ Quiet
Asked(t, at) == task[t].request = "sent" /\ task[t].at = at
Ack(t, ok, events) ==
    Push(Append(events, Answer(t, ok))) /\ task' = [task EXCEPT ![t].request = "none"]
Serving == UNCHANGED <<sent, moves, strayed>> /\ Page

Ring(c, to) == [srv EXCEPT !.ring[c] = to]

\* Everybody in the call of c, this user apart; who the call of c still lists
\* after it was left is not taken off.
InCall(c) == srv.ring[c] \in {"active", "others", "left"}
Sits(c) == IF srv.ring[c] \in {"active", "left"} THEN 1 ELSE 0

\* match.gateway.ts. Events may go out before the acknowledgement.
ServeMatch(t) ==
    /\ \/ Asked(t, "match") /\ srv' = [srv EXCEPT !.queue = TRUE]
       \/ Asked(t, "cancel") /\ srv' = [srv EXCEPT !.queue = FALSE]
    /\ task' = [task EXCEPT ![t].request = "ok"] /\ UNCHANGED inbox /\ Serving

\* handleCallRequest
ServeRing(t) ==
    /\ Asked(t, "ring")
    /\ \E ok \in BOOLEAN :
         /\ ok => /\ srv.ring[task[t].room] = "none"
                  /\ \A c \in Chats : srv.ring[c] \notin {"mine", "theirs", "active", "left"}
         /\ srv' = IF ok THEN Ring(task[t].room, "mine") ELSE srv
         /\ Ack(t, ok, <<>>)
    /\ Serving

\* handleCallResponse, accepted. The caller may be gone.
ServeAccept(t) ==
    LET c == task[t].room IN
    /\ Asked(t, "accept")
    /\ \/ /\ srv.ring[c] \in {"theirs", "others"}
          /\ srv' = [Ring(c, "active") EXCEPT !.seats = @ \union {c},
                                             !.present[c] = @ \union srv.listed[c]]
          /\ Ack(t, TRUE, <<Event("success", c, {})>>)
       \/ UNCHANGED srv /\ Ack(t, FALSE, <<>>)
    /\ Serving

\* handleCallResponse, rejected: the others are rung on.
ServeReject(t) ==
    /\ Asked(t, "reject") /\ \E ok \in BOOLEAN : Ack(t, ok, <<>>)
    /\ UNCHANGED srv /\ Serving

\* checkExistingParticipants
ServeExisting(t) ==
    /\ Asked(t, "existing")
    /\ Push(<<Answer(t, TRUE)>>)
    /\ task' = [task EXCEPT ![t].request = "none",
                            ![t].left = IF InCall(task[t].room) THEN srv.listed[task[t].room] ELSE {}]
    /\ UNCHANGED srv /\ Serving

\* handleCallEnd by this user. The media room is not left.
EndCall(c) ==
    CASE srv.ring[c] = "active" /\ Cardinality(srv.listed[c]) <= 1 ->
           /\ srv' = [Ring(c, "none") EXCEPT !.listed[c] = {}]
           /\ Push(<<Event("over", c, {})>>)
      [] srv.ring[c] = "active" /\ Cardinality(srv.listed[c]) > 1 ->
           srv' = Ring(c, "left") /\ UNCHANGED inbox
      [] srv.ring[c] \in {"mine", "theirs"} ->
           /\ srv' = [Ring(c, "none") EXCEPT !.listed[c] = {}]
           /\ Push(<<Event("over", c, {})>>)
      [] OTHER -> UNCHANGED <<srv, inbox>>

ServeEnd(t) ==
    /\ Asked(t, "end") /\ EndCall(task[t].room)
    /\ task' = [task EXCEPT ![t].request =
                   IF srv.ring[task[t].room] \in {"none", "others"} THEN "no" ELSE "ok"]
    /\ Serving

Reply(t) ==
    /\ task[t].request \in {"ok", "no"}
    /\ Ack(t, task[t].request = "ok", <<>>)
    /\ UNCHANGED srv /\ Serving

\* What the server has of this user in the room may have been cleared.
Cleared(t) == \/ task[t].crossed \/ task[t].room \notin srv.seats
              \/ task[t].room \in Chats /\ srv.ring[task[t].room] # "active"

\* mediasoup.gateway.ts: transports are always made, a producer when the
\* transport is still there.
ServeMedia(t) ==
    /\ \E at \in {"send", "recv", "video", "audio", "screen", "turn", "shared"} : Asked(t, at)
    /\ Ack(t, TRUE, <<>>)
    /\ UNCHANGED srv /\ Serving

\* client:consume: the answer names whom it is of, or nobody.
ServeConsume(t) ==
    /\ Asked(t, "consume")
    /\ \E p \in task[t].left :
         /\ Push(<<Answer(t, IF p \in srv.feeds THEN p ELSE {})>>)
         /\ task' = [task EXCEPT ![t].request = "none", ![t].left = @ \ {p}]
    /\ UNCHANGED srv /\ Serving

\* Otherwise the handler returns nothing, and no answer comes.
NoAnswer(t) ==
    /\ Cleared(t) /\ \E at \in {"video", "audio", "screen", "consume"} : Asked(t, at)
    /\ Put(t, Idle) /\ GivesUp(t)
    /\ UNCHANGED <<store, media, srv, inbox, sent, moves>> /\ Quiet

Serve(t) ==
    \/ ServeMatch(t) \/ ServeRing(t) \/ ServeAccept(t) \/ ServeReject(t) \/ ServeEnd(t)
    \/ ServeExisting(t) \/ Reply(t) \/ ServeMedia(t) \/ ServeConsume(t)
    \/ NoAnswer(t)

Emitted(e) == e \in sent /\ sent' = sent \ {e} /\ UNCHANGED <<task, moves>> /\ Page

\* The user is in a session of r already that is not the one that was left.
Again(r) ==
    \/ In(r) \/ TaskOf("accept", r)
    \/ \E i \in 1..Len(inbox) : inbox[i].ev = "success" /\ inbox[i].room = r

\* client:mediasoup_end of this user: one who is left alone is sent away.
TakeLeave(r) ==
    /\ Emitted(<<"leave", r>>)
    /\ srv' = [srv EXCEPT !.seats = @ \ {r},
                          !.present[r] = IF Cardinality(@) <= 1 THEN {} ELSE @,
                          !.feeds = IF Cardinality(srv.present[r]) <= 1 THEN @ \ Members[r] ELSE @]
    /\ strayed' = IF Again(r) THEN strayed \union {r} ELSE strayed
    /\ UNCHANGED inbox

TakeEnd(c) == Emitted(<<"end", c>>) /\ EndCall(c) /\ UNCHANGED strayed

\* client:get_producers
TakeFeeds(r) ==
    /\ Emitted(<<"feeds", r>>)
    /\ LET there == srv.feeds \intersect srv.present[r] IN
       IF there = {} THEN UNCHANGED inbox ELSE Push(<<Event("new", r, there)>>)
    /\ UNCHANGED <<srv, strayed>>

\* Another one of the room leaves it: with two, it is over for both.
MateLeft(r, p) ==
    /\ Emitted(<<"left", r, p>>)
    /\ LET others == srv.present[r] \ {p}
           alone == Cardinality(others) + (IF r \in srv.seats THEN 1 ELSE 0) <= 1
       IN  /\ srv' = [srv EXCEPT !.present[r] = IF alone THEN {} ELSE others,
                                 !.seats = IF alone THEN @ \ {r} ELSE @,
                                 !.feeds = @ \ (IF alone THEN Members[r] ELSE {p})]
           /\ UNCHANGED strayed
           /\ IF r \notin srv.seats THEN UNCHANGED inbox
              ELSE Push(<<IF alone THEN Event("over", r, {}) ELSE Event("left", r, p)>>)

\* handleCallEnd by another one.
MateEnds(c, p) ==
    /\ Emitted(<<"ends", c, p>>) /\ UNCHANGED strayed
    /\ IF ~InCall(c) \/ p \notin srv.listed[c] THEN UNCHANGED <<srv, inbox>>
       ELSE IF Cardinality(srv.listed[c]) + Sits(c) <= 2
       THEN /\ srv' = [Ring(c, "none") EXCEPT !.listed[c] = {}]
            /\ Push(<<Event("over", c, {})>>)
       ELSE UNCHANGED srv /\ Push(<<Event("left", c, p)>>)

Emissions ==
    \E r \in Rooms :
        \/ TakeLeave(r) \/ TakeFeeds(r) \/ (r \in Chats /\ TakeEnd(r))
        \/ \E p \in Members[r] : MateLeft(r, p) \/ (r \in Chats /\ MateEnds(r, p))

-----------------------------------------------------------------------------
(* Acts of others                                                           *)

Act == Move("act") /\ UNCHANGED <<task, strayed>> /\ Page

Match(r) ==
    /\ Act /\ srv.queue /\ r \in MatchRooms \ srv.used
    /\ srv' = [srv EXCEPT !.queue = FALSE, !.seats = @ \union {r}, !.used = @ \union {r},
                          !.present[r] = Members[r]]
    /\ Push(<<Event("success", r, {})>>) /\ UNCHANGED sent

MateHangsUp(r, p) ==
    /\ Act /\ p \in srv.present[r] /\ <<"left", r, p>> \notin sent
    /\ sent' = sent \union {<<"left", r, p>>}
                    \union (IF r \in Chats THEN {<<"ends", r, p>>} ELSE {})
    /\ UNCHANGED <<srv, inbox>>

MateProduces(r, p) ==
    /\ Act /\ p \in srv.present[r] \ srv.feeds
    /\ srv' = [srv EXCEPT !.feeds = @ \union {p}]
    /\ IF r \in srv.seats THEN Push(<<Event("new", r, {p})>>) ELSE UNCHANGED inbox
    /\ UNCHANGED sent

FriendCalls(c, p) ==
    /\ Act /\ srv.ring[c] = "none"
    /\ srv' = [Ring(c, "theirs") EXCEPT !.listed[c] = {p}]
    /\ Push(<<Event("incoming", c, {})>>) /\ UNCHANGED sent

\* The caller gives up, or half a minute is over.
RingOver(c) ==
    /\ Act /\ srv.ring[c] \in {"mine", "theirs"}
    /\ srv' = [Ring(c, "none") EXCEPT !.listed[c] = {}]
    /\ Push(<<Event("over", c, {})>>) /\ UNCHANGED sent

FriendAccepts(c, p) ==
    /\ Act /\ srv.ring[c] # "none" /\ p \notin srv.listed[c]
    /\ LET mine == srv.ring[c] = "mine"
           all == srv.listed[c] \union {p}
       IN  /\ srv' = [srv EXCEPT !.ring[c] = CASE mine -> "active" [] @ = "theirs" -> "others"
                                               [] OTHER -> @,
                                 !.listed[c] = all,
                                 !.seats = IF mine THEN @ \union {c} ELSE @,
                                 !.present[c] = @ \union (IF srv.ring[c] = "theirs" THEN all ELSE {p})]
           /\ Push((IF mine THEN <<Event("success", c, {})>> ELSE <<>>) \o <<Event("joined", c, p)>>)
    /\ UNCHANGED sent

Others ==
    \/ \E r \in MatchRooms : Match(r)
    \/ \E r \in Rooms : \E p \in Members[r] : MateHangsUp(r, p) \/ MateProduces(r, p)
    \/ \E c \in Chats : \/ RingOver(c)
                        \/ \E p \in Members[c] : FriendCalls(c, p) \/ FriendAccepts(c, p)

-----------------------------------------------------------------------------
(* The connection of the page                                              *)

\* A function at this point goes on when the server answers.
Awaits(at) == at \notin {"done", "camera", "device", "load"}

\* A key that names one of s, when it is still there.
Named(s) == s \union {NoRoom}

\* The user is out of the queue, of every room, and of the room r and the call c that the
\* keys name; who is left alone there is sent away.
Dropped(r, c) ==
    LET alone == r # NoRoom /\ Cardinality(srv.present[r]) <= 1
        over == c # NoRoom /\ Cardinality(srv.listed[c]) <= 1
        left == IF over THEN "none" ELSE "left"
    IN  [srv EXCEPT !.queue = FALSE, !.seats = {},
                    !.present = [q \in Rooms |-> IF q = r /\ alone THEN {} ELSE srv.present[q]],
                    !.feeds = IF alone THEN @ \ Members[r] ELSE @,
                    !.ring = [d \in Chats |-> IF d = c THEN left ELSE srv.ring[d]],
                    !.listed = [d \in Chats |-> IF d = c /\ over THEN {} ELSE srv.listed[d]]]

\* handleDisconnect of the three gateways.
Disconnect ==
    \E r \in Named(srv.seats), c \in Named({d \in Chats : srv.ring[d] = "active"}) :
        srv' = Dropped(r, c)

\* What is on its way is lost, and who awaits an answer awaits it for ever. The page has
\* no handler for it: it goes on showing what it showed.
ConnectionLost ==
    /\ Move("act") /\ Disconnect
    /\ inbox' = <<>> /\ sent' = {e \in sent : e[1] \in {"left", "ends"}}
    /\ task' = [t \in Slots |-> IF Awaits(task[t].at) THEN Idle ELSE task[t]]
    /\ touched' = (touched \/ \E t \in Slots : task[t].op \in {"match", "setup"}
                                                /\ Awaits(task[t].at))
    /\ strayed' = strayed \union
                   {r \in Rooms : Shows(r) \/ \E t \in Slots : task[t].op = "setup" /\ task[t].room = r}
    /\ hasty' = hasty \union {k \in Tracks : \E t \in Slots : At(t, k, "turn")}
    /\ UNCHANGED <<store, media, gone, uninvited>>

KNext ==
    \/ \E t \in Slots : CameraOpens(t) \/ CameraFails(t) \/ Setup(t) \/ Resume(t) \/ Serve(t)
    \/ Events \/ Clicks \/ Emissions \/ Others \/ ConnectionLost

KSpec == KInit /\ [][KNext]_kvars

-----------------------------------------------------------------------------
(* Properties                                                               *)

\* Media are put away at the end of a call and only then, "통화 종료 시에만 자동 정리"
\* (call.ts:97): once the page shows no call and nothing is being set up, no transport,
\* producer or consumer is left and the camera is off, unless a function the end
\* crossed made them, or one that a lost connection broke off.
EndedIsClean ==
    store.state = "ended" /\ ~touched /\ ~Running({"match", "ring", "setup", "share"} \union Tracks)
        => /\ media = [FreshMedia EXCEPT !.device = media.device]
           /\ store.stream # "live"

\* The server holds the user in the match, or in the call, of r.
Holds(r) == r \in srv.seats /\ (r \in Chats => srv.ring[r] = "active")

\* What says that the room r is about to be shown or to be left.
Underway(r) ==
    \/ \E i \in 1..Len(inbox) : inbox[i].ev \in {"success", "over"} /\ inbox[i].room = r
    \/ \E t \in Slots : task[t].op \in {"setup", "accept"} /\ task[t].room = r
    \/ <<"leave", r>> \in sent

\* A user the server holds in a match, or in a call, is shown it, unless the page
\* gave it up for another one, or the connection was lost in one of that room
\* (useMatch.ts, useCallManagement.ts).
SeatedIsShown ==
    /\ \A r \in Rooms \ strayed : Holds(r) => Shows(r) \/ Underway(r)
    /\ srv.queue /\ Waiting \notin strayed
         => store.state = "inMatchWait" \/ Running({"match", "cancel"})

\* The page shows a match or a call only while the server holds the user in it or
\* the news of its end are on their way, unless a function crossed an end. When the
\* connection is lost in a session the page goes on showing it: that one is excepted,
\* and a later one in another room is not.
ShownIsSeated ==
    store.state \in Live /\ ~touched =>
        store.room \in srv.seats \union strayed \/ Underway(store.room)

\* A microphone or a camera that is shown off sends nothing, except while it is
\* being turned on or off (useCallControls.ts:17-128) or another call is being set up,
\* or when it was turned again before the answer, or no answer came.
MutedIsSilent ==
    strayed = {} /\ ~Running({"setup"}) =>
        \A k \in Tracks \ hasty :
            media.producers[k] = "on" /\ store.enabled[k] /\ store.stream = "live"
                /\ ~store.shown[k] => Running({k})

\* Nothing is on its way in either direction, and both sides are in the same session.
Still == inbox = <<>> /\ sent = {} /\ \A t \in Slots : task[t] = Idle
Settled == Still /\ store.state \in Live /\ Holds(store.room) /\ strayed = {} /\ ~touched

\* Whoever produces in the room is consumed, whether the producer or the transport
\* came first (useMediasoup.ts:76, 161-165).
EverybodyConsumed ==
    Settled => \A p \in srv.feeds \intersect srv.present[store.room] :
                   media.consumers[<<store.room, p>>] > 0

\* Who is in the match or the call: call:end leaves the media room to whoever was in it.
InIt(r) == IF r \in Chats THEN srv.present[r] \intersect srv.listed[r] ELSE srv.present[r]

\* In a call everybody who is in it is shown, and nobody who is not
\* (useCallManagement.ts:62-76, 130-164), whether they came before or after.
PeopleShown ==
    Settled =>
        /\ InIt(store.room) \subseteq store.people \union gone
        /\ store.people \subseteq srv.present[store.room] \union gone \union uninvited

=============================================================================
