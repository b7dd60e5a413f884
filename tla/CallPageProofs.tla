--------------------------- MODULE CallPageProofs ---------------------------
(***************************************************************************)
(* Theorems about CallPage for every set of rooms and people, every number *)
(* of functions under way and every bound: the page and its functions are  *)
(* well formed, a page that has ended has put its media away, and what it  *)
(* shows off is silent. CallPageSessionProofs has what relates the page to *)
(* the server.                                                             *)
(***************************************************************************)
EXTENDS CallPage, FiniteSetTheorems, SequenceTheorems, TLAPS

Ops == {"idle", "match", "cancel", "ring", "accept", "reject", "end", "setup", "consume",
        "share", "audio", "video"}
Steps == {"done", "camera", "match", "cancel", "ring", "accept", "existing", "reject", "end",
          "device", "load", "send", "recv", "video", "audio", "consume", "screen", "shared",
          "turn"}

\* The points a function passes, and those at which it awaits the server.
Route(op, at) ==
    \/ op = "idle" /\ at = "done"
    \/ op \in {"cancel", "reject", "end", "consume"} /\ at = op
    \/ op \in {"match", "ring"} /\ at \in {"camera", op}
    \/ op = "accept" /\ at \in {"accept", "existing"}
    \/ op = "setup" /\ at \in {"camera", "device", "load", "send", "recv", "video", "audio"}
    \/ op = "share" /\ at \in {"camera", "screen", "shared"}
    \/ op \in Tracks /\ at \in {"camera", "turn"}

TaskType ==
    [op : Ops, at : Steps, room : Rooms \union {NoRoom}, left : SUBSET People,
     flag : BOOLEAN, live : BOOLEAN, request : {"none", "sent", "ok", "no"},
     crossed : BOOLEAN, closed : BOOLEAN]
Nobody == {}
Message ==
    [ev : {"answer"}, room : Slots, who : BOOLEAN \union People \union {Nobody}]
    \union [ev : {"success", "over"}, room : Rooms, who : {Nobody}]
    \union [ev : {"incoming"}, room : Chats, who : {Nobody}]
    \union [ev : {"new"}, room : Rooms, who : SUBSET People]
    \union [ev : {"joined", "left"}, room : Rooms, who : People]
StoreType ==
    [state : States, room : Rooms \union {NoRoom}, people : SUBSET People,
     stream : {"none", "live", "stopped"}, enabled : [Tracks -> BOOLEAN],
     shown : [Tracks -> BOOLEAN], sharing : BOOLEAN]
MediaType ==
    [device : {"none", "unloaded", "loaded"}, send : Rooms \union {NoRoom},
     recv : Rooms \union {NoRoom}, producers : [Produced -> {"none", "on", "paused"}],
     consumers : [Keys -> Nat]]
Rings4 == {"none", "mine", "theirs", "active", "others", "left"}
SrvType ==
    [queue : BOOLEAN, seats : SUBSET Rooms, ring : [Chats -> Rings4],
     listed : [Chats -> SUBSET People], present : [Rooms -> SUBSET People],
     feeds : SUBSET People, used : SUBSET MatchRooms]

Types ==
    /\ store \in StoreType /\ media \in MediaType /\ srv \in SrvType
    /\ task \in [Slots -> TaskType] /\ inbox \in Seq(Message)
    /\ touched \in BOOLEAN

\* What a function under way has.
WellFormed(k) ==
    /\ Route(k.op, k.at)
    /\ k.request # "none" => Awaits(k.at)
    /\ k.op = "idle" => k = Idle
    /\ k.op \in {"reject", "end", "ring", "accept"} => k.room \in Chats
    /\ k.op \in {"setup", "consume", "share"} => k.room \in Rooms
    /\ k.request \in {"ok", "no"} => k.op \in {"match", "cancel", "end"}
    /\ k.request = "no" => k.op = "end"

\* An answer is on its way to one function, which awaits it.
Answering ==
    \A i \in 1..Len(inbox) : inbox[i].ev = "answer" =>
        /\ task[inbox[i].room].request = "none" /\ Awaits(task[inbox[i].room].at)
        /\ \A j \in 1..Len(inbox) : inbox[j].ev = "answer" /\ inbox[j].room = inbox[i].room
                                        => i = j

\* The room of what is shown.
Placed ==
    /\ store.state \in Live => store.room \in Rooms
    /\ store.state \in {"outGoing", "inComing"} => store.room \in Chats

\* Who accepts a call has been shown a room, and no room is ever forgotten.
Roomed == \A t \in Slots : task[t].op = "accept" => store.room \in Rooms

KTypeOK == Types /\ (\A t \in Slots : WellFormed(task[t])) /\ Answering /\ Placed /\ Roomed

-----------------------------------------------------------------------------
(* Records                                                                 *)

LEMMA TaskFields ==
    ASSUME NEW k \in TaskType
    PROVE  /\ k.op \in Ops /\ k.at \in Steps /\ k.room \in Rooms \union {NoRoom}
           /\ k.left \subseteq People /\ k.flag \in BOOLEAN /\ k.live \in BOOLEAN
           /\ k.request \in {"none", "sent", "ok", "no"}
           /\ k.crossed \in BOOLEAN /\ k.closed \in BOOLEAN
    BY DEF TaskType

LEMMA IdleFits == Idle \in TaskType /\ WellFormed(Idle) /\ Idle.op = "idle" /\ Idle.at = "done"
                  /\ Idle.request = "none" /\ Idle.crossed = FALSE
    BY DEF Idle, TaskType, WellFormed, Route, Ops, Steps

LEMMA TaskIs ==
    ASSUME NEW op \in Ops, NEW room \in Rooms \union {NoRoom}
    PROVE  \A k : k = Task(op, room) =>
           /\ k \in TaskType
           /\ k.op = op /\ k.at = "camera" /\ k.room = room /\ k.left = {} /\ k.flag = FALSE
           /\ k.live = FALSE /\ k.request = "none" /\ k.crossed = FALSE /\ k.closed = FALSE
    BY DEF Task, Idle, TaskType, Ops, Steps

LEMMA AskingIs ==
    ASSUME NEW k \in TaskType, NEW at \in Steps
    PROVE  LET n == Asking(k, at) IN
           /\ n \in TaskType
           /\ n.op = k.op /\ n.at = at /\ n.room = k.room /\ n.left = k.left /\ n.flag = k.flag
           /\ n.live = k.live /\ n.request = "sent" /\ n.crossed = k.crossed
           /\ n.closed = k.closed
    BY DEF Asking, TaskType

LEMMA CrossedIs ==
    ASSUME NEW k \in TaskType
    PROVE  LET n == [k EXCEPT !.crossed = TRUE, !.closed = TRUE] IN
           /\ n \in TaskType
           /\ n.op = k.op /\ n.at = k.at /\ n.room = k.room /\ n.left = k.left /\ n.flag = k.flag
           /\ n.live = k.live /\ n.request = k.request /\ n.crossed = TRUE
           /\ n.closed = TRUE
    BY DEF TaskType

LEMMA ClosedIs ==
    ASSUME NEW k \in TaskType, NEW b \in BOOLEAN
    PROVE  LET n == [k EXCEPT !.closed = b] IN
           /\ n \in TaskType
           /\ n.op = k.op /\ n.at = k.at /\ n.room = k.room /\ n.left = k.left /\ n.flag = k.flag
           /\ n.live = k.live /\ n.request = k.request /\ n.crossed = k.crossed
           /\ n.closed = b
    BY DEF TaskType

LEMMA FlagIs ==
    ASSUME NEW k \in TaskType, NEW b \in BOOLEAN
    PROVE  LET n == [k EXCEPT !.flag = b] IN
           /\ n \in TaskType
           /\ n.op = k.op /\ n.at = k.at /\ n.room = k.room /\ n.left = k.left /\ n.flag = b
           /\ n.live = k.live /\ n.request = k.request /\ n.crossed = k.crossed
           /\ n.closed = k.closed
    BY DEF TaskType

LEMMA AtIs ==
    ASSUME NEW k \in TaskType, NEW at \in Steps
    PROVE  LET n == [k EXCEPT !.at = at] IN
           /\ n \in TaskType
           /\ n.op = k.op /\ n.at = at /\ n.room = k.room /\ n.left = k.left /\ n.flag = k.flag
           /\ n.live = k.live /\ n.request = k.request /\ n.crossed = k.crossed
           /\ n.closed = k.closed
    BY DEF TaskType

LEMMA RequestIs ==
    ASSUME NEW k \in TaskType, NEW q \in {"none", "sent", "ok", "no"}
    PROVE  LET n == [k EXCEPT !.request = q] IN
           /\ n \in TaskType
           /\ n.op = k.op /\ n.at = k.at /\ n.room = k.room /\ n.left = k.left /\ n.flag = k.flag
           /\ n.live = k.live /\ n.request = q /\ n.crossed = k.crossed
           /\ n.closed = k.closed
    BY DEF TaskType

LEMMA LeftIs ==
    ASSUME NEW k \in TaskType, NEW l \in SUBSET People
    PROVE  LET n == [k EXCEPT !.left = l] IN
           /\ n \in TaskType
           /\ n.op = k.op /\ n.at = k.at /\ n.room = k.room /\ n.left = l /\ n.flag = k.flag
           /\ n.live = k.live /\ n.request = k.request /\ n.crossed = k.crossed
           /\ n.closed = k.closed
    BY DEF TaskType

\* Slots that are put, and what the others are.
LEMMA Puts ==
    ASSUME task \in [Slots -> TaskType], NEW t \in Slots, NEW k \in TaskType, Put(t, k)
    PROVE  /\ task' \in [Slots -> TaskType] /\ task'[t] = k
           /\ \A u \in Slots \ {t} : task'[u] = task[u]
    BY DEF Put

LEMMA MessageFields ==
    ASSUME NEW m \in Message
    PROVE  /\ m.ev \in {"answer", "success", "over", "incoming", "new", "joined", "left"}
           /\ m.ev = "answer" => m.room \in Slots
           /\ m.ev # "answer" => m.room \in Rooms
           /\ m.ev = "incoming" => m.room \in Chats
           /\ m.ev = "new" => m.who \subseteq People
           /\ m.ev \in {"joined", "left"} => m.who \in People
    BY DEF Message, Rooms

LEMMA TakeIs ==
    ASSUME inbox \in Seq(Message), inbox # <<>>, Take
    PROVE  /\ inbox' \in Seq(Message) /\ Len(inbox) \in Nat \ {0}
           /\ Len(inbox') = Len(inbox) - 1
           /\ Head(inbox) = inbox[1] /\ inbox[1] \in Message
           /\ \A i \in 1..Len(inbox') : i + 1 \in 1..Len(inbox) /\ inbox'[i] = inbox[i + 1]
<1>1. inbox' = Tail(inbox)
    BY DEF Take
<1>2. /\ Tail(inbox) \in Seq(Message) /\ Len(Tail(inbox)) = Len(inbox) - 1
      /\ \A i \in 1..Len(Tail(inbox)) : Tail(inbox)[i] = inbox[i + 1]
    BY HeadTailProperties
<1>3. Len(inbox) \in Nat \ {0} /\ Head(inbox) = inbox[1] /\ inbox[1] \in Message
    BY HeadTailProperties, EmptySeq, ElementOfSeq, LenProperties
<1> QED
    BY <1>1, <1>2, <1>3

LEMMA PushIs ==
    ASSUME inbox \in Seq(Message), NEW s \in Seq(Message), Push(s)
    PROVE  /\ inbox' \in Seq(Message) /\ Len(inbox') = Len(inbox) + Len(s)
           /\ Len(inbox) \in Nat /\ Len(s) \in Nat
           /\ \A i \in 1..Len(inbox) : i \in 1..Len(inbox') /\ inbox'[i] = inbox[i]
           /\ \A i \in 1..Len(s) : Len(inbox) + i \in 1..Len(inbox')
                                   /\ inbox'[Len(inbox) + i] = s[i]
    BY ConcatProperties, LenProperties DEF Push

\* What the operators on the store and on the media leave.
LEMMA SetIs ==
    ASSUME NEW s \in StoreType, NEW state \in States, NEW r \in Rooms \union {NoRoom}
    PROVE  LET n == SetCallState(s, state, r) IN
           /\ n \in StoreType
           /\ n.state = state /\ n.room = (IF r = NoRoom THEN s.room ELSE r)
           /\ n.people = s.people /\ n.stream = s.stream /\ n.enabled = s.enabled
           /\ n.shown = s.shown /\ n.sharing = s.sharing
<1>1. CASE r = NoRoom
    BY <1>1 DEF SetCallState, WithRoom, StoreType
<1>2. CASE r # NoRoom
    BY <1>2 DEF SetCallState, WithRoom, StoreType
<1> QED
    BY <1>1, <1>2

LEMMA HangsIs ==
    ASSUME NEW s \in StoreType
    PROVE  LET n == Hangs(s) IN
           /\ n \in StoreType
           /\ n.state = s.state /\ n.room = s.room /\ n.people = {} /\ n.stream # "live"
           /\ n.enabled = Off /\ n.shown = s.shown /\ n.sharing = FALSE
    BY DEF Hangs, StoreType, Off

LEMMA OpenedIs ==
    ASSUME NEW s \in StoreType, NEW flag \in BOOLEAN
    PROVE  LET n == Opened(s, flag) IN
           /\ n \in StoreType
           /\ n.state = s.state /\ n.room = s.room /\ n.people = s.people /\ n.stream = "live"
           /\ n.enabled = Off /\ n.shown = [s.shown EXCEPT !["video"] = flag]
           /\ n.sharing = s.sharing
    BY DEF Opened, StoreType, Off, Tracks

LEMMA FlagsOffIs ==
    ASSUME NEW s \in StoreType
    PROVE  LET n == FlagsOff(s) IN
           /\ n \in StoreType
           /\ n.state = s.state /\ n.room = s.room /\ n.people = s.people /\ n.stream = s.stream
           /\ n.enabled = s.enabled /\ n.shown = Off /\ n.sharing = s.sharing
    BY DEF FlagsOff, StoreType, Off, Tracks

LEMMA MembersArePeople ==
    ASSUME NEW r \in Rooms
    PROVE  Members[r] \subseteq People
    BY DEF People

LEMMA PeopleIs ==
    ASSUME NEW s \in StoreType, NEW people \in SUBSET People
    PROVE  LET n == [s EXCEPT !.people = people] IN
           /\ n \in StoreType
           /\ n.state = s.state /\ n.room = s.room /\ n.people = people /\ n.stream = s.stream
           /\ n.enabled = s.enabled /\ n.shown = s.shown /\ n.sharing = s.sharing
    BY DEF StoreType

LEMMA GreetIs ==
    ASSUME NEW s \in StoreType, NEW r \in Rooms
    PROVE  LET n == Greet(s, r) IN
           /\ n \in StoreType
           /\ n.state = (IF r \in MatchRooms THEN "inMatch" ELSE s.state)
           /\ n.room = (IF r \in MatchRooms THEN r ELSE s.room)
           /\ n.people = (IF r \in MatchRooms THEN s.people \union Members[r] ELSE s.people)
           /\ n.stream = s.stream /\ n.enabled = s.enabled /\ n.shown = Off
           /\ n.sharing = s.sharing
<1> DEFINE f == FlagsOff(s)
           p == [f EXCEPT !.people = f.people \union Members[r]]
<1>1. f \in StoreType /\ f.state = s.state /\ f.room = s.room /\ f.people = s.people
      /\ f.stream = s.stream /\ f.enabled = s.enabled /\ f.shown = Off /\ f.sharing = s.sharing
    BY FlagsOffIs
<1>2. CASE r \in MatchRooms
    <2>1. Members[r] \subseteq People /\ s.people \subseteq People
        BY MembersArePeople DEF StoreType
    <2> HIDE DEF f
    <2>2. /\ p \in StoreType
          /\ p.state = f.state /\ p.room = f.room /\ p.people = f.people \union Members[r]
          /\ p.stream = f.stream /\ p.enabled = f.enabled /\ p.shown = f.shown
          /\ p.sharing = f.sharing
        BY <1>1, <2>1, PeopleIs
    <2>3. Greet(s, r) = SetCallState(p, "inMatch", r)
        BY <1>2 DEF Greet, f
    <2>4. "inMatch" \in States /\ r # NoRoom /\ r \in Rooms \union {NoRoom}
        BY MediaClientAssumption DEF States
    <2> HIDE DEF p
    <2> QED
        BY <1>1, <1>2, <2>1, <2>2, <2>3, <2>4, SetIs
<1>3. CASE r \notin MatchRooms
    BY <1>1, <1>3 DEF Greet
<1> QED
    BY <1>2, <1>3

LEMMA EnabledIs ==
    ASSUME NEW s \in StoreType, NEW k \in Tracks, NEW b \in BOOLEAN
    PROVE  LET n == [s EXCEPT !.enabled[k] = b] IN
           /\ n \in StoreType
           /\ n.state = s.state /\ n.room = s.room /\ n.people = s.people /\ n.stream = s.stream
           /\ n.enabled = [s.enabled EXCEPT ![k] = b] /\ n.shown = s.shown
           /\ n.sharing = s.sharing
    BY DEF StoreType

LEMMA ShownIs ==
    ASSUME NEW s \in StoreType, NEW k \in Tracks, NEW b \in BOOLEAN
    PROVE  LET n == [s EXCEPT !.shown[k] = b] IN
           /\ n \in StoreType
           /\ n.state = s.state /\ n.room = s.room /\ n.people = s.people /\ n.stream = s.stream
           /\ n.enabled = s.enabled /\ n.shown = [s.shown EXCEPT ![k] = b]
           /\ n.sharing = s.sharing
    BY DEF StoreType

LEMMA SharingIs ==
    ASSUME NEW s \in StoreType, NEW b \in BOOLEAN
    PROVE  LET n == [s EXCEPT !.sharing = b] IN
           /\ n \in StoreType
           /\ n.state = s.state /\ n.room = s.room /\ n.people = s.people /\ n.stream = s.stream
           /\ n.enabled = s.enabled /\ n.shown = s.shown /\ n.sharing = b
    BY DEF StoreType

LEMMA CleanupIs ==
    ASSUME NEW m \in MediaType
    PROVE  LET n == Cleanup(m) IN
           /\ n \in MediaType
           /\ n.device = m.device /\ n.send = NoRoom /\ n.recv = NoRoom
           /\ n.producers = NoProducers /\ n.consumers = NoConsumers
    BY DEF Cleanup, FreshMedia, MediaType, NoProducers, NoConsumers, Produced

LEMMA TransportsAre ==
    ASSUME NEW m \in MediaType, NEW r \in Rooms
    PROVE  /\ LET n == CreateSendTransport(m, r) IN
              /\ n \in MediaType /\ n.device = m.device /\ n.send = r /\ n.recv = m.recv
              /\ n.producers = NoProducers /\ n.consumers = m.consumers
           /\ LET n == CreateRecvTransport(m, r) IN
              /\ n \in MediaType /\ n.device = m.device /\ n.send = m.send /\ n.recv = r
              /\ n.producers = m.producers /\ n.consumers = NoConsumers
    BY DEF CreateSendTransport, CreateRecvTransport, MediaType, NoProducers, NoConsumers, Produced

LEMMA ProducersAre ==
    ASSUME NEW m \in MediaType, NEW p \in [Produced -> {"none", "on", "paused"}]
    PROVE  LET n == [m EXCEPT !.producers = p] IN
           /\ n \in MediaType /\ n.device = m.device /\ n.send = m.send /\ n.recv = m.recv
           /\ n.producers = p /\ n.consumers = m.consumers
    BY DEF MediaType

LEMMA ProducersChange ==
    ASSUME NEW m \in MediaType, NEW k \in Produced, NEW p \in {"none", "on", "paused"}
    PROVE  LET n == [m EXCEPT !.producers[k] = p] IN
           /\ n \in MediaType /\ n.device = m.device /\ n.send = m.send /\ n.recv = m.recv
           /\ n.producers = [m.producers EXCEPT ![k] = p] /\ n.consumers = m.consumers
    BY DEF MediaType

LEMMA PauseIs ==
    ASSUME NEW m \in MediaType, NEW k \in Produced
    PROVE  LET n == PauseProducer(m, k) IN
           /\ n \in MediaType /\ n.device = m.device /\ n.send = m.send /\ n.recv = m.recv
           /\ n.producers[k] # "on" /\ n.consumers = m.consumers
           /\ \A j \in Produced \ {k} : n.producers[j] = m.producers[j]
           /\ m.producers[k] # "on" => n = m
<1>1. m.producers \in [Produced -> {"none", "on", "paused"}]
    BY DEF MediaType
<1>2. CASE m.producers[k] = "on"
    <2> DEFINE n == [m EXCEPT !.producers[k] = "paused"]
    <2>1. /\ n \in MediaType /\ n.device = m.device /\ n.send = m.send /\ n.recv = m.recv
          /\ n.producers = [m.producers EXCEPT ![k] = "paused"] /\ n.consumers = m.consumers
        BY ProducersChange
    <2>2. PauseProducer(m, k) = n
        BY <1>2 DEF PauseProducer
    <2> HIDE DEF n
    <2> QED
        BY <1>1, <1>2, <2>1, <2>2
<1>3. CASE m.producers[k] # "on"
    BY <1>3 DEF PauseProducer
<1> QED
    BY <1>2, <1>3

LEMMA ResumeIs ==
    ASSUME NEW m \in MediaType, NEW k \in Produced
    PROVE  LET n == ResumeProducer(m, k) IN
           /\ n \in MediaType /\ n.device = m.device /\ n.send = m.send /\ n.recv = m.recv
           /\ n.consumers = m.consumers
           /\ \A j \in Produced \ {k} : n.producers[j] = m.producers[j]
           /\ m.producers[k] = "none" => n = m
<1>1. m.producers \in [Produced -> {"none", "on", "paused"}]
    BY DEF MediaType
<1>2. CASE m.producers[k] = "paused"
    <2> DEFINE n == [m EXCEPT !.producers[k] = "on"]
    <2>1. /\ n \in MediaType /\ n.device = m.device /\ n.send = m.send /\ n.recv = m.recv
          /\ n.producers = [m.producers EXCEPT ![k] = "on"] /\ n.consumers = m.consumers
        BY ProducersChange
    <2>2. ResumeProducer(m, k) = n
        BY <1>2 DEF ResumeProducer
    <2> HIDE DEF n
    <2> QED
        BY <1>1, <1>2, <2>1, <2>2
<1>3. CASE m.producers[k] # "paused"
    BY <1>3 DEF ResumeProducer
<1> QED
    BY <1>2, <1>3

LEMMA DeviceIs ==
    ASSUME NEW m \in MediaType, NEW d \in {"none", "unloaded", "loaded"}
    PROVE  LET n == [m EXCEPT !.device = d] IN
           /\ n \in MediaType /\ n.device = d /\ n.send = m.send /\ n.recv = m.recv
           /\ n.producers = m.producers /\ n.consumers = m.consumers
    BY DEF MediaType

LEMMA ConsumerIs ==
    ASSUME NEW m \in MediaType, NEW r \in Rooms, NEW p
    PROVE  LET n == CreateConsumer(m, r, p) IN
           /\ n \in MediaType /\ n.device = m.device /\ n.send = m.send /\ n.recv = m.recv
           /\ n.producers = m.producers
           /\ \A k \in Keys : n.consumers[k] = (IF k = <<r, p>> THEN m.consumers[k] + 1
                                                ELSE m.consumers[k])
<1>1. m.consumers \in [Keys -> Nat]
    BY DEF MediaType
<1> DEFINE c == [m.consumers EXCEPT ![<<r, p>>] = @ + 1]
<1>2. c \in [Keys -> Nat]
    <2> SUFFICES ASSUME NEW f \in [Keys -> Nat], NEW a
                 PROVE  [f EXCEPT ![a] = @ + 1] \in [Keys -> Nat]
        BY <1>1
    <2>1. CASE a \in Keys
        BY <2>1
    <2>2. CASE a \notin Keys
        <3>1. [f EXCEPT ![a] = @ + 1] = f
            BY <2>2
        <3> QED
            BY <3>1
    <2> QED
        BY <2>1, <2>2
<1>3. \A k \in Keys : c[k] = (IF k = <<r, p>> THEN m.consumers[k] + 1 ELSE m.consumers[k])
    <2> SUFFICES ASSUME NEW f \in [Keys -> Nat], NEW a, NEW k \in Keys
                 PROVE  [f EXCEPT ![a] = @ + 1][k] = (IF k = a THEN f[k] + 1 ELSE f[k])
        BY <1>1
    <2> QED
        OBVIOUS
<1>4. CreateConsumer(m, r, p) = [m EXCEPT !.consumers = c]
    BY DEF CreateConsumer, MediaType
<1> HIDE DEF c
<1> QED
    BY <1>2, <1>3, <1>4 DEF MediaType

LEMMA SetProducersIs ==
    ASSUME NEW m \in MediaType
    PROVE  LET n == SetProducers(m) IN
           /\ n \in MediaType /\ n.device = m.device /\ n.send = m.send /\ n.recv = m.recv
           /\ n.consumers = m.consumers /\ n.producers["screen"] = m.producers["screen"]
<1> DEFINE a == [m EXCEPT !.producers["audio"] = "on"]
<1>1. "audio" \in Produced /\ "video" \in Produced /\ "screen" \in Produced
    BY DEF Produced, Tracks
<1>2. /\ a \in MediaType /\ a.device = m.device /\ a.send = m.send /\ a.recv = m.recv
      /\ a.producers = [m.producers EXCEPT !["audio"] = "on"] /\ a.consumers = m.consumers
    BY <1>1, ProducersChange
<1>3. SetProducers(m) = [a EXCEPT !.producers["video"] = "on"]
    BY DEF SetProducers, MediaType
<1>4. m.producers \in [Produced -> {"none", "on", "paused"}]
    BY DEF MediaType
<1> HIDE DEF a
<1> DEFINE b == [a EXCEPT !.producers["video"] = "on"]
<1>5. /\ b \in MediaType /\ b.device = a.device /\ b.send = a.send /\ b.recv = a.recv
      /\ b.producers = [a.producers EXCEPT !["video"] = "on"] /\ b.consumers = a.consumers
    BY <1>1, <1>2, ProducersChange
<1>6. SetProducers(m) = b
    BY <1>3
<1> HIDE DEF b
<1> QED
    BY <1>1, <1>2, <1>4, <1>5, <1>6

-----------------------------------------------------------------------------
(* Every function stays well formed, and is answered once                  *)

\* A function of which no answer is on its way.
Unanswered(k) == k.request # "none" \/ ~Awaits(k.at)
SamePoint(n, k) == n.at = k.at /\ n.request = k.request

\* The three ways in which the events on their way change.
LEMMA AnswersStay ==
    ASSUME KTypeOK, task' \in [Slots -> TaskType], UNCHANGED inbox,
           \A u \in Slots : SamePoint(task'[u], task[u]) \/ Unanswered(task[u])
    PROVE  Answering' /\ inbox' \in Seq(Message)
<1>1. \A i \in 1..Len(inbox) : inbox[i].ev = "answer" => inbox[i].room \in Slots
    BY MessageFields, ElementOfSeq DEF KTypeOK, Types
<1> QED
    BY <1>1 DEF KTypeOK, Types, Answering, SamePoint, Unanswered

LEMMA AnswersTaken ==
    ASSUME KTypeOK, task' \in [Slots -> TaskType], inbox # <<>>, Take,
           \A u \in Slots : \/ SamePoint(task'[u], task[u]) \/ Unanswered(task[u])
                            \/ Head(inbox).ev = "answer" /\ Head(inbox).room = u
    PROVE  Answering' /\ inbox' \in Seq(Message)
<1>1. /\ inbox' \in Seq(Message) /\ Len(inbox) \in Nat \ {0} /\ Len(inbox') = Len(inbox) - 1
      /\ Head(inbox) = inbox[1]
      /\ \A i \in 1..Len(inbox') : i + 1 \in 1..Len(inbox) /\ inbox'[i] = inbox[i + 1]
    BY TakeIs DEF KTypeOK, Types
<1>2. \A i \in 1..Len(inbox) : inbox[i].ev = "answer" => inbox[i].room \in Slots
    BY MessageFields, ElementOfSeq DEF KTypeOK, Types
<1>3. ASSUME NEW i \in 1..Len(inbox'), inbox'[i].ev = "answer"
      PROVE  /\ task'[inbox'[i].room].request = "none" /\ Awaits(task'[inbox'[i].room].at)
             /\ \A j \in 1..Len(inbox') : inbox'[j].ev = "answer" /\ inbox'[j].room = inbox'[i].room
                                             => i = j
    <2>1. i + 1 \in 1..Len(inbox) /\ inbox[i + 1].ev = "answer" /\ inbox[i + 1] = inbox'[i]
          /\ 1 \in 1..Len(inbox) /\ i + 1 # 1
        BY <1>1, <1>3
    <2>2. /\ task[inbox'[i].room].request = "none" /\ Awaits(task[inbox'[i].room].at)
          /\ \A j \in 1..Len(inbox) : inbox[j].ev = "answer" /\ inbox[j].room = inbox'[i].room
                                         => i + 1 = j
        BY <2>1 DEF KTypeOK, Answering
    <2>3. inbox'[i].room \in Slots /\ ~(inbox[1].ev = "answer" /\ inbox[1].room = inbox'[i].room)
        BY <1>2, <2>1, <2>2
    <2>4. SamePoint(task'[inbox'[i].room], task[inbox'[i].room])
        BY <1>1, <2>2, <2>3 DEF Unanswered
    <2>5. ASSUME NEW j \in 1..Len(inbox'), inbox'[j].ev = "answer", inbox'[j].room = inbox'[i].room
          PROVE  i = j
        <3>1. j + 1 \in 1..Len(inbox) /\ inbox[j + 1] = inbox'[j]
            BY <1>1
        <3>2. i + 1 = j + 1
            BY <2>2, <2>5, <3>1
        <3> QED
            BY <1>1, <3>2
    <2> QED
        BY <2>2, <2>4, <2>5 DEF SamePoint
<1> QED
    BY <1>1, <1>3 DEF Answering

\* Events, and then perhaps the answer to a function that is told apart.
LEMMA AnswersPushed ==
    ASSUME KTypeOK, task' \in [Slots -> TaskType],
           NEW s \in Seq(Message), Push(s),
           \A u \in Slots : SamePoint(task'[u], task[u]) \/ Unanswered(task[u]),
           \A i \in 1..Len(s) : s[i].ev = "answer" =>
               /\ i = Len(s)
               /\ Unanswered(task[s[i].room])
               /\ task'[s[i].room].request = "none" /\ Awaits(task'[s[i].room].at)
    PROVE  Answering' /\ inbox' \in Seq(Message)
<1>1. /\ inbox' \in Seq(Message) /\ Len(inbox') = Len(inbox) + Len(s)
      /\ Len(inbox) \in Nat /\ Len(s) \in Nat
      /\ \A i \in 1..Len(inbox) : i \in 1..Len(inbox') /\ inbox'[i] = inbox[i]
      /\ \A i \in 1..Len(s) : Len(inbox) + i \in 1..Len(inbox') /\ inbox'[Len(inbox) + i] = s[i]
    BY PushIs DEF KTypeOK, Types
<1>2. \A i \in 1..Len(inbox) : inbox[i].ev = "answer" => inbox[i].room \in Slots
    BY MessageFields, ElementOfSeq DEF KTypeOK, Types
<1>3. ASSUME NEW i \in 1..Len(inbox'), inbox'[i].ev = "answer"
      PROVE  \/ /\ i \in 1..Len(inbox) /\ inbox'[i] = inbox[i]
                /\ ~Unanswered(task[inbox'[i].room])
             \/ /\ i = Len(inbox')
                /\ i - Len(inbox) \in 1..Len(s) /\ inbox'[i] = s[i - Len(inbox)]
                /\ Unanswered(task[inbox'[i].room])
    <2>1. CASE i \in 1..Len(inbox)
        BY <1>1, <1>3, <2>1 DEF KTypeOK, Answering, Unanswered
    <2>2. CASE i \notin 1..Len(inbox)
        <3>1. i - Len(inbox) \in 1..Len(s)
            BY <1>1, <2>2
        <3>2. inbox'[i] = s[i - Len(inbox)]
            <4>1. Len(inbox) + (i - Len(inbox)) = i
                BY <1>1
            <4> QED
                BY <1>1, <3>1, <4>1
        <3>3. i - Len(inbox) = Len(s) /\ Unanswered(task[s[i - Len(inbox)].room])
            BY <1>3, <3>1, <3>2
        <3> QED
            BY <1>1, <3>1, <3>2, <3>3
    <2> QED
        BY <2>1, <2>2
<1>4. ASSUME NEW i \in 1..Len(inbox'), inbox'[i].ev = "answer"
      PROVE  /\ task'[inbox'[i].room].request = "none" /\ Awaits(task'[inbox'[i].room].at)
             /\ \A j \in 1..Len(inbox') : inbox'[j].ev = "answer" /\ inbox'[j].room = inbox'[i].room
                                             => i = j
    <2>1. CASE i \in 1..Len(inbox) /\ inbox'[i] = inbox[i] /\ ~Unanswered(task[inbox'[i].room])
        <3>1. inbox'[i].room \in Slots /\ SamePoint(task'[inbox'[i].room], task[inbox'[i].room])
            BY <1>2, <1>4, <2>1
        <3>2. ASSUME NEW j \in 1..Len(inbox'), inbox'[j].ev = "answer",
                     inbox'[j].room = inbox'[i].room
              PROVE  i = j
            <4>1. j \in 1..Len(inbox) /\ inbox'[j] = inbox[j]
                BY <1>3, <2>1, <3>2
            <4> QED
                BY <1>4, <2>1, <3>2, <4>1 DEF KTypeOK, Answering
        <3> QED
            BY <2>1, <3>1, <3>2 DEF SamePoint, Unanswered
    <2>2. CASE /\ i = Len(inbox') /\ i - Len(inbox) \in 1..Len(s)
               /\ inbox'[i] = s[i - Len(inbox)] /\ Unanswered(task[inbox'[i].room])
        <3>1. ASSUME NEW j \in 1..Len(inbox'), inbox'[j].ev = "answer",
                     inbox'[j].room = inbox'[i].room
              PROVE  i = j
            BY <1>3, <2>2, <3>1
        <3> QED
            BY <1>4, <2>2, <3>1
    <2> QED
        BY <1>3, <1>4, <2>1, <2>2
<1> QED
    BY <1>1, <1>4 DEF Answering
\* The room a function is about.
Sited(k) ==
    /\ k.op \in {"reject", "end", "ring", "accept"} => k.room \in Chats
    /\ k.op \in {"setup", "consume", "share"} => k.room \in Rooms

LEMMA FitsIs ==
    ASSUME KTypeOK, NEW t \in Slots
    PROVE  task[t] \in TaskType /\ WellFormed(task[t]) /\ Sited(task[t])
    BY DEF KTypeOK, Types, WellFormed, Sited

LEMMA PutsAsking ==
    ASSUME KTypeOK, NEW t \in Slots, NEW k \in TaskType, NEW at \in Steps,
           Put(t, Asking(k, at)), Route(k.op, at), Awaits(at), Sited(k)
    PROVE  /\ task' \in [Slots -> TaskType]
           /\ \A u \in Slots \ {t} : task'[u] = task[u]
           /\ task'[t] = Asking(k, at)
           /\ LET n == task'[t] IN
              /\ n \in TaskType
              /\ n.op = k.op /\ n.at = at /\ n.room = k.room /\ n.left = k.left
              /\ n.flag = k.flag /\ n.live = k.live /\ n.request = "sent"
              /\ n.crossed = k.crossed /\ n.closed = k.closed
           /\ \A u \in Slots : WellFormed(task'[u])
<1> DEFINE n == Asking(k, at)
<1>1. /\ n \in TaskType
      /\ n.op = k.op /\ n.at = at /\ n.room = k.room /\ n.left = k.left
      /\ n.flag = k.flag /\ n.live = k.live /\ n.request = "sent"
      /\ n.crossed = k.crossed /\ n.closed = k.closed
    BY AskingIs
<1>2. Put(t, n)
    OBVIOUS
<1> HIDE DEF n
<1>3. task' \in [Slots -> TaskType] /\ task'[t] = n /\ \A u \in Slots \ {t} : task'[u] = task[u]
    BY <1>1, <1>2, Puts DEF KTypeOK, Types
<1>4. k.op # "idle"
    BY DEF Route, Awaits, Tracks
<1>5. WellFormed(n)
    BY <1>1, <1>4 DEF WellFormed, Sited
<1>6. \A u \in Slots : WellFormed(task'[u])
    BY <1>3, <1>5 DEF KTypeOK
<1> QED
    BY <1>1, <1>3, <1>6 DEF n

LEMMA PutsIdle ==
    ASSUME KTypeOK, NEW t \in Slots, Put(t, Idle)
    PROVE  /\ task' \in [Slots -> TaskType] /\ task'[t] = Idle
           /\ task'[t].op = "idle" /\ task'[t].at = "done" /\ task'[t].request = "none"
           /\ \A u \in Slots \ {t} : task'[u] = task[u]
           /\ \A u \in Slots : WellFormed(task'[u])
    BY IdleFits, Puts DEF KTypeOK, Types

\* What a function that has the camera goes on with, and its store.
Starts(t, k, s) ==
    /\ k \in TaskType /\ k.op \in {"match", "ring", "setup"} \union Tracks
    /\ k.at = "camera" /\ Sited(k)
    /\ s \in StoreType /\ s.state = store.state /\ s.room = store.room /\ s.people = store.people
    /\ s.stream = "live" /\ s.sharing = store.sharing
    /\ Unanswered(task[t])

Leaves(t) ==
    /\ task' \in [Slots -> TaskType] /\ \A u \in Slots \ {t} : task'[u] = task[u]
    /\ \A u \in Slots : WellFormed(task'[u])
Asks(t, k, at) ==
    LET n == task'[t] IN
    /\ n.op = k.op /\ n.at = at /\ n.room = k.room /\ n.left = k.left
    /\ n.flag = k.flag /\ n.live = k.live /\ n.request = "sent"
    /\ n.crossed = k.crossed /\ n.closed = k.closed

LEMMA AskMatchDoes ==
    ASSUME KTypeOK, NEW t \in Slots, NEW k, NEW s, Starts(t, k, s), AskMatch(t, k, s)
    PROVE  /\ k.op = "match" /\ Leaves(t) /\ Asks(t, k, "match")
           /\ store' = s /\ media' = media /\ Placed'
<1>1. k \in TaskType /\ "match" \in Steps /\ Route(k.op, "match") /\ Awaits("match") /\ Sited(k)
    BY DEF Starts, AskMatch, Steps, Route, Awaits
<1>2. Put(t, Asking(k, "match"))
    BY DEF AskMatch
<1>3. Placed'
    BY DEF KTypeOK, Placed, AskMatch, Starts
<1> QED
    BY <1>1, <1>2, <1>3, PutsAsking DEF AskMatch, Leaves, Asks

LEMMA AskRingDoes ==
    ASSUME KTypeOK, NEW t \in Slots, NEW k, NEW s, Starts(t, k, s), AskRing(t, k, s)
    PROVE  /\ k.op = "ring" /\ Leaves(t) /\ Asks(t, k, "ring")
           /\ store' = SetCallState(s, "outGoing", k.room) /\ media' = media /\ k.room \in Chats
           /\ store' \in StoreType /\ store'.state = "outGoing" /\ store'.room = k.room
           /\ store'.people = s.people /\ store'.stream = "live" /\ store'.enabled = s.enabled
           /\ store'.shown = s.shown /\ store'.sharing = s.sharing
           /\ Placed'
<1>1. k \in TaskType /\ "ring" \in Steps /\ Route(k.op, "ring") /\ Awaits("ring") /\ Sited(k)
      /\ k.op = "ring"
    BY DEF Starts, AskRing, Steps, Route, Awaits
<1>2. Put(t, Asking(k, "ring")) /\ store' = SetCallState(s, "outGoing", k.room) /\ media' = media
    BY DEF AskRing
<1>3. k.room \in Chats /\ k.room \in Rooms /\ k.room # NoRoom
    BY <1>1, MediaClientAssumption DEF Sited, Rooms
<1>4. s \in StoreType /\ "outGoing" \in States /\ s.stream = "live"
    BY DEF Starts, States
<1>5. /\ store' \in StoreType /\ store'.state = "outGoing" /\ store'.room = k.room
      /\ store'.people = s.people /\ store'.stream = s.stream /\ store'.enabled = s.enabled
      /\ store'.shown = s.shown /\ store'.sharing = s.sharing
    BY <1>2, <1>3, <1>4, SetIs
<1>6. Placed'
    BY <1>3, <1>5 DEF Placed, Live
<1> QED
    BY <1>1, <1>2, <1>3, <1>4, <1>5, <1>6, PutsAsking DEF Leaves, Asks

LEMMA StartSetupDoes ==
    ASSUME KTypeOK, NEW t \in Slots, NEW k, NEW s, Starts(t, k, s), StartSetup(t, k, s),
           k.request = "none"
    PROVE  /\ k.op = "setup" /\ Leaves(t) /\ k.room \in Rooms
           /\ LET n == task'[t] IN
              /\ n.op = "setup" /\ n.at = "device" /\ n.room = k.room /\ n.request = "none"
              /\ n.crossed = k.crossed /\ n.closed = k.closed /\ n.left = k.left
              /\ n.flag = k.flag /\ n.live = k.live
           /\ store' = Greet(s, k.room) /\ media' = media
           /\ store' \in StoreType
           /\ store'.state = (IF k.room \in MatchRooms THEN "inMatch" ELSE store.state)
           /\ store'.room = (IF k.room \in MatchRooms THEN k.room ELSE store.room)
           /\ store.room \in Rooms => store'.room \in Rooms
           /\ store'.people = (IF k.room \in MatchRooms THEN s.people \union Members[k.room]
                               ELSE s.people)
           /\ store'.stream = "live" /\ store'.enabled = s.enabled /\ store'.shown = Off
           /\ store'.sharing = s.sharing
           /\ Placed'
<1> DEFINE n == [k EXCEPT !.at = "device"]
<1>1. k \in TaskType /\ "device" \in Steps /\ Sited(k) /\ k.op = "setup" /\ k.room \in Rooms
    BY DEF Starts, StartSetup, Steps, Sited
<1>2. Put(t, n) /\ store' = Greet(s, k.room) /\ media' = media
    BY DEF StartSetup
<1>3. /\ n \in TaskType
      /\ n.op = k.op /\ n.at = "device" /\ n.room = k.room /\ n.left = k.left /\ n.flag = k.flag
      /\ n.live = k.live /\ n.request = k.request /\ n.crossed = k.crossed
      /\ n.closed = k.closed
    BY <1>1, AtIs
<1> HIDE DEF n
<1>4. task' \in [Slots -> TaskType] /\ task'[t] = n /\ \A u \in Slots \ {t} : task'[u] = task[u]
    BY <1>2, <1>3, Puts DEF KTypeOK, Types
<1>5. WellFormed(n)
    BY <1>1, <1>3 DEF WellFormed, Route, Sited, Awaits
<1>6. Leaves(t)
    BY <1>4, <1>5 DEF Leaves, KTypeOK
<1>7. s \in StoreType /\ s.stream = "live" /\ s.state = store.state /\ s.room = store.room
    BY DEF Starts
<1>8. /\ store' \in StoreType
      /\ store'.state = (IF k.room \in MatchRooms THEN "inMatch" ELSE s.state)
      /\ store'.room = (IF k.room \in MatchRooms THEN k.room ELSE s.room)
      /\ store'.people = (IF k.room \in MatchRooms THEN s.people \union Members[k.room]
                          ELSE s.people)
      /\ store'.stream = s.stream /\ store'.enabled = s.enabled /\ store'.shown = Off
      /\ store'.sharing = s.sharing
    BY <1>1, <1>2, <1>7, GreetIs
<1>9. Placed'
    BY <1>1, <1>7, <1>8 DEF Placed, Live, KTypeOK
<1> QED
    BY <1>1, <1>2, <1>3, <1>4, <1>6, <1>7, <1>8, <1>9

LEMMA TurnDoes ==
    ASSUME KTypeOK, NEW t \in Slots, NEW k, NEW s, Starts(t, k, s), Turn(t, k, s)
    PROVE  /\ k.op \in Tracks /\ Leaves(t) /\ Placed'
           /\ store' \in StoreType
           /\ store'.state = store.state /\ store'.room = store.room
           /\ store'.people = store.people
           /\ store'.stream = "live" /\ store'.sharing = store.sharing
           /\ store'.enabled = [s.enabled EXCEPT ![k.op] = ~k.flag]
           /\ \/ /\ task'[t] = Idle /\ media' = media
                 /\ k.op = "video" /\ store'.shown = [s.shown EXCEPT !["video"] = ~k.flag]
              \/ /\ store'.shown = s.shown
                 /\ media' = (IF ~k.flag THEN ResumeProducer(media, k.op)
                              ELSE PauseProducer(media, k.op))
                 /\ Asks(t, [k EXCEPT !.flag = ~k.flag], "turn")
                 /\ task'[t].op \in Tracks
                 /\ task'[t].op = k.op /\ task'[t].flag = ~k.flag
                 /\ task'[t].crossed = k.crossed
<1> DEFINE to == ~k.flag
           s1 == [s EXCEPT !.enabled[k.op] = to]
           f == [k EXCEPT !.flag = to]
<1>1. k \in TaskType /\ Sited(k) /\ k.op \in Tracks /\ to \in BOOLEAN
      /\ s \in StoreType /\ s.stream = "live" /\ s.state = store.state /\ s.room = store.room
      /\ s.people = store.people /\ s.sharing = store.sharing
    BY TaskFields DEF Starts, Turn
<1>2. /\ s1 \in StoreType
      /\ s1.state = s.state /\ s1.room = s.room /\ s1.people = s.people /\ s1.stream = s.stream
      /\ s1.enabled = [s.enabled EXCEPT ![k.op] = to] /\ s1.shown = s.shown
      /\ s1.sharing = s.sharing
    BY <1>1, EnabledIs
<1>3. /\ f \in TaskType
      /\ f.op = k.op /\ f.at = k.at /\ f.room = k.room /\ f.flag = to /\ f.crossed = k.crossed
    BY <1>1, FlagIs
<1>4. \/ /\ k.op = "video" /\ store' = [s1 EXCEPT !.shown["video"] = to]
         /\ UNCHANGED media /\ Put(t, Idle)
      \/ /\ store' = s1
         /\ media' = IF to THEN ResumeProducer(media, k.op) ELSE PauseProducer(media, k.op)
         /\ Put(t, Asking(f, "turn"))
    BY DEF Turn
<1> HIDE DEF to, s1, f
<1>5. CASE /\ k.op = "video" /\ store' = [s1 EXCEPT !.shown["video"] = to]
           /\ UNCHANGED media /\ Put(t, Idle)
    <2>1. /\ store' \in StoreType
          /\ store'.state = s1.state /\ store'.room = s1.room /\ store'.people = s1.people
          /\ store'.stream = s1.stream /\ store'.enabled = s1.enabled
          /\ store'.shown = [s1.shown EXCEPT !["video"] = to] /\ store'.sharing = s1.sharing
        BY <1>1, <1>2, <1>5, ShownIs DEF Tracks
    <2>2. task'[t] = Idle /\ Leaves(t)
        BY <1>5, PutsIdle DEF Leaves
    <2>3. Placed'
        BY <1>1, <1>2, <2>1 DEF Placed, KTypeOK
    <2> QED
        BY <1>1, <1>2, <1>5, <2>1, <2>2, <2>3 DEF to
<1>6. CASE /\ store' = s1
           /\ media' = IF to THEN ResumeProducer(media, k.op) ELSE PauseProducer(media, k.op)
           /\ Put(t, Asking(f, "turn"))
    <2>1. "turn" \in Steps /\ Route(f.op, "turn") /\ Awaits("turn") /\ Sited(f)
        BY <1>1, <1>3 DEF Steps, Route, Awaits, Sited, Tracks
    <2>2. Leaves(t) /\ Asks(t, f, "turn")
        BY <1>3, <1>6, <2>1, PutsAsking DEF Leaves, Asks
    <2>3. task'[t].op = k.op /\ task'[t].flag = to /\ task'[t].crossed = k.crossed
        BY <1>3, <2>2 DEF Asks
    <2>4. Placed'
        BY <1>1, <1>2, <1>6 DEF Placed, KTypeOK
    <2> QED
        BY <1>1, <1>2, <1>6, <2>2, <2>3, <2>4 DEF to, f
<1> QED
    BY <1>4, <1>5, <1>6
LEMMA ContinueDoes ==
    ASSUME KTypeOK, NEW t \in Slots, NEW k, NEW s, Starts(t, k, s), k.request = "none",
           Continue(t, k, s)
    PROVE  /\ Leaves(t) /\ Placed' /\ store' \in StoreType /\ media' \in MediaType
           /\ strayed \subseteq strayed'
<1>1. CASE AskMatch(t, k, s)
    BY <1>1, AskMatchDoes DEF AskMatch, Starts, KTypeOK, Types
<1>2. CASE AskRing(t, k, s) /\ Witness(About(k))
    BY <1>2, AskRingDoes DEF KTypeOK, Types, Witness
<1>3. CASE StartSetup(t, k, s) /\ Witness(About(k))
    BY <1>3, StartSetupDoes DEF KTypeOK, Types, Witness
<1>4. CASE Turn(t, k, s) /\ Witness(About(k))
    <2>1. media \in MediaType /\ Tracks \subseteq Produced
        BY DEF KTypeOK, Types, Produced
    <2>2. PICK x \in Tracks : x = k.op
        BY <1>4, TurnDoes
    <2>3. ResumeProducer(media, x) \in MediaType /\ PauseProducer(media, x) \in MediaType
        BY <2>1, PauseIs, ResumeIs
    <2>4. \/ media' = media
          \/ media' = (IF ~k.flag THEN ResumeProducer(media, k.op) ELSE PauseProducer(media, k.op))
        BY <1>4, TurnDoes
    <2>5. media' \in MediaType
        BY <2>1, <2>2, <2>3, <2>4
    <2> QED
        BY <1>4, <2>5, TurnDoes DEF Witness
<1> QED
    BY <1>1, <1>2, <1>3, <1>4 DEF Continue

LEMMA SlotIs ==
    ASSUME FreeSlots # {}
    PROVE  Slot \in Slots /\ task[Slot] = Idle
    BY DEF FreeSlots, Slot

LEMMA IdleIsUnanswered == Unanswered(Idle)
    BY IdleFits DEF Unanswered, Awaits

LEMMA PutsNew ==
    ASSUME KTypeOK, NEW t \in Slots, NEW k \in TaskType, Put(t, k), WellFormed(k)
    PROVE  Leaves(t) /\ task'[t] = k
    BY Puts DEF KTypeOK, Types, Leaves

\* A click or an event begins a function in a free slot.
Fresh(k) ==
    /\ k \in TaskType /\ k.op \in {"match", "ring", "setup"} \union Tracks
    /\ k.at = "camera" /\ k.request = "none" /\ Sited(k)

LEMMA BeginDoes ==
    ASSUME KTypeOK, NEW k, Fresh(k), Begin(k)
    PROVE  \E t \in Slots :
              /\ task[t] = Idle /\ Leaves(t)
              /\ \/ Starts(t, k, store) /\ Continue(t, k, store)
                 \/ /\ task'[t] = k /\ store.stream # "live"
                    /\ UNCHANGED <<store, media, strayed>>
<1>1. Slot \in Slots /\ task[Slot] = Idle
    BY SlotIs DEF Begin
<1>2. PICK t \in Slots : t = Slot
    BY <1>1
<1>3. CASE store.stream = "live"
    <2>1. Starts(t, k, store)
        BY <1>1, <1>2, <1>3, IdleIsUnanswered DEF Starts, Fresh, KTypeOK, Types
    <2>2. Continue(t, k, store)
        BY <1>2, <1>3 DEF Begin
    <2> QED
        BY <1>1, <1>2, <2>1, <2>2, ContinueDoes DEF Fresh
<1>4. CASE store.stream # "live"
    <2>1. Put(t, k) /\ UNCHANGED <<store, media, strayed>>
        BY <1>2, <1>4 DEF Begin
    <2>2. WellFormed(k) /\ k \in TaskType
        BY DEF Fresh, WellFormed, Sited, Route, Tracks
    <2> QED
        BY <1>1, <1>2, <1>4, <2>1, <2>2, PutsNew
<1> QED
    BY <1>3, <1>4

\* getUserMedia answers, and the function goes on.
Opens(t, k, s) ==
    /\ Starts(t, k, s) /\ Continue(t, k, s)
    /\ task[t].at = "camera" /\ task[t].op # "share"
    /\ k.op = task[t].op /\ k.room = task[t].room /\ k.request = "none" /\ k.left = task[t].left
    /\ k.crossed = task[t].crossed /\ k.closed = task[t].closed /\ k.live = task[t].live
    /\ k.op # "video" => k.flag = task[t].flag
    /\ \E flag \in {FALSE, store.shown["video"]} : s = Opened(store, flag)
    /\ s.enabled = Off /\ \A x \in Tracks : s.shown[x] => store.shown[x]

LEMMA CameraOpensDoes ==
    ASSUME KTypeOK, NEW t \in Slots, CameraOpens(t)
    PROVE  \E k, s : Opens(t, k, s)
<1> DEFINE k == IF task[t].op = "video" THEN [task[t] EXCEPT !.flag = FALSE] ELSE task[t]
<1>1. task[t] \in TaskType /\ WellFormed(task[t]) /\ task[t].at = "camera" /\ task[t].op # "share"
    BY DEF KTypeOK, Types, CameraOpens
<1>2. PICK flag \in {FALSE, store.shown["video"]} : Continue(t, k, Opened(store, flag))
    BY DEF CameraOpens
<1>3. flag \in BOOLEAN /\ store \in StoreType /\ store.shown \in [Tracks -> BOOLEAN]
    BY <1>2 DEF KTypeOK, Types, StoreType, Tracks
<1>4. PICK s : s = Opened(store, flag)
    OBVIOUS
<1>5. /\ s \in StoreType
      /\ s.state = store.state /\ s.room = store.room /\ s.people = store.people
      /\ s.stream = "live" /\ s.enabled = Off
      /\ s.shown = [store.shown EXCEPT !["video"] = flag] /\ s.sharing = store.sharing
    BY <1>3, <1>4, OpenedIs
<1>6. /\ k \in TaskType /\ k.op = task[t].op /\ k.at = "camera" /\ k.room = task[t].room
      /\ k.left = task[t].left /\ k.live = task[t].live /\ k.request = task[t].request
      /\ k.crossed = task[t].crossed /\ k.closed = task[t].closed
      /\ k.op # "video" => k.flag = task[t].flag
    BY <1>1, FlagIs
<1> HIDE DEF k
<1>7. k.request = "none" /\ k.op \in {"match", "ring", "setup"} \union Tracks
    BY <1>1, <1>6, TaskFields DEF WellFormed, Route, Awaits, Tracks
<1>8. Sited(k)
    BY <1>1, <1>6 DEF WellFormed, Sited
<1>9. Unanswered(task[t])
    BY <1>1 DEF Unanswered, Awaits
<1>10. Starts(t, k, s)
    BY <1>5, <1>6, <1>7, <1>8, <1>9 DEF Starts
<1>11. \A x \in Tracks : s.shown[x] => store.shown[x]
    BY <1>2, <1>3, <1>5 DEF Tracks
<1>12. Opens(t, k, s)
    BY <1>1, <1>2, <1>4, <1>5, <1>6, <1>7, <1>10, <1>11 DEF Opens
<1> QED
    BY <1>12

\* Every end of the page: what is under way goes on, and is told apart.
Ends(gone1) ==
    /\ task' \in [Slots -> TaskType]
    /\ \A u \in Slots :
          IF u \in gone1 \/ task[u] = Idle THEN task'[u] = Idle
          ELSE LET n == task'[u] IN
               /\ n.op = task[u].op /\ n.at = task[u].at /\ n.room = task[u].room
               /\ n.left = task[u].left /\ n.flag = task[u].flag /\ n.live = task[u].live
               /\ n.request = task[u].request /\ n.crossed = TRUE /\ n.closed = TRUE

LEMMA EndDoes ==
    ASSUME KTypeOK, NEW about, NEW tasks, NEW over \in SUBSET Slots, End(about, tasks),
           \A u \in Slots : tasks[u] = IF u \in over THEN Idle ELSE task[u]
    PROVE  /\ Ends(over) /\ \A u \in Slots : WellFormed(task'[u])
           /\ store' \in StoreType /\ store'.state = "ended" /\ store'.room = store.room
           /\ store'.people = {} /\ store'.stream # "live" /\ store'.enabled = Off
           /\ store'.shown = store.shown /\ store'.sharing = FALSE
           /\ media' = Cleanup(media) /\ media' \in MediaType /\ touched' = FALSE
           /\ Placed' /\ strayed \subseteq strayed'
<1> DEFINE s == SetCallState(store, "ended", NoRoom)
<1>1. store \in StoreType /\ "ended" \in States
    BY DEF KTypeOK, Types, States
<1>2. /\ s \in StoreType /\ s.state = "ended" /\ s.room = store.room
      /\ s.shown = store.shown
    BY <1>1, SetIs
<1> HIDE DEF s
<1>3. store' = Hangs(s) /\ media' = Cleanup(media) /\ touched' = FALSE
    BY DEF End, s
<1>4. /\ store' \in StoreType
      /\ store'.state = "ended" /\ store'.room = store.room /\ store'.people = {}
      /\ store'.stream # "live" /\ store'.enabled = Off /\ store'.shown = store.shown
      /\ store'.sharing = FALSE
    BY <1>2, <1>3, HangsIs
<1>5. media' \in MediaType
    BY <1>3, CleanupIs DEF KTypeOK, Types
<1>6. Placed'
    BY <1>4 DEF Placed, Live
<1>7. ASSUME NEW u \in Slots
      PROVE  /\ task'[u] \in TaskType /\ WellFormed(task'[u])
             /\ IF u \in over \/ task[u] = Idle THEN task'[u] = Idle
                ELSE LET n == task'[u] IN
                     /\ n.op = task[u].op /\ n.at = task[u].at /\ n.room = task[u].room
                     /\ n.left = task[u].left /\ n.flag = task[u].flag /\ n.live = task[u].live
                     /\ n.request = task[u].request /\ n.crossed = TRUE /\ n.closed = TRUE
    <2>1. task'[u] = IF tasks[u] = Idle THEN Idle
                     ELSE [tasks[u] EXCEPT !.crossed = TRUE, !.closed = TRUE]
        BY DEF End
    <2>2. CASE u \in over \/ task[u] = Idle
        BY <2>1, <2>2, IdleFits
    <2>3. CASE ~(u \in over \/ task[u] = Idle)
        <3>1. task'[u] = [task[u] EXCEPT !.crossed = TRUE, !.closed = TRUE]
            BY <2>1, <2>3
        <3>2. task[u] \in TaskType /\ WellFormed(task[u])
            BY DEF KTypeOK, Types
        <3>3. LET n == task'[u] IN
              /\ n \in TaskType
              /\ n.op = task[u].op /\ n.at = task[u].at /\ n.room = task[u].room
              /\ n.left = task[u].left /\ n.flag = task[u].flag /\ n.live = task[u].live
              /\ n.request = task[u].request /\ n.crossed = TRUE /\ n.closed = TRUE
            BY <3>1, <3>2, CrossedIs
        <3>4. WellFormed(task'[u])
            BY <2>3, <3>2, <3>3 DEF WellFormed
        <3> QED
            BY <2>3, <3>3, <3>4
    <2> QED
        BY <2>2, <2>3
<1>8. task' \in [Slots -> TaskType]
    <2>1. task' = [u \in Slots |-> task'[u]]
        BY DEF End
    <2> QED
        BY <1>7, <2>1
<1>9. Ends(over)
    BY <1>7, <1>8 DEF Ends
<1>10. strayed \subseteq strayed'
    BY DEF End, Witness
<1> QED
    BY <1>3, <1>4, <1>5, <1>6, <1>7, <1>9, <1>10
\* A step of t that may also close what others await.
Closes(t) ==
    /\ task' \in [Slots -> TaskType] /\ \A u \in Slots : WellFormed(task'[u])
    /\ \A u \in Slots \ {t} :
          LET n == task'[u] IN
          /\ n.op = task[u].op /\ n.at = task[u].at /\ n.room = task[u].room
          /\ n.left = task[u].left /\ n.flag = task[u].flag /\ n.live = task[u].live
          /\ n.request = task[u].request /\ n.crossed = task[u].crossed
          /\ task[u].closed => n.closed

LEMMA LeavesCloses ==
    ASSUME KTypeOK, NEW t \in Slots, Leaves(t)
    PROVE  Closes(t)
    BY DEF Leaves, Closes

LEMMA ClosedFits ==
    ASSUME NEW k \in TaskType, WellFormed(k), NEW b \in BOOLEAN, k.op = "idle" => b = k.closed
    PROVE  LET n == [k EXCEPT !.closed = b] IN
           /\ n \in TaskType /\ WellFormed(n)
           /\ n.op = k.op /\ n.at = k.at /\ n.room = k.room /\ n.left = k.left /\ n.flag = k.flag
           /\ n.live = k.live /\ n.request = k.request /\ n.crossed = k.crossed
           /\ n.closed = b
<1> DEFINE n == [k EXCEPT !.closed = b]
<1>1. /\ n \in TaskType
      /\ n.op = k.op /\ n.at = k.at /\ n.room = k.room /\ n.left = k.left /\ n.flag = k.flag
      /\ n.live = k.live /\ n.request = k.request /\ n.crossed = k.crossed
      /\ n.closed = b
    BY ClosedIs
<1>2. k.op = "idle" => n = k
    BY DEF TaskType
<1> HIDE DEF n
<1>3. WellFormed(n)
    BY <1>1, <1>2 DEF WellFormed
<1> QED
    BY <1>1, <1>3 DEF n

LEMMA ClosesAre ==
    ASSUME KTypeOK, NEW t \in Slots, NEW n \in TaskType, WellFormed(n), NEW shut,
           \A u \in Slots : task[u].op = "idle" => u \notin shut,
           task' = [u \in Slots |-> task'[u]], task'[t] = n,
           \A u \in Slots \ {t} : task'[u] = [task[u] EXCEPT !.closed = @ \/ u \in shut]
    PROVE  /\ Closes(t)
           /\ \A u \in Slots \ {t} : task'[u].closed = (task[u].closed \/ u \in shut)
<1>1. ASSUME NEW u \in Slots \ {t}
      PROVE  LET m == task'[u] IN
             /\ m \in TaskType /\ WellFormed(m)
             /\ m.op = task[u].op /\ m.at = task[u].at /\ m.room = task[u].room
             /\ m.left = task[u].left /\ m.flag = task[u].flag /\ m.live = task[u].live
             /\ m.request = task[u].request /\ m.crossed = task[u].crossed
             /\ m.closed = (task[u].closed \/ u \in shut)
    <2>1. task'[u] = [task[u] EXCEPT !.closed = (task[u].closed \/ u \in shut)]
        OBVIOUS
    <2>2. task[u] \in TaskType /\ WellFormed(task[u]) /\ task[u].closed \in BOOLEAN
        BY TaskFields DEF KTypeOK, Types
    <2>3. PICK k \in TaskType, b \in BOOLEAN :
              k = task[u] /\ b = (task[u].closed \/ u \in shut)
        BY <2>2
    <2>4. WellFormed(k) /\ (k.op = "idle" => b = k.closed)
        BY <2>2, <2>3
    <2>5. PICK m : m = [k EXCEPT !.closed = b]
        OBVIOUS
    <2>6. /\ m \in TaskType /\ WellFormed(m)
          /\ m.op = k.op /\ m.at = k.at /\ m.room = k.room /\ m.left = k.left /\ m.flag = k.flag
          /\ m.live = k.live /\ m.request = k.request /\ m.crossed = k.crossed /\ m.closed = b
        BY <2>4, <2>5, ClosedFits
    <2>7. task'[u] = m
        BY <2>1, <2>3, <2>5
    <2> QED
        BY <2>3, <2>6, <2>7
<1>2. task' \in [Slots -> TaskType]
    BY <1>1
<1> QED
    BY <1>1, <1>2, TaskFields DEF Closes, KTypeOK, Types

Continued(t) ==
    LET n == task'[t] IN
    /\ n.op = task[t].op /\ n.room = task[t].room /\ n.left = task[t].left
    /\ n.flag = task[t].flag /\ n.live = task[t].live /\ n.crossed = task[t].crossed

LEMMA DeviceDoes ==
    ASSUME KTypeOK, NEW t \in Slots, InitializeDevice(t) \/ LoadDevice(t)
    PROVE  /\ task[t].op = "setup" /\ task[t].at \in {"device", "load"}
           /\ task[t].request = "none" /\ task[t].room \in Rooms
           /\ Leaves(t) /\ Continued(t) /\ task'[t].closed = task[t].closed
           /\ task'[t].at \in {"load", "send"}
           /\ media' \in MediaType /\ media'.send = media.send /\ media'.recv = media.recv
           /\ media'.producers = media.producers /\ media'.consumers = media.consumers
           /\ UNCHANGED <<store, inbox, sent, srv, strayed, touched, gone, uninvited, hasty>>
<1>1. /\ task[t] \in TaskType /\ WellFormed(task[t]) /\ media \in MediaType
      /\ task[t].op = "setup" /\ task[t].at \in {"device", "load"}
    BY DEF KTypeOK, Types, InitializeDevice, LoadDevice, At
<1>2. task[t].request = "none" /\ Sited(task[t]) /\ task[t].room \in Rooms
    BY <1>1, TaskFields DEF WellFormed, Awaits, Sited
<1>3. UNCHANGED <<store, inbox, sent, srv, strayed, touched, gone, uninvited, hasty>>
    BY DEF InitializeDevice, LoadDevice, Rest, Quiet
<1>4. ASSUME Put(t, Asking(task[t], "send"))
      PROVE  Leaves(t) /\ Continued(t) /\ task'[t].closed = task[t].closed /\ task'[t].at = "send"
    <2>1. "send" \in Steps /\ Route(task[t].op, "send") /\ Awaits("send")
        BY <1>1 DEF Steps, Route, Awaits
    <2> QED
        BY <1>1, <1>2, <1>4, <2>1, PutsAsking DEF Leaves, Continued
<1>5. ASSUME Put(t, [task[t] EXCEPT !.at = "load"])
      PROVE  Leaves(t) /\ Continued(t) /\ task'[t].closed = task[t].closed /\ task'[t].at = "load"
    <2> DEFINE n == [task[t] EXCEPT !.at = "load"]
    <2>1. "load" \in Steps
        BY DEF Steps
    <2>2. /\ n \in TaskType
          /\ n.op = task[t].op /\ n.at = "load" /\ n.room = task[t].room /\ n.left = task[t].left
          /\ n.flag = task[t].flag /\ n.live = task[t].live /\ n.request = task[t].request
          /\ n.crossed = task[t].crossed /\ n.closed = task[t].closed
        BY <1>1, <2>1, AtIs
    <2>3. Put(t, n)
        BY <1>5
    <2> HIDE DEF n
    <2>4. WellFormed(n)
        BY <1>1, <1>2, <2>2 DEF WellFormed, Route, Awaits
    <2> QED
        BY <2>2, <2>3, <2>4, PutsNew DEF Continued
<1>6. \/ /\ Put(t, [task[t] EXCEPT !.at = "load"]) /\ media' = [media EXCEPT !.device = "unloaded"]
      \/ /\ Put(t, Asking(task[t], "send"))
         /\ media' = media \/ media' = [media EXCEPT !.device = "loaded"]
    BY DEF InitializeDevice, LoadDevice
<1>7. /\ media' \in MediaType /\ media'.send = media.send /\ media'.recv = media.recv
      /\ media'.producers = media.producers /\ media'.consumers = media.consumers
    <2>1. \/ media' = media
          \/ \E d \in {"none", "unloaded", "loaded"} : media' = [media EXCEPT !.device = d]
        BY <1>6
    <2>2. CASE media' = media
        BY <1>1, <2>2
    <2>3. ASSUME NEW d \in {"none", "unloaded", "loaded"}, media' = [media EXCEPT !.device = d]
          PROVE  <1>7
        BY <1>1, <2>3, DeviceIs
    <2> QED
        BY <2>1, <2>2, <2>3
<1> QED
    BY <1>1, <1>2, <1>3, <1>4, <1>5, <1>6, <1>7

\* An answer to t is taken.
Hears(t, ok) ==
    /\ inbox # <<>> /\ Take /\ Head(inbox).ev = "answer" /\ Head(inbox).room = t
    /\ Head(inbox).who = ok

LEMMA SendDoes ==
    ASSUME KTypeOK, NEW t \in Slots, SendTransport(t)
    PROVE  /\ task[t].op = "setup" /\ task[t].at = "send" /\ task[t].room \in Rooms
           /\ Hears(t, TRUE) /\ Closes(t)
           /\ UNCHANGED <<store, sent, srv, gone, uninvited, hasty>>
           /\ \/ /\ task'[t] = Idle /\ strayed' = strayed \union {task[t].room}
                 /\ touched' = TRUE /\ UNCHANGED media /\ Leaves(t)
              \/ /\ media' = CreateSendTransport(media, task[t].room)
                 /\ Continued(t) /\ task'[t].at = "recv" /\ task'[t].request = "sent"
                 /\ task'[t].closed = FALSE
                 /\ \A u \in Slots \ {t} : task'[u].closed =
                       (task[u].closed \/ task[u].at \in {"video", "audio", "screen"})
                 /\ touched' = (touched \/ task[t].crossed) /\ UNCHANGED strayed
<1>1. /\ task[t] \in TaskType /\ WellFormed(task[t])
      /\ task[t].op = "setup" /\ task[t].at = "send"
    BY DEF KTypeOK, Types, SendTransport, At
<1>2. Sited(task[t]) /\ task[t].room \in Rooms
    BY <1>1 DEF WellFormed, Sited
<1>3. Hears(t, TRUE)
    BY DEF SendTransport, Answered, Head1, Hears
<1>4. UNCHANGED <<store, sent, srv, gone, uninvited, hasty>>
    BY DEF SendTransport, Rest, Quiet
<1>5. CASE media.device # "loaded"
    <2>1. Put(t, Idle) /\ GivesUp(t) /\ UNCHANGED media
        BY <1>5 DEF SendTransport
    <2>2. task'[t] = Idle /\ Leaves(t) /\ Closes(t)
        BY <2>1, PutsIdle, LeavesCloses DEF Leaves
    <2> QED
        BY <1>1, <1>2, <1>3, <1>4, <2>1, <2>2 DEF GivesUp
<1>6. CASE media.device = "loaded"
    <2> DEFINE k == [task[t] EXCEPT !.closed = FALSE]
               n == Asking(k, "recv")
               shut == {u \in Slots : task[u].at \in {"video", "audio", "screen"}}
    <2>1. /\ k \in TaskType /\ k.op = "setup" /\ k.room = task[t].room /\ k.left = task[t].left
          /\ k.flag = task[t].flag /\ k.live = task[t].live /\ k.crossed = task[t].crossed
          /\ k.closed = FALSE
        BY <1>1, ClosedIs
    <2> HIDE DEF k
    <2>2. /\ n \in TaskType /\ n.op = "setup" /\ n.at = "recv" /\ n.room = task[t].room
          /\ n.left = task[t].left /\ n.flag = task[t].flag /\ n.live = task[t].live
          /\ n.request = "sent" /\ n.crossed = task[t].crossed /\ n.closed = FALSE
        BY <2>1, AskingIs DEF Steps
    <2>3. /\ task' = [u \in Slots |-> task'[u]] /\ task'[t] = n
          /\ \A u \in Slots \ {t} : task'[u] = [task[u] EXCEPT !.closed = @ \/ u \in shut]
        BY <1>6 DEF SendTransport, k
    <2> HIDE DEF n
    <2>4. WellFormed(n)
        BY <1>2, <2>2 DEF WellFormed, Route, Awaits
    <2>5. \A u \in Slots : task[u].op = "idle" => u \notin shut
        BY IdleFits DEF KTypeOK, WellFormed
    <2>6. /\ Closes(t) /\ task'[t] = n
          /\ \A u \in Slots \ {t} : task'[u].closed =
                (task[u].closed \/ task[u].at \in {"video", "audio", "screen"})
        <3>1. \A u \in Slots \ {t} : task'[u].closed = (task[u].closed \/ u \in shut)
            <4> HIDE DEF shut
            <4> QED
                BY <2>2, <2>3, <2>4, <2>5, ClosesAre
        <3>2. Closes(t)
            <4> HIDE DEF shut
            <4> QED
                BY <2>2, <2>3, <2>4, <2>5, ClosesAre
        <3> QED
            BY <2>3, <3>1, <3>2
    <2>7. /\ media' = CreateSendTransport(media, task[t].room)
          /\ touched' = (touched \/ task[t].crossed) /\ UNCHANGED strayed
        BY <1>6 DEF SendTransport, Touch
    <2> QED
        BY <1>1, <1>2, <1>3, <1>4, <2>2, <2>6, <2>7 DEF Continued
<1> QED
    BY <1>5, <1>6
\* The end of a set-up.
Finishes(t) ==
    /\ sent' = sent \union {<<"feeds", task[t].room>>}
    /\ store' \in StoreType
    /\ store'.state = (IF task[t].room \in Chats THEN "inCall" ELSE store.state)
    /\ store'.room = (IF task[t].room \in Chats THEN task[t].room ELSE store.room)
    /\ store'.people = store.people /\ store'.stream = store.stream
    /\ store'.enabled = store.enabled /\ store'.shown = store.shown
    /\ store'.sharing = store.sharing
    /\ Witness({task[t].room}) /\ strayed \subseteq strayed'
    /\ touched' = (touched \/ task[t].crossed)
    /\ task'[t] = Idle

LEMMA FinishDoes ==
    ASSUME KTypeOK, NEW t \in Slots, task[t].room \in Rooms, Finish(t), task'[t] = Idle
    PROVE  Finishes(t) /\ Placed'
<1>1. store \in StoreType /\ "inCall" \in States /\ task[t].room # NoRoom
    BY MediaClientAssumption DEF KTypeOK, Types, States
<1>2. store' = IF task[t].room \in Chats THEN SetCallState(store, "inCall", task[t].room)
               ELSE store
    BY DEF Finish
<1>3. PICK r \in Rooms : r = task[t].room
    OBVIOUS
<1>4. LET n == SetCallState(store, "inCall", r) IN
      /\ n \in StoreType /\ n.state = "inCall" /\ n.room = r
      /\ n.people = store.people /\ n.stream = store.stream /\ n.enabled = store.enabled
      /\ n.shown = store.shown /\ n.sharing = store.sharing
    BY <1>1, <1>3, SetIs
<1>5. /\ store' \in StoreType
      /\ store'.state = (IF r \in Chats THEN "inCall" ELSE store.state)
      /\ store'.room = (IF r \in Chats THEN r ELSE store.room)
      /\ store'.people = store.people /\ store'.stream = store.stream
      /\ store'.enabled = store.enabled /\ store'.shown = store.shown
      /\ store'.sharing = store.sharing
    BY <1>1, <1>2, <1>3, <1>4
<1>6. Placed'
    BY <1>3, <1>5 DEF Placed, Live, KTypeOK
<1>7. /\ sent' = sent \union {<<"feeds", task[t].room>>}
      /\ Witness({task[t].room}) /\ strayed \subseteq strayed'
      /\ touched' = (touched \/ task[t].crossed)
    BY DEF Finish, AskFeeds, Touch, Witness
<1> QED
    BY <1>3, <1>5, <1>6, <1>7 DEF Finishes

LEMMA RecvDoes ==
    ASSUME KTypeOK, NEW t \in Slots, RecvTransport(t)
    PROVE  /\ task[t].op = "setup" /\ task[t].at = "recv" /\ task[t].room \in Rooms
           /\ Hears(t, TRUE) /\ Closes(t)
           /\ media' = CreateRecvTransport(media, task[t].room)
           /\ UNCHANGED <<srv, gone, uninvited, hasty>>
           /\ \A u \in Slots \ {t} : task'[u].closed =
                 (task[u].closed \/ task[u].op = "consume")
           /\ \/ /\ store.stream = "live" /\ Continued(t) /\ task'[t].at = "video"
                 /\ task'[t].request = "sent" /\ task'[t].closed = task[t].closed
                 /\ touched' = (touched \/ task[t].crossed)
                 /\ UNCHANGED <<store, sent, strayed>>
              \/ store.stream # "live" /\ Finishes(t) /\ Placed'
<1>1. /\ task[t] \in TaskType /\ WellFormed(task[t])
      /\ task[t].op = "setup" /\ task[t].at = "recv"
    BY DEF KTypeOK, Types, RecvTransport, At
<1>2. Sited(task[t]) /\ task[t].room \in Rooms
    BY <1>1 DEF WellFormed, Sited
<1>3. Hears(t, TRUE)
    BY DEF RecvTransport, Answered, Head1, Hears
<1>4. /\ media' = CreateRecvTransport(media, task[t].room)
      /\ UNCHANGED <<srv, gone, uninvited, hasty>>
    BY DEF RecvTransport, Rest, Quiet
<1> DEFINE shut == {u \in Slots : task[u].op = "consume"}
           n == IF store.stream = "live" THEN Asking(task[t], "video") ELSE Idle
<1>5. /\ task' = [u \in Slots |-> task'[u]] /\ task'[t] = n
      /\ \A u \in Slots \ {t} : task'[u] = [task[u] EXCEPT !.closed = @ \/ u \in shut]
    <2>1. CASE store.stream = "live"
        BY <2>1 DEF RecvTransport
    <2>2. CASE store.stream # "live"
        BY <2>2 DEF RecvTransport
    <2> QED
        BY <2>1, <2>2
<1>6. \A u \in Slots : task[u].op = "idle" => u \notin shut
    OBVIOUS
<1>7. LET a == Asking(task[t], "video") IN
      /\ a \in TaskType /\ a.op = "setup" /\ a.at = "video" /\ a.room = task[t].room
      /\ a.left = task[t].left /\ a.flag = task[t].flag /\ a.live = task[t].live
      /\ a.request = "sent" /\ a.crossed = task[t].crossed /\ a.closed = task[t].closed
    BY <1>1, AskingIs DEF Steps
<1>8. WellFormed(Asking(task[t], "video"))
    BY <1>2, <1>7 DEF WellFormed, Route, Awaits
<1>9. n \in TaskType /\ WellFormed(n)
    BY <1>7, <1>8, IdleFits
<1>10. /\ Closes(t)
       /\ \A u \in Slots \ {t} : task'[u].closed = (task[u].closed \/ task[u].op = "consume")
    <2>1. PICK m : m = n
        OBVIOUS
    <2>2. m \in TaskType /\ WellFormed(m) /\ task'[t] = m
        BY <1>5, <1>9, <2>1
    <2> HIDE DEF n
    <2>3. PICK x : x = shut
        OBVIOUS
    <2>4. /\ \A u \in Slots : task[u].op = "idle" => u \notin x
          /\ \A u \in Slots \ {t} : task'[u] = [task[u] EXCEPT !.closed = @ \/ u \in x]
        BY <1>5, <1>6, <2>3
    <2>5. /\ Closes(t)
          /\ \A u \in Slots \ {t} : task'[u].closed = (task[u].closed \/ u \in x)
        <3> HIDE DEF shut
        <3> QED
            BY <1>5, <2>2, <2>4, ClosesAre
    <2> QED
        BY <2>3, <2>5
<1>11. CASE store.stream = "live"
    <2>1. task'[t] = Asking(task[t], "video")
        BY <1>5, <1>11
    <2>2. touched' = (touched \/ task[t].crossed) /\ UNCHANGED <<store, sent, strayed>>
        BY <1>11 DEF RecvTransport, Touch
    <2> QED
        BY <1>1, <1>2, <1>3, <1>4, <1>7, <1>10, <1>11, <2>1, <2>2 DEF Continued
<1>12. CASE store.stream # "live"
    <2>1. task'[t] = Idle /\ Finish(t)
        BY <1>5, <1>12 DEF RecvTransport
    <2> QED
        BY <1>1, <1>2, <1>3, <1>4, <1>10, <1>12, <2>1, FinishDoes
<1> QED
    BY <1>11, <1>12

LEMMA ProduceDoes ==
    ASSUME KTypeOK, NEW t \in Slots, ProduceVideo(t) \/ ProduceAudio(t)
    PROVE  /\ task[t].op = "setup" /\ task[t].at \in {"video", "audio"}
           /\ task[t].room \in Rooms /\ Hears(t, TRUE) /\ Leaves(t)
           /\ media' \in MediaType /\ media'.device = media.device
           /\ media'.send = media.send /\ media'.recv = media.recv
           /\ media'.consumers = media.consumers
           /\ media'.producers = media.producers
              \/ /\ ~task[t].closed /\ \A k \in Tracks : media'.producers[k] # "on"
                 /\ media'.producers["screen"] = media.producers["screen"]
           /\ ~task[t].closed \/ media' = media
           /\ UNCHANGED <<srv, gone, uninvited, hasty>>
           /\ \/ /\ task[t].at = "video" /\ ~task[t].closed /\ store.stream = "live"
                 /\ Continued(t) /\ task'[t].at = "audio" /\ task'[t].request = "sent"
                 /\ task'[t].closed = task[t].closed
                 /\ UNCHANGED <<store, media, sent, strayed, touched>>
              \/ Finishes(t) /\ Placed'
<1>1. /\ task[t] \in TaskType /\ WellFormed(task[t]) /\ media \in MediaType
      /\ task[t].op = "setup" /\ task[t].at \in {"video", "audio"}
    BY DEF KTypeOK, Types, ProduceVideo, ProduceAudio, At
<1>2. Sited(task[t]) /\ task[t].room \in Rooms
    BY <1>1 DEF WellFormed, Sited
<1>3. Hears(t, TRUE)
    BY DEF ProduceVideo, ProduceAudio, Answered, Head1, Hears
<1>4. UNCHANGED <<srv, gone, uninvited, hasty>>
    BY DEF ProduceVideo, ProduceAudio, Rest, Quiet
<1>5. ASSUME Put(t, Idle), Finish(t)
      PROVE  Leaves(t) /\ Finishes(t) /\ Placed'
    BY <1>2, <1>5, PutsIdle, FinishDoes DEF Leaves
<1>6. CASE ProduceVideo(t)
    <2>1. CASE Put(t, Idle) /\ Finish(t)
        BY <1>1, <1>2, <1>3, <1>4, <1>5, <1>6, <2>1 DEF ProduceVideo
    <2>2. CASE /\ ~task[t].closed /\ store.stream = "live"
               /\ Put(t, Asking(task[t], "audio")) /\ UNCHANGED <<store, sent, strayed, touched>>
        <3>1. "audio" \in Steps /\ Route(task[t].op, "audio") /\ Awaits("audio")
            BY <1>1 DEF Steps, Route, Awaits
        <3>2. /\ Leaves(t) /\ Continued(t) /\ task'[t].at = "audio" /\ task'[t].request = "sent"
              /\ task'[t].closed = task[t].closed
            BY <1>1, <1>2, <2>2, <3>1, PutsAsking DEF Leaves, Continued
        <3>3. media' = media /\ task[t].at = "video"
            BY <1>6 DEF ProduceVideo, At
        <3> QED
            BY <1>1, <1>2, <1>3, <1>4, <2>2, <3>2, <3>3
    <2> QED
        BY <1>6, <2>1, <2>2 DEF ProduceVideo
<1>7. CASE ProduceAudio(t)
    <2>1. Put(t, Idle) /\ Finish(t)
        BY <1>7 DEF ProduceAudio
    <2>2. CASE task[t].closed
        <3>1. media' = media
            BY <1>7, <2>2 DEF ProduceAudio
        <3> QED
            BY <1>1, <1>2, <1>3, <1>4, <1>5, <2>1, <2>2, <3>1
    <2>3. CASE ~task[t].closed
        <3>1. "video" \in Produced /\ "audio" \in Produced /\ "screen" \in Produced
            BY DEF Produced, Tracks
        <3>2. PICK a \in MediaType :
                  /\ a = SetProducers(media)
                  /\ a.device = media.device /\ a.send = media.send /\ a.recv = media.recv
                  /\ a.consumers = media.consumers
                  /\ a.producers["screen"] = media.producers["screen"]
            BY <1>1, SetProducersIs
        <3>3. PICK b \in MediaType :
                  /\ b = PauseProducer(a, "video")
                  /\ b.device = a.device /\ b.send = a.send /\ b.recv = a.recv
                  /\ b.producers["video"] # "on" /\ b.consumers = a.consumers
                  /\ \A j \in Produced \ {"video"} : b.producers[j] = a.producers[j]
            BY <3>1, PauseIs
        <3>4. PICK c \in MediaType :
                  /\ c = PauseProducer(b, "audio")
                  /\ c.device = b.device /\ c.send = b.send /\ c.recv = b.recv
                  /\ c.producers["audio"] # "on" /\ c.consumers = b.consumers
                  /\ \A j \in Produced \ {"audio"} : c.producers[j] = b.producers[j]
            BY <3>1, PauseIs
        <3>5. media' = c
            BY <1>7, <2>3, <3>2, <3>3, <3>4 DEF ProduceAudio
        <3>6. (\A k \in Tracks : c.producers[k] # "on")
              /\ c.producers["screen"] = media.producers["screen"]
            BY <3>1, <3>2, <3>3, <3>4 DEF Tracks
        <3> QED
            BY <1>1, <1>2, <1>3, <1>4, <1>5, <2>1, <2>3, <3>2, <3>3, <3>4, <3>5, <3>6
    <2> QED
        BY <2>2, <2>3
<1> QED
    BY <1>6, <1>7
LEMMA MatchAnsweredDoes ==
    ASSUME KTypeOK, NEW t \in Slots, MatchAnswered(t)
    PROVE  /\ task[t].op = "match" /\ task[t].at = "match" /\ Hears(t, TRUE) /\ Leaves(t)
           /\ task'[t] = Idle
           /\ store' \in StoreType /\ store'.state = "inMatchWait" /\ store'.room = store.room
           /\ store'.people = store.people /\ store'.stream = store.stream
           /\ store'.enabled = store.enabled /\ store'.shown = store.shown
           /\ store'.sharing = store.sharing
           /\ Witness({Waiting}) /\ strayed \subseteq strayed' /\ Placed'
           /\ UNCHANGED <<media, sent, touched, srv, gone, uninvited, hasty>>
<1>1. task[t].op = "match" /\ task[t].at = "match" /\ Hears(t, TRUE) /\ Put(t, Idle)
    BY DEF MatchAnswered, At, Answered, Head1, Hears
<1>2. store' = SetCallState(store, "inMatchWait", NoRoom) /\ Witness({Waiting})
      /\ strayed \subseteq strayed'
    BY DEF MatchAnswered, Witness
<1>3. store \in StoreType /\ "inMatchWait" \in States
    BY DEF KTypeOK, Types, States
<1>4. /\ store' \in StoreType /\ store'.state = "inMatchWait" /\ store'.room = store.room
      /\ store'.people = store.people /\ store'.stream = store.stream
      /\ store'.enabled = store.enabled /\ store'.shown = store.shown
      /\ store'.sharing = store.sharing
    BY <1>2, <1>3, SetIs
<1>5. Placed'
    BY <1>4 DEF Placed, Live
<1>6. UNCHANGED <<media, sent, touched, srv, gone, uninvited, hasty>>
    BY DEF MatchAnswered, Rest, Quiet
<1> QED
    BY <1>1, <1>2, <1>4, <1>5, <1>6, PutsIdle DEF Leaves

EndsPage ==
    /\ \A u \in Slots : WellFormed(task'[u])
    /\ store' \in StoreType /\ store'.state = "ended" /\ store'.room = store.room
    /\ store'.people = {} /\ store'.stream # "live" /\ store'.enabled = Off
    /\ store'.shown = store.shown /\ store'.sharing = FALSE
    /\ media' = Cleanup(media) /\ media' \in MediaType /\ touched' = FALSE
    /\ Placed' /\ strayed \subseteq strayed'

LEMMA CameraFailsDoes ==
    ASSUME KTypeOK, NEW t \in Slots, CameraFails(t)
    PROVE  /\ task[t].at = "camera" /\ task[t].op # "share" /\ task'[t] = Idle
           /\ UNCHANGED <<inbox, sent, srv, gone, uninvited, hasty>>
           /\ \/ task[t].op = "ring" /\ Ends({t}) /\ EndsPage /\ Witness({})
              \/ /\ task[t].op # "ring" /\ Leaves(t) /\ UNCHANGED <<store, media, touched>>
                 /\ strayed \subseteq strayed'
                 /\ strayed' = strayed \/ strayed' = strayed \union {task[t].room}
                 /\ task[t].op = "setup" => strayed' = strayed \union {task[t].room}
<1>1. task[t].at = "camera" /\ task[t].op # "share"
      /\ UNCHANGED <<inbox, sent, srv, gone, uninvited, hasty>>
    BY DEF CameraFails, Quiet
<1>2. CASE task[t].op = "ring"
    <2> DEFINE tasks == [task EXCEPT ![t] = Idle]
    <2>1. End({}, tasks)
        BY <1>2 DEF CameraFails
    <2>2. \A u \in Slots : tasks[u] = IF u \in {t} THEN Idle ELSE task[u]
        BY DEF KTypeOK, Types
    <2> HIDE DEF tasks
    <2>3. PICK over \in SUBSET Slots : over = {t}
        OBVIOUS
    <2>4. Ends({t}) /\ EndsPage
        BY <2>1, <2>2, <2>3, EndDoes DEF EndsPage
    <2>5. task'[t] = Idle /\ Witness({})
        BY <2>1, <2>4 DEF Ends, End
    <2> QED
        BY <1>1, <1>2, <2>4, <2>5
<1>3. CASE task[t].op # "ring"
    BY <1>1, <1>3, PutsIdle DEF CameraFails, Leaves
<1> QED
    BY <1>2, <1>3

LEMMA EndAnsweredDoes ==
    ASSUME KTypeOK, NEW t \in Slots, EndAnswered(t)
    PROVE  /\ \E ok \in BOOLEAN : Hears(t, ok) /\ ok = (task[t].op # "ring")
           /\ task[t].op \in {"cancel", "reject", "end", "ring"} /\ Awaits(task[t].at)
           /\ Ends({t}) /\ EndsPage /\ task'[t] = Idle
           /\ Witness(About(task[t]))
           /\ UNCHANGED <<sent, srv, gone, uninvited, hasty>>
<1>1. /\ \E ok \in BOOLEAN : Hears(t, ok) /\ ok = (task[t].op # "ring")
      /\ task[t].op \in {"cancel", "reject", "end", "ring"}
      /\ task[t].op = "ring" => task[t].at = "ring"
    BY DEF EndAnswered, Answered, Head1, Hears, At
<1>2. Awaits(task[t].at)
    BY <1>1 DEF KTypeOK, WellFormed, Route, Awaits, Tracks
<1> DEFINE tasks == [task EXCEPT ![t] = Idle]
<1>3. End(About(task[t]), tasks) /\ UNCHANGED <<sent, srv, gone, uninvited, hasty>>
    BY DEF EndAnswered, Rest, Quiet
<1>4. \A u \in Slots : tasks[u] = IF u \in {t} THEN Idle ELSE task[u]
    BY DEF KTypeOK, Types
<1> HIDE DEF tasks
<1>5. PICK over \in SUBSET Slots : over = {t}
    OBVIOUS
<1>6. Ends({t}) /\ EndsPage
    BY <1>3, <1>4, <1>5, EndDoes DEF EndsPage
<1>7. task'[t] = Idle /\ Witness(About(task[t]))
    BY <1>3, <1>6 DEF Ends, End
<1> QED
    BY <1>1, <1>2, <1>3, <1>6, <1>7

LEMMA NothingDoneDoes ==
    ASSUME KTypeOK, NEW t \in Slots, NothingDone(t)
    PROVE  /\ \E ok \in BOOLEAN : Hears(t, ok) /\ ok = (task[t].op = "ring")
           /\ task[t].op \in {"reject", "end", "ring", "accept"} /\ Awaits(task[t].at)
           /\ Leaves(t) /\ task'[t] = Idle
           /\ UNCHANGED <<store, media, sent, strayed, touched, srv, gone, uninvited, hasty>>
<1>1. /\ \E ok \in BOOLEAN : Hears(t, ok) /\ ok = (task[t].op = "ring")
      /\ task[t].op \in {"reject", "end", "ring", "accept"}
      /\ task[t].op \in {"ring", "accept"} => task[t].at = task[t].op
    BY DEF NothingDone, Answered, Head1, Hears, At
<1>2. Awaits(task[t].at)
    BY <1>1 DEF KTypeOK, WellFormed, Route, Awaits, Tracks
<1>3. UNCHANGED <<store, media, sent, strayed, touched, srv, gone, uninvited, hasty>>
      /\ Put(t, Idle)
    BY DEF NothingDone, Rest, Quiet
<1> QED
    BY <1>1, <1>2, <1>3, PutsIdle DEF Leaves

LEMMA AcceptedDoes ==
    ASSUME KTypeOK, NEW t \in Slots, Accepted(t)
    PROVE  /\ task[t].op = "accept" /\ task[t].at = "accept" /\ Hears(t, TRUE) /\ Leaves(t)
           /\ task[t].room \in Chats /\ store.room \in Rooms
           /\ Continued(t) /\ task'[t].at = "existing" /\ task'[t].request = "sent"
           /\ task'[t].closed = task[t].closed
           /\ store' \in StoreType /\ store'.state = "inCall" /\ store'.room = store.room
           /\ store'.people = store.people /\ store'.stream = store.stream
           /\ store'.enabled = store.enabled /\ store'.shown = store.shown
           /\ store'.sharing = store.sharing
           /\ Witness({task[t].room}) /\ strayed \subseteq strayed' /\ Placed'
           /\ touched' = (touched \/ task[t].crossed \/ store.room # task[t].room)
           /\ UNCHANGED <<media, sent, srv, gone, uninvited, hasty>>
<1>1. task[t].op = "accept" /\ task[t].at = "accept" /\ Hears(t, TRUE)
      /\ Put(t, Asking(task[t], "existing"))
    BY DEF Accepted, At, Answered, Head1, Hears
<1>2. /\ store' = SetCallState(store, "inCall", NoRoom) /\ Witness({task[t].room})
      /\ strayed \subseteq strayed'
      /\ touched' = (touched \/ task[t].crossed \/ store.room # task[t].room)
    BY DEF Accepted, Witness
<1>3. store \in StoreType /\ "inCall" \in States
    BY DEF KTypeOK, Types, States
<1>4. /\ store' \in StoreType /\ store'.state = "inCall" /\ store'.room = store.room
      /\ store'.people = store.people /\ store'.stream = store.stream
      /\ store'.enabled = store.enabled /\ store'.shown = store.shown
      /\ store'.sharing = store.sharing
    BY <1>2, <1>3, SetIs
<1>5. task[t] \in TaskType /\ WellFormed(task[t]) /\ Sited(task[t])
    BY FitsIs
<1>6. task[t].room \in Chats /\ store.room \in Rooms
    BY <1>1, <1>5 DEF Sited, KTypeOK, Roomed
<1>7. Placed'
    BY <1>4, <1>6 DEF Placed, Live
<1>8. "existing" \in Steps /\ Route(task[t].op, "existing") /\ Awaits("existing")
    BY <1>1 DEF Steps, Route, Awaits
<1>9. Leaves(t) /\ Continued(t) /\ task'[t].at = "existing" /\ task'[t].request = "sent"
      /\ task'[t].closed = task[t].closed
    BY <1>1, <1>5, <1>8, PutsAsking DEF Leaves, Continued
<1>10. UNCHANGED <<media, sent, srv, gone, uninvited, hasty>>
    BY DEF Accepted, Rest, Quiet
<1> QED
    BY <1>1, <1>2, <1>4, <1>6, <1>7, <1>9, <1>10

LEMMA ExistingDoes ==
    ASSUME KTypeOK, NEW t \in Slots, Existing(t)
    PROVE  /\ task[t].op = "accept" /\ task[t].at = "existing" /\ Hears(t, TRUE) /\ Leaves(t)
           /\ task'[t] = Idle
           /\ store' \in StoreType /\ store'.state = store.state /\ store'.room = store.room
           /\ store'.people = store.people \union task[t].left /\ store'.stream = store.stream
           /\ store'.enabled = store.enabled /\ store'.shown = store.shown
           /\ store'.sharing = store.sharing
           /\ Placed' /\ touched' = (touched \/ task[t].crossed)
           /\ UNCHANGED <<media, sent, strayed, srv, gone, uninvited, hasty>>
<1>1. task[t].op = "accept" /\ task[t].at = "existing" /\ Hears(t, TRUE) /\ Put(t, Idle)
    BY DEF Existing, At, Answered, Head1, Hears
<1>2. store \in StoreType /\ store.people \union task[t].left \subseteq People
    BY TaskFields DEF KTypeOK, Types, StoreType
<1>3. store' = [store EXCEPT !.people = store.people \union task[t].left]
      /\ touched' = (touched \/ task[t].crossed)
    BY DEF Existing, Touch
<1>4. PICK p \in SUBSET People : p = store.people \union task[t].left
    BY <1>2
<1>5. /\ store' \in StoreType /\ store'.state = store.state /\ store'.room = store.room
      /\ store'.people = p /\ store'.stream = store.stream
      /\ store'.enabled = store.enabled /\ store'.shown = store.shown
      /\ store'.sharing = store.sharing
    BY <1>2, <1>3, <1>4, PeopleIs
<1>6. Placed'
    BY <1>5 DEF Placed, KTypeOK
<1>7. UNCHANGED <<media, sent, strayed, srv, gone, uninvited, hasty>>
    BY DEF Existing, Rest, Quiet
<1> QED
    BY <1>1, <1>3, <1>4, <1>5, <1>6, <1>7, PutsIdle DEF Leaves

LEMMA TurnedDoes ==
    ASSUME KTypeOK, NEW t \in Slots, Turned(t)
    PROVE  /\ task[t].op \in Tracks /\ task[t].at = "turn" /\ Hears(t, TRUE) /\ Leaves(t)
           /\ task'[t] = Idle
           /\ store' \in StoreType /\ store'.state = store.state /\ store'.room = store.room
           /\ store'.people = store.people /\ store'.stream = store.stream
           /\ store'.enabled = store.enabled
           /\ store'.shown = [store.shown EXCEPT ![task[t].op] = task[t].flag]
           /\ store'.sharing = store.sharing /\ Placed'
           /\ UNCHANGED <<media, sent, strayed, touched, srv, gone, uninvited, hasty>>
<1>1. task[t].op \in Tracks /\ task[t].at = "turn" /\ Hears(t, TRUE) /\ Put(t, Idle)
    BY DEF Turned, Answered, Head1, Hears
<1>2. store \in StoreType /\ task[t].flag \in BOOLEAN
    BY TaskFields DEF KTypeOK, Types
<1>3. /\ store' \in StoreType /\ store'.state = store.state /\ store'.room = store.room
      /\ store'.people = store.people /\ store'.stream = store.stream
      /\ store'.enabled = store.enabled
      /\ store'.shown = [store.shown EXCEPT ![task[t].op] = task[t].flag]
      /\ store'.sharing = store.sharing
    BY <1>1, <1>2, ShownIs DEF Turned
<1>4. Placed'
    BY <1>3 DEF Placed, KTypeOK
<1>5. UNCHANGED <<media, sent, strayed, touched, srv, gone, uninvited, hasty>>
    BY DEF Turned, Rest, Quiet
<1> QED
    BY <1>1, <1>3, <1>4, <1>5, PutsIdle DEF Leaves
LEMMA ScreenProducedDoes ==
    ASSUME KTypeOK, NEW t \in Slots, ScreenProduced(t)
    PROVE  /\ task[t].op = "share" /\ task[t].at = "screen" /\ Hears(t, TRUE) /\ Leaves(t)
           /\ \/ task[t].closed /\ task'[t] = Idle /\ media' = media
              \/ /\ ~task[t].closed /\ Continued(t) /\ task'[t].at = "shared"
                 /\ task'[t].request = "sent" /\ task'[t].closed = task[t].closed
                 /\ media' \in MediaType /\ media'.device = media.device
                 /\ media'.send = media.send /\ media'.recv = media.recv
                 /\ media'.consumers = media.consumers
                 /\ media'.producers = [media.producers EXCEPT !["screen"] = "on"]
           /\ UNCHANGED <<store, sent, strayed, touched, srv, gone, uninvited, hasty>>
<1>1. task[t].op = "share" /\ task[t].at = "screen" /\ Hears(t, TRUE)
    BY DEF ScreenProduced, At, Answered, Head1, Hears
<1>2. UNCHANGED <<store, sent, strayed, touched, srv, gone, uninvited, hasty>>
    BY DEF ScreenProduced, Rest, Quiet
<1>3. CASE task[t].closed
    <2>1. Put(t, Idle) /\ media' = media
        BY <1>3 DEF ScreenProduced
    <2> QED
        BY <1>1, <1>2, <1>3, <2>1, PutsIdle DEF Leaves
<1>4. CASE ~task[t].closed
    <2>1. Put(t, Asking(task[t], "shared")) /\ media' = [media EXCEPT !.producers["screen"] = "on"]
        BY <1>4 DEF ScreenProduced, SetScreen
    <2>2. task[t] \in TaskType /\ Sited(task[t]) /\ "shared" \in Steps
          /\ Route(task[t].op, "shared") /\ Awaits("shared")
        BY <1>1, FitsIs DEF Steps, Route, Awaits
    <2>3. Leaves(t) /\ Continued(t) /\ task'[t].at = "shared" /\ task'[t].request = "sent"
          /\ task'[t].closed = task[t].closed
        BY <2>1, <2>2, PutsAsking DEF Leaves, Continued
    <2>4. media \in MediaType /\ "screen" \in Produced
        BY DEF KTypeOK, Types, Produced
    <2>5. /\ media' \in MediaType /\ media'.device = media.device
          /\ media'.send = media.send /\ media'.recv = media.recv
          /\ media'.consumers = media.consumers
          /\ media'.producers = [media.producers EXCEPT !["screen"] = "on"]
        BY <2>1, <2>4, ProducersChange
    <2> QED
        BY <1>1, <1>2, <1>4, <2>3, <2>5
<1> QED
    BY <1>3, <1>4

LEMMA SharedDoes ==
    ASSUME KTypeOK, NEW t \in Slots, Shared(t)
    PROVE  /\ task[t].op = "share" /\ task[t].at = "shared" /\ Hears(t, TRUE) /\ Leaves(t)
           /\ task'[t] = Idle
           /\ store' \in StoreType /\ store'.state = store.state /\ store'.room = store.room
           /\ store'.people = store.people /\ store'.stream = store.stream
           /\ store'.enabled = store.enabled /\ store'.shown = store.shown
           /\ Placed' /\ touched' = (touched \/ task[t].crossed)
           /\ UNCHANGED <<media, sent, strayed, srv, gone, uninvited, hasty>>
<1>1. task[t].op = "share" /\ task[t].at = "shared" /\ Hears(t, TRUE) /\ Put(t, Idle)
    BY DEF Shared, At, Answered, Head1, Hears
<1>2. store \in StoreType /\ task[t].flag \in BOOLEAN
    BY TaskFields DEF KTypeOK, Types
<1>3. /\ store' \in StoreType /\ store'.state = store.state /\ store'.room = store.room
      /\ store'.people = store.people /\ store'.stream = store.stream
      /\ store'.enabled = store.enabled /\ store'.shown = store.shown
    BY <1>2, SharingIs DEF Shared
<1>4. Placed'
    BY <1>3 DEF Placed, KTypeOK
<1>5. touched' = (touched \/ task[t].crossed)
      /\ UNCHANGED <<media, sent, strayed, srv, gone, uninvited, hasty>>
    BY DEF Shared, Rest, Quiet, Touch
<1> QED
    BY <1>1, <1>3, <1>4, <1>5, PutsIdle DEF Leaves

LEMMA ScreenChosenDoes ==
    ASSUME KTypeOK, NEW t \in Slots, ScreenChosen(t)
    PROVE  /\ task[t].op = "share" /\ task[t].at = "camera" /\ Leaves(t)
           /\ \/ task'[t] = Idle
              \/ /\ media.send # NoRoom /\ Continued(t) /\ task'[t].at = "screen"
                 /\ task'[t].request = "sent" /\ task'[t].closed = FALSE
           /\ UNCHANGED <<store, media, inbox, sent, strayed, touched, srv, gone, uninvited, hasty>>
<1>1. task[t].op = "share" /\ task[t].at = "camera"
      /\ UNCHANGED <<store, media, inbox, sent, strayed, touched, srv, gone, uninvited, hasty>>
    BY DEF ScreenChosen, At, Rest, Quiet
<1>2. CASE Put(t, Idle)
    BY <1>1, <1>2, PutsIdle DEF Leaves
<1>3. CASE media.send # NoRoom /\ Put(t, Asking([task[t] EXCEPT !.closed = FALSE], "screen"))
    <2> DEFINE k == [task[t] EXCEPT !.closed = FALSE]
    <2>1. task[t] \in TaskType /\ Sited(task[t])
        BY FitsIs
    <2>2. /\ k \in TaskType /\ k.op = task[t].op /\ k.room = task[t].room /\ k.left = task[t].left
          /\ k.flag = task[t].flag /\ k.live = task[t].live /\ k.crossed = task[t].crossed
          /\ k.closed = FALSE
        BY <2>1, ClosedIs
    <2>3. Put(t, Asking(k, "screen"))
        BY <1>3
    <2> HIDE DEF k
    <2>4. "screen" \in Steps /\ Route(k.op, "screen") /\ Awaits("screen") /\ Sited(k)
        BY <1>1, <2>1, <2>2 DEF Steps, Route, Awaits, Sited
    <2>5. /\ Leaves(t) /\ task'[t].op = k.op /\ task'[t].at = "screen" /\ task'[t].room = k.room
          /\ task'[t].left = k.left /\ task'[t].flag = k.flag /\ task'[t].live = k.live
          /\ task'[t].request = "sent" /\ task'[t].crossed = k.crossed
          /\ task'[t].closed = k.closed
        BY <2>2, <2>3, <2>4, PutsAsking DEF Leaves
    <2> QED
        BY <1>1, <1>3, <2>2, <2>5 DEF Continued
<1> QED
    BY <1>2, <1>3 DEF ScreenChosen

LEMMA ConsumedDoes ==
    ASSUME KTypeOK, NEW t \in Slots, Consumed(t)
    PROVE  /\ task[t].op = "consume" /\ task[t].at = "consume" /\ task[t].room \in Rooms
           /\ inbox # <<>> /\ Take /\ Head(inbox).ev = "answer" /\ Head(inbox).room = t
           /\ Leaves(t)
           /\ media' = IF Head(inbox).who = {} \/ task[t].closed THEN media
                       ELSE CreateConsumer(media, task[t].room, Head(inbox).who)
           /\ media' \in MediaType /\ media'.device = media.device
           /\ media'.send = media.send /\ media'.recv = media.recv
           /\ media'.producers = media.producers
           /\ \/ task[t].left = {} /\ task'[t] = Idle
              \/ /\ task[t].left # {} /\ Continued(t) /\ task'[t].at = "consume"
                 /\ task'[t].request = "sent" /\ task'[t].closed = task[t].closed
           /\ UNCHANGED <<store, sent, strayed, touched, srv, gone, uninvited, hasty>>
<1>1. /\ task[t].op = "consume" /\ inbox # <<>> /\ Take
      /\ Head(inbox).ev = "answer" /\ Head(inbox).room = t
    BY DEF Consumed, Head1
<1>2. task[t] \in TaskType /\ WellFormed(task[t]) /\ Sited(task[t])
    BY FitsIs
<1>3. task[t].at = "consume" /\ task[t].room \in Rooms
    BY <1>1, <1>2 DEF WellFormed, Route, Sited, Tracks
<1>4. /\ media' = IF Head(inbox).who = {} \/ task[t].closed THEN media
                  ELSE CreateConsumer(media, task[t].room, Head(inbox).who)
      /\ Put(t, IF task[t].left = {} THEN Idle ELSE Asking(task[t], "consume"))
      /\ UNCHANGED <<store, sent, strayed, touched, srv, gone, uninvited, hasty>>
    BY DEF Consumed, Rest, Quiet
<1>5. /\ media' \in MediaType /\ media'.device = media.device
      /\ media'.send = media.send /\ media'.recv = media.recv
      /\ media'.producers = media.producers
    <2>1. media \in MediaType
        BY DEF KTypeOK, Types
    <2> QED
        BY <1>3, <1>4, <2>1, ConsumerIs
<1>6. CASE task[t].left = {}
    BY <1>1, <1>3, <1>4, <1>5, <1>6, PutsIdle DEF Leaves
<1>7. CASE task[t].left # {}
    <2>1. Put(t, Asking(task[t], "consume"))
        BY <1>4, <1>7
    <2>2. "consume" \in Steps /\ Route(task[t].op, "consume") /\ Awaits("consume")
        BY <1>1 DEF Steps, Route, Awaits
    <2>3. Leaves(t) /\ Continued(t) /\ task'[t].at = "consume" /\ task'[t].request = "sent"
          /\ task'[t].closed = task[t].closed
        BY <1>2, <2>1, <2>2, PutsAsking DEF Leaves, Continued
    <2> QED
        BY <1>1, <1>3, <1>4, <1>5, <1>7, <2>3
<1> QED
    BY <1>6, <1>7

-----------------------------------------------------------------------------
(* Events and clicks                                                       *)

\* The first event is taken, and is no answer.
Takes(ev) == inbox # <<>> /\ Take /\ Head(inbox).ev = ev /\ UNCHANGED <<sent, srv>>

LEMMA HeadIs ==
    ASSUME KTypeOK, inbox # <<>>
    PROVE  Head(inbox) \in Message /\ Head(inbox) = inbox[1] /\ 1 \in 1..Len(inbox)
           /\ Len(inbox) \in Nat \ {0}
<1>1. Len(inbox) \in Nat \ {0} /\ Head(inbox) = inbox[1] /\ inbox[1] \in Message
    BY HeadTailProperties, EmptySeq, ElementOfSeq, LenProperties DEF KTypeOK, Types
<1> QED
    BY <1>1

LEMMA SuccessDoes ==
    ASSUME KTypeOK, Success
    PROVE  /\ Takes("success") /\ Head(inbox).room \in Rooms
           /\ UNCHANGED <<touched, gone, uninvited, hasty>>
           /\ \E k : /\ k = Task("setup", Head(inbox).room) /\ Fresh(k)
                     /\ k.op = "setup" /\ k.room = Head(inbox).room /\ ~k.crossed
                     /\ k.closed = FALSE /\ Begin(k)
<1>1. Takes("success") /\ UNCHANGED <<touched, gone, uninvited, hasty>>
      /\ Begin(Task("setup", Head(inbox).room))
    BY DEF Success, Incoming, Head1, Takes, Quiet
<1>2. Head(inbox).room \in Rooms
    BY <1>1, HeadIs, MessageFields DEF Takes
<1>3. PICK k : k = Task("setup", Head(inbox).room)
    OBVIOUS
<1>4. /\ k \in TaskType /\ k.op = "setup" /\ k.at = "camera" /\ k.room = Head(inbox).room
      /\ k.request = "none" /\ k.crossed = FALSE /\ k.closed = FALSE
    <2>1. "setup" \in Ops /\ Head(inbox).room \in Rooms \union {NoRoom}
        BY <1>2 DEF Ops
    <2> QED
        BY <1>3, <2>1 DEF Task, Idle, TaskType, Ops, Steps
<1>5. Fresh(k)
    BY <1>2, <1>4 DEF Fresh, Sited
<1> QED
    BY <1>1, <1>2, <1>3, <1>4, <1>5

LEMMA NewProducerDoes ==
    ASSUME KTypeOK, NewProducer
    PROVE  /\ Takes("new")
           /\ UNCHANGED <<store, media, strayed, touched, gone, uninvited, hasty>>
           /\ \/ (media.recv = NoRoom \/ store.room = NoRoom) /\ UNCHANGED task
              \/ /\ media.recv # NoRoom /\ store.room \in Rooms
                 /\ \E t \in Slots :
                       /\ task[t] = Idle /\ Leaves(t)
                       /\ LET n == task'[t] IN
                          /\ n.op = "consume" /\ n.at = "consume" /\ n.room = store.room
                          /\ n.left = Head(inbox).who /\ n.request = "sent"
                          /\ n.crossed = FALSE /\ n.closed = FALSE
<1>1. Takes("new") /\ UNCHANGED <<store, media, strayed, touched, gone, uninvited, hasty>>
    BY DEF NewProducer, Incoming, Head1, Takes, Quiet
<1>2. CASE media.recv = NoRoom \/ store.room = NoRoom
    BY <1>1, <1>2 DEF NewProducer
<1>3. CASE ~(media.recv = NoRoom \/ store.room = NoRoom)
    <2> DEFINE k == [Task("consume", store.room) EXCEPT !.left = Head(inbox).who]
    <2>1. FreeSlots # {} /\ Put(Slot, Asking(k, "consume"))
        BY <1>3 DEF NewProducer
    <2>2. PICK t \in Slots : t = Slot /\ task[t] = Idle
        BY <2>1, SlotIs
    <2>3. Head(inbox).who \in SUBSET People
        BY <1>1, HeadIs, MessageFields DEF Takes
    <2>4. store.room \in Rooms
        BY <1>3 DEF KTypeOK, Types, StoreType
    <2>5. PICK n : n = Task("consume", store.room)
        OBVIOUS
    <2>6. /\ n \in TaskType /\ n.op = "consume" /\ n.room = store.room /\ n.crossed = FALSE
          /\ n.closed = FALSE
        <3>1. "consume" \in Ops /\ store.room \in Rooms \union {NoRoom}
            BY <2>4 DEF Ops
        <3> QED
            BY <2>5, <3>1 DEF Task, Idle, TaskType, Ops, Steps
    <2>7. /\ k \in TaskType /\ k.op = "consume" /\ k.room = store.room /\ k.crossed = FALSE
          /\ k.closed = FALSE /\ k.left = Head(inbox).who
        BY <2>3, <2>5, <2>6, LeftIs
    <2> HIDE DEF k
    <2>8. "consume" \in Steps /\ Route(k.op, "consume") /\ Awaits("consume") /\ Sited(k)
        BY <2>4, <2>7 DEF Steps, Route, Awaits, Sited
    <2>9. /\ Leaves(t) /\ task'[t].op = k.op /\ task'[t].at = "consume"
          /\ task'[t].room = k.room /\ task'[t].left = k.left /\ task'[t].request = "sent"
          /\ task'[t].crossed = k.crossed /\ task'[t].closed = k.closed
        BY <2>1, <2>2, <2>7, <2>8, PutsAsking DEF Leaves
    <2> QED
        BY <1>1, <1>3, <2>2, <2>4, <2>7, <2>9
<1> QED
    BY <1>2, <1>3

LEMMA OverDoes ==
    ASSUME KTypeOK, Over
    PROVE  /\ Takes("over") /\ Ends({}) /\ EndsPage /\ Witness({Head(inbox).room})
           /\ UNCHANGED <<gone, uninvited, hasty>>
<1>1. Takes("over") /\ End({Head(inbox).room}, task) /\ UNCHANGED <<gone, uninvited, hasty>>
    BY DEF Over, Incoming, Head1, Takes, Quiet
<1>2. PICK over \in SUBSET Slots : over = {}
    OBVIOUS
<1>3. Ends({}) /\ EndsPage
    BY <1>1, <1>2, EndDoes DEF EndsPage
<1> QED
    BY <1>1, <1>3 DEF End

LEMMA RingsDoes ==
    ASSUME KTypeOK, Rings
    PROVE  /\ Takes("incoming") /\ Head(inbox).room \in Chats
           /\ store' \in StoreType /\ store'.state = "inComing"
           /\ store'.room = Head(inbox).room
           /\ store'.people = store.people /\ store'.stream = store.stream
           /\ store'.enabled = store.enabled /\ store'.shown = store.shown
           /\ store'.sharing = store.sharing /\ Placed'
           /\ Witness({Head(inbox).room}) /\ strayed \subseteq strayed'
           /\ UNCHANGED <<media, task, touched, gone, uninvited, hasty>>
<1>1. /\ Takes("incoming") /\ store' = SetCallState(store, "inComing", Head(inbox).room)
      /\ Witness({Head(inbox).room}) /\ strayed \subseteq strayed'
      /\ UNCHANGED <<media, task, touched, gone, uninvited, hasty>>
    BY DEF Rings, Incoming, Head1, Takes, Quiet, Witness
<1>2. Head(inbox).room \in Chats
    BY <1>1, HeadIs, MessageFields DEF Takes
<1>3. PICK r \in Rooms : r = Head(inbox).room
    BY <1>2 DEF Rooms
<1>4. store \in StoreType /\ "inComing" \in States /\ r # NoRoom
    BY MediaClientAssumption DEF KTypeOK, Types, States
<1>5. /\ store' \in StoreType /\ store'.state = "inComing" /\ store'.room = r
      /\ store'.people = store.people /\ store'.stream = store.stream
      /\ store'.enabled = store.enabled /\ store'.shown = store.shown
      /\ store'.sharing = store.sharing
    BY <1>1, <1>3, <1>4, SetIs
<1>6. Placed'
    BY <1>2, <1>3, <1>5 DEF Placed, Live
<1> QED
    BY <1>1, <1>2, <1>3, <1>5, <1>6

LEMMA ComesDoes ==
    ASSUME KTypeOK, UserJoined \/ UserLeft
    PROVE  /\ Takes("joined") \/ Takes("left")
           /\ Head(inbox).who \in People /\ Head(inbox).room \in Rooms
           /\ store' \in StoreType /\ store'.state = store.state /\ store'.room = store.room
           /\ store'.people = (IF Head(inbox).ev = "joined" THEN store.people \union {Head(inbox).who}
                               ELSE store.people \ {Head(inbox).who})
           /\ store'.stream = store.stream
           /\ store'.enabled = store.enabled /\ store'.shown = store.shown
           /\ store'.sharing = store.sharing /\ Placed'
           /\ UNCHANGED <<media, task, strayed, touched, hasty>>
<1>1. /\ Takes("joined") \/ Takes("left")
      /\ UNCHANGED <<media, task, strayed, touched, hasty>>
    BY DEF UserJoined, UserLeft, Incoming, Head1, Takes
<1>2. Head(inbox).who \in People /\ Head(inbox).room \in Rooms
    BY <1>1, HeadIs, MessageFields DEF Takes
<1>3. store \in StoreType /\ store.people \subseteq People
    BY DEF KTypeOK, Types, StoreType
<1>4. PICK p \in SUBSET People :
          p = (IF Head(inbox).ev = "joined" THEN store.people \union {Head(inbox).who}
               ELSE store.people \ {Head(inbox).who})
    BY <1>2, <1>3
<1>5. store' = [store EXCEPT !.people = p]
    BY <1>4 DEF UserJoined, UserLeft, AddParticipant, RemoveParticipant, Incoming, Head1
<1>6. /\ store' \in StoreType /\ store'.state = store.state /\ store'.room = store.room
      /\ store'.people = p /\ store'.stream = store.stream
      /\ store'.enabled = store.enabled /\ store'.shown = store.shown
      /\ store'.sharing = store.sharing
    BY <1>3, <1>5, PeopleIs
<1>7. Placed'
    BY <1>6 DEF Placed, KTypeOK
<1> QED
    BY <1>1, <1>2, <1>4, <1>6, <1>7
\* A request that is sent at once, in a free slot.
Requests(op, at, room) ==
    /\ \E t \in Slots :
          /\ task[t] = Idle /\ Leaves(t)
          /\ LET n == task'[t] IN
             /\ n.op = op /\ n.at = at /\ n.room = room /\ n.left = {} /\ n.request = "sent"
             /\ n.crossed = FALSE /\ n.closed = FALSE
    /\ UNCHANGED <<store, media, sent, strayed>>

LEMMA RequestDoes ==
    ASSUME KTypeOK, NEW op \in Ops, NEW at \in Steps, NEW room \in Rooms \union {NoRoom},
           Request(Task(op, room), at), Route(op, at), Awaits(at),
           op \in {"reject", "end", "accept"} => room \in Chats,
           op \in {"cancel", "reject", "end", "accept"}
    PROVE  Requests(op, at, room)
<1>1. PICK k : k = Task(op, room)
    OBVIOUS
<1>2. /\ k \in TaskType /\ k.op = op /\ k.room = room /\ k.left = {} /\ k.crossed = FALSE
      /\ k.closed = FALSE
    BY <1>1 DEF Task, Idle, TaskType, Steps
<1>3. FreeSlots # {} /\ Put(Slot, Asking(k, at)) /\ UNCHANGED <<store, media, sent, strayed>>
    BY <1>1 DEF Request
<1>4. PICK t \in Slots : t = Slot /\ task[t] = Idle
    BY <1>3, SlotIs
<1>5. Route(k.op, at) /\ Sited(k)
    BY <1>2 DEF Sited
<1>6. /\ Leaves(t) /\ task'[t].op = k.op /\ task'[t].at = at
      /\ task'[t].room = k.room /\ task'[t].left = k.left /\ task'[t].request = "sent"
      /\ task'[t].crossed = k.crossed /\ task'[t].closed = k.closed
    BY <1>2, <1>3, <1>4, <1>5, PutsAsking DEF Leaves
<1> QED
    BY <1>2, <1>3, <1>4, <1>6 DEF Requests

Clicked == UNCHANGED <<inbox, srv, touched, gone, uninvited>>

LEMMA RequestsDo ==
    ASSUME KTypeOK, ClickCancel \/ ClickAccept \/ ClickReject \/ ClickEndCall
    PROVE  /\ Clicked /\ UNCHANGED hasty
           /\ \/ store.state = "inMatchWait" /\ Requests("cancel", "cancel", NoRoom)
              \/ /\ store.state = "inComing" /\ store.room \in Chats
                 /\ \/ Requests("accept", "accept", store.room)
                    \/ Requests("reject", "reject", store.room)
              \/ /\ store.state = "outGoing" /\ store.room \in Chats
                 /\ Requests("end", "end", store.room)
<1>1. Clicked /\ UNCHANGED hasty
    BY DEF ClickCancel, ClickAccept, ClickReject, ClickEndCall, Click, ClickIn, Clicked
<1>2. store.state \in {"inComing", "outGoing"} => store.room \in Chats
    BY DEF KTypeOK, Placed
<1>3. PICK room \in Rooms \union {NoRoom} : room = store.room
    BY DEF KTypeOK, Types, StoreType
<1>4. CASE ClickCancel
    <2>1. store.state = "inMatchWait" /\ Request(Task("cancel", NoRoom), "cancel")
        BY <1>4 DEF ClickCancel, Click, ClickIn
    <2>2. Route("cancel", "cancel") /\ Awaits("cancel") /\ "cancel" \in Ops /\ "cancel" \in Steps
        BY DEF Route, Awaits, Ops, Steps
    <2> QED
        BY <1>1, <2>1, <2>2, RequestDoes
<1>5. CASE ClickAccept
    <2>1. store.state = "inComing" /\ Request(Task("accept", room), "accept")
        BY <1>3, <1>5 DEF ClickAccept, Click, ClickIn
    <2>2. Route("accept", "accept") /\ Awaits("accept") /\ "accept" \in Ops /\ "accept" \in Steps
        BY DEF Route, Awaits, Ops, Steps
    <2>3. Requests("accept", "accept", room)
        BY <1>2, <1>3, <2>1, <2>2, RequestDoes
    <2> QED
        BY <1>1, <1>2, <1>3, <2>1, <2>3
<1>6. CASE ClickReject
    <2>1. store.state = "inComing" /\ Request(Task("reject", room), "reject")
        BY <1>3, <1>6 DEF ClickReject, Click, ClickIn
    <2>2. Route("reject", "reject") /\ Awaits("reject") /\ "reject" \in Ops /\ "reject" \in Steps
        BY DEF Route, Awaits, Ops, Steps
    <2>3. Requests("reject", "reject", room)
        BY <1>2, <1>3, <2>1, <2>2, RequestDoes
    <2> QED
        BY <1>1, <1>2, <1>3, <2>1, <2>3
<1>7. CASE ClickEndCall
    <2>1. store.state = "outGoing" /\ Request(Task("end", room), "end")
        BY <1>3, <1>7 DEF ClickEndCall, Click, ClickIn
    <2>2. Route("end", "end") /\ Awaits("end") /\ "end" \in Ops /\ "end" \in Steps
        BY DEF Route, Awaits, Ops, Steps
    <2>3. Requests("end", "end", room)
        BY <1>2, <1>3, <2>1, <2>2, RequestDoes
    <2> QED
        BY <1>1, <1>2, <1>3, <2>1, <2>3
<1> QED
    BY <1>4, <1>5, <1>6, <1>7

\* The functions a click begins, perhaps with the camera first.
LEMMA ClicksBegin ==
    ASSUME KTypeOK, \/ ClickMatch \/ \E c \in Chats : ClickRing(c)
                    \/ \E kind \in Tracks : ClickToggle(kind)
    PROVE  /\ Clicked /\ UNCHANGED sent /\ hasty \subseteq hasty'
           /\ \E k : /\ Fresh(k) /\ Begin(k) /\ k.crossed = FALSE /\ k.closed = FALSE
                     /\ k.op \in {"match", "ring"} \union Tracks
                     /\ k.op = "match" => store.state \notin {"inCall", "inMatch", "inMatchWait"}
                     /\ k.op = "ring" => store.state = "ended"
                     /\ k.op \in Tracks => k.flag = store.shown[k.op]
                     /\ \A t \in Slots : k.op \in Tracks /\ task[t].op = k.op => k.op \in hasty'
<1>1. CASE ClickMatch
    <2>1. /\ Clicked /\ UNCHANGED <<sent, hasty>> /\ Begin(Task("match", NoRoom))
          /\ store.state \notin {"inCall", "inMatch", "inMatchWait"}
        BY <1>1 DEF ClickMatch, Click, ClickIn, Clicked
    <2>2. PICK k : k = Task("match", NoRoom)
        OBVIOUS
    <2>3. /\ k \in TaskType /\ k.op = "match" /\ k.at = "camera" /\ k.request = "none"
          /\ k.crossed = FALSE /\ k.closed = FALSE
        BY <2>2 DEF Task, Idle, TaskType, Ops, Steps
    <2>4. Fresh(k)
        BY <2>3 DEF Fresh, Sited
    <2>5. k.op \notin Tracks
        BY <2>3 DEF Tracks
    <2> QED
        BY <2>1, <2>2, <2>3, <2>4, <2>5
<1>2. ASSUME NEW c \in Chats, ClickRing(c)
      PROVE  /\ Clicked /\ UNCHANGED <<sent, hasty>> /\ store.state = "ended"
             /\ \E k : /\ Fresh(k) /\ Begin(k) /\ k.op = "ring"
                       /\ k.crossed = FALSE /\ k.closed = FALSE
    <2>1. /\ Clicked /\ UNCHANGED <<sent, hasty>> /\ Begin(Task("ring", c))
          /\ store.state = "ended"
        BY <1>2 DEF ClickRing, Click, ClickIn, Clicked
    <2>2. PICK k : k = Task("ring", c)
        OBVIOUS
    <2>3. /\ k \in TaskType /\ k.op = "ring" /\ k.at = "camera" /\ k.request = "none"
          /\ k.room = c /\ k.crossed = FALSE /\ k.closed = FALSE
        BY <2>2 DEF Task, Idle, TaskType, Ops, Steps, Rooms
    <2>4. Fresh(k)
        BY <2>3 DEF Fresh, Sited
    <2> QED
        BY <2>1, <2>2, <2>3, <2>4
<1>3. ASSUME NEW kind \in Tracks, ClickToggle(kind)
      PROVE  /\ Clicked /\ UNCHANGED sent /\ hasty \subseteq hasty'
             /\ \E k : /\ Fresh(k) /\ Begin(k) /\ k.op = kind /\ k.flag = store.shown[kind]
                       /\ k.crossed = FALSE /\ k.closed = FALSE
             /\ \A t \in Slots : task[t].op = kind => kind \in hasty'
    <2>1. /\ Clicked /\ UNCHANGED sent
          /\ hasty' = IF Running({kind}) THEN hasty \union {kind} ELSE hasty
        BY <1>3 DEF ClickToggle, ClickIn, Clicked
    <2>2. (store.state \in Live) \in BOOLEAN
        OBVIOUS
    <2>3. PICK room \in Rooms \union {NoRoom}, flag \in BOOLEAN :
              room = store.room /\ flag = store.shown[kind]
        BY DEF KTypeOK, Types, StoreType
    <2>4. PICK k : k = [Task(kind, room) EXCEPT !.flag = flag, !.live = store.state \in Live]
        OBVIOUS
    <2>5. Begin(k)
        BY <1>3, <2>3, <2>4 DEF ClickToggle
    <2>6. /\ k \in TaskType /\ k.op = kind /\ k.at = "camera" /\ k.request = "none"
          /\ k.flag = flag /\ k.crossed = FALSE /\ k.closed = FALSE
        BY <2>2, <2>4 DEF Task, Idle, TaskType, Ops, Steps, Tracks
    <2>7. Fresh(k)
        BY <2>6 DEF Fresh, Sited, Tracks
    <2>8. \A t \in Slots : task[t].op = kind => kind \in hasty'
        BY <2>1 DEF Running
    <2> QED
        BY <2>1, <2>3, <2>5, <2>6, <2>7, <2>8
<1>4. CASE \E c \in Chats : ClickRing(c)
    <2>1. PICK c \in Chats : ClickRing(c)
        BY <1>4
    <2>2. PICK k : Fresh(k) /\ Begin(k) /\ k.op = "ring" /\ k.crossed = FALSE /\ k.closed = FALSE
        BY <1>2, <2>1
    <2>3. k.op \notin Tracks
        BY <2>2 DEF Tracks
    <2>4. Clicked /\ UNCHANGED <<sent, hasty>> /\ store.state = "ended"
        BY <1>2, <2>1
    <2> QED
        BY <2>2, <2>3, <2>4
<1>5. CASE \E kind \in Tracks : ClickToggle(kind)
    <2>1. PICK kind \in Tracks : ClickToggle(kind)
        BY <1>5
    <2>2. PICK k : /\ Fresh(k) /\ Begin(k) /\ k.op = kind /\ k.flag = store.shown[kind]
                   /\ k.crossed = FALSE /\ k.closed = FALSE
        BY <1>3, <2>1
    <2>3. /\ Clicked /\ UNCHANGED sent /\ hasty \subseteq hasty'
          /\ \A t \in Slots : task[t].op = kind => kind \in hasty'
        BY <1>3, <2>1
    <2>4. k.op \notin {"match", "ring"}
        BY <2>1, <2>2 DEF Tracks
    <2> QED
        BY <2>1, <2>2, <2>3, <2>4
<1> QED
    BY <1>1, <1>4, <1>5

LEMMA HangUpDoes ==
    ASSUME KTypeOK, ClickHangUp
    PROVE  /\ store.state \in Live /\ store.room \in Rooms
           /\ sent' = sent \union {<<"leave", store.room>>}
                           \union (IF store.state = "inCall" THEN {<<"end", store.room>>} ELSE {})
           /\ Ends({}) /\ EndsPage /\ Witness({store.room})
           /\ UNCHANGED <<inbox, srv, gone, uninvited, hasty>>
<1>1. /\ store.state \in Live /\ End({store.room}, task)
      /\ sent' = sent \union {<<"leave", store.room>>}
                      \union (IF store.state = "inCall" THEN {<<"end", store.room>>} ELSE {})
      /\ UNCHANGED <<inbox, srv, gone, uninvited, hasty>>
    BY DEF ClickHangUp, Quiet
<1>2. PICK over \in SUBSET Slots : over = {}
    OBVIOUS
<1>3. Ends({}) /\ EndsPage
    BY <1>1, <1>2, EndDoes DEF EndsPage
<1> QED
    BY <1>1, <1>3 DEF End, KTypeOK, Placed

LEMMA ShareDoes ==
    ASSUME KTypeOK, StartShare \/ StopShare
    PROVE  /\ store.state \in Live /\ store.room \in Rooms
           /\ \E t \in Slots :
                 /\ task[t] = Idle /\ Leaves(t)
                 /\ LET n == task'[t] IN
                    /\ n.op = "share" /\ n.room = store.room /\ n.left = {}
                    /\ n.crossed = FALSE /\ n.closed = FALSE
                    /\ \/ n.at = "camera" /\ n.request = "none" /\ media' = media
                       \/ /\ n.at = "shared" /\ n.request = "sent"
                          /\ media' \in MediaType /\ media'.device = media.device
                          /\ media'.send = media.send /\ media'.recv = media.recv
                          /\ media'.consumers = media.consumers
                          /\ media'.producers = [media.producers EXCEPT !["screen"] = "none"]
           /\ UNCHANGED <<store, inbox, sent, srv, strayed, touched, gone, uninvited, hasty>>
<1>1. /\ store.state \in Live /\ FreeSlots # {}
      /\ UNCHANGED <<store, inbox, sent, srv, strayed, touched, gone, uninvited, hasty>>
    BY DEF StartShare, StopShare, Click, ClickIn, Quiet
<1>2. PICK room \in Rooms : room = store.room
    BY <1>1 DEF KTypeOK, Placed
<1>3. PICK t \in Slots : t = Slot /\ task[t] = Idle
    BY <1>1, SlotIs
<1>4. CASE StartShare
    <2>1. PICK k : k = [Task("share", room) EXCEPT !.flag = TRUE]
        OBVIOUS
    <2>2. Put(t, k) /\ media' = media
        BY <1>2, <1>3, <1>4, <2>1 DEF StartShare
    <2>3. /\ k \in TaskType /\ k.op = "share" /\ k.at = "camera" /\ k.room = room /\ k.left = {}
          /\ k.request = "none" /\ k.crossed = FALSE /\ k.closed = FALSE
        BY <2>1 DEF Task, Idle, TaskType, Ops, Steps
    <2>4. WellFormed(k)
        BY <2>3 DEF WellFormed, Route
    <2>5. Leaves(t) /\ task'[t] = k
        BY <2>2, <2>3, <2>4, PutsNew
    <2> QED
        BY <1>1, <1>2, <1>3, <2>2, <2>3, <2>5
<1>5. CASE StopShare
    <2>1. PICK k : k = Task("share", room)
        OBVIOUS
    <2>2. /\ Put(t, Asking(k, "shared"))
          /\ media' = [media EXCEPT !.producers["screen"] = "none"]
        BY <1>2, <1>3, <1>5, <2>1 DEF StopShare, CloseProducer
    <2>3. /\ k \in TaskType /\ k.op = "share" /\ k.room = room /\ k.left = {}
          /\ k.crossed = FALSE /\ k.closed = FALSE
        BY <2>1 DEF Task, Idle, TaskType, Ops, Steps
    <2>4. "shared" \in Steps /\ Route(k.op, "shared") /\ Awaits("shared") /\ Sited(k)
        BY <2>3 DEF Steps, Route, Awaits, Sited
    <2>5. /\ Leaves(t) /\ task'[t].op = k.op /\ task'[t].at = "shared"
          /\ task'[t].room = k.room /\ task'[t].left = k.left /\ task'[t].request = "sent"
          /\ task'[t].crossed = k.crossed /\ task'[t].closed = k.closed
        BY <2>2, <2>3, <2>4, PutsAsking DEF Leaves
    <2>6. media \in MediaType /\ "screen" \in Produced
        BY DEF KTypeOK, Types, Produced
    <2>7. /\ media' \in MediaType /\ media'.device = media.device
          /\ media'.send = media.send /\ media'.recv = media.recv
          /\ media'.consumers = media.consumers
          /\ media'.producers = [media.producers EXCEPT !["screen"] = "none"]
        BY <2>2, <2>6, ProducersChange
    <2> QED
        BY <1>1, <1>2, <1>3, <2>3, <2>5, <2>7
<1> QED
    BY <1>4, <1>5
-----------------------------------------------------------------------------
(* The server                                                              *)

LEMMA PointOfOne ==
    ASSUME NEW op, NEW at, Route(op, at)
    PROVE  /\ at \in {"match", "cancel", "ring", "accept", "reject", "end", "consume"} => op = at
           /\ at = "existing" => op = "accept"
           /\ at \in {"device", "load", "send", "recv", "video", "audio"} => op = "setup"
           /\ at \in {"screen", "shared"} => op = "share"
           /\ at = "turn" => op \in Tracks
           /\ at = "done" => op = "idle"
    BY DEF Route, Tracks

\* What the server answers leaves the page as it is.
Served(t) ==
    /\ Leaves(t)
    /\ LET n == task'[t] IN
       /\ n.op = task[t].op /\ n.at = task[t].at /\ n.room = task[t].room
       /\ n.flag = task[t].flag /\ n.live = task[t].live
       /\ n.crossed = task[t].crossed /\ n.closed = task[t].closed
    /\ UNCHANGED <<store, media, touched, gone, uninvited, hasty, sent, strayed>>

LEMMA RequestChanges ==
    ASSUME KTypeOK, NEW t \in Slots, NEW q \in {"none", "sent", "ok", "no"},
           task' = [task EXCEPT ![t].request = q],
           q # "none" => Awaits(task[t].at),
           q \in {"ok", "no"} => task[t].op \in {"match", "cancel", "end"},
           q = "no" => task[t].op = "end", task[t].op # "idle"
    PROVE  /\ Leaves(t)
           /\ LET n == task'[t] IN
              /\ n.op = task[t].op /\ n.at = task[t].at /\ n.room = task[t].room
              /\ n.flag = task[t].flag /\ n.live = task[t].live /\ n.left = task[t].left
              /\ n.crossed = task[t].crossed /\ n.closed = task[t].closed /\ n.request = q
<1>1. task[t] \in TaskType /\ WellFormed(task[t])
    BY FitsIs
<1>2. PICK n : n = [task[t] EXCEPT !.request = q]
    OBVIOUS
<1>3. /\ n \in TaskType
      /\ n.op = task[t].op /\ n.at = task[t].at /\ n.room = task[t].room
      /\ n.flag = task[t].flag /\ n.live = task[t].live /\ n.left = task[t].left
      /\ n.crossed = task[t].crossed /\ n.closed = task[t].closed /\ n.request = q
    BY <1>1, <1>2, RequestIs
<1>4. Put(t, n)
    BY <1>2 DEF Put, KTypeOK, Types
<1>5. WellFormed(n)
    BY <1>1, <1>3 DEF WellFormed
<1>6. Leaves(t) /\ task'[t] = n
    BY <1>3, <1>4, <1>5, PutsNew
<1> QED
    BY <1>3, <1>6

LEMMA AnswerIs ==
    ASSUME NEW t \in Slots, NEW w \in BOOLEAN \union People \union {Nobody}
    PROVE  Answer(t, w) \in Message
    BY DEF Answer, Message

Acked(t, ok, events) ==
    /\ Push(Append(events, Answer(t, ok)))
    /\ Append(events, Answer(t, ok)) \in Seq(Message)
    /\ Len(Append(events, Answer(t, ok))) = Len(events) + 1 /\ Len(events) \in Nat
    /\ Append(events, Answer(t, ok))[Len(events) + 1] = Answer(t, ok)
    /\ \A i \in 1..Len(events) : Append(events, Answer(t, ok))[i] = events[i]

LEMMA AckDoes ==
    ASSUME KTypeOK, NEW t \in Slots, task[t].request # "none",
           NEW ok \in BOOLEAN \union People \union {Nobody}, NEW events \in Seq(Message),
           \A i \in 1..Len(events) : events[i].ev # "answer", Ack(t, ok, events)
    PROVE  /\ Leaves(t) /\ Acked(t, ok, events)
           /\ Answering' /\ inbox' \in Seq(Message)
           /\ LET n == task'[t] IN
              /\ n.op = task[t].op /\ n.at = task[t].at /\ n.room = task[t].room
              /\ n.flag = task[t].flag /\ n.live = task[t].live /\ n.left = task[t].left
              /\ n.crossed = task[t].crossed /\ n.closed = task[t].closed /\ n.request = "none"
<1>1. task[t] \in TaskType /\ WellFormed(task[t])
    BY FitsIs
<1>2. Awaits(task[t].at) /\ task[t].op # "idle"
    BY <1>1, IdleFits DEF WellFormed
<1>3. task' = [task EXCEPT ![t].request = "none"] /\ Push(Append(events, Answer(t, ok)))
    BY DEF Ack
<1>4. /\ Leaves(t)
      /\ LET n == task'[t] IN
         /\ n.op = task[t].op /\ n.at = task[t].at /\ n.room = task[t].room
         /\ n.flag = task[t].flag /\ n.live = task[t].live /\ n.left = task[t].left
         /\ n.crossed = task[t].crossed /\ n.closed = task[t].closed /\ n.request = "none"
    BY <1>2, <1>3, RequestChanges
<1> DEFINE s == Append(events, Answer(t, ok))
<1>5. Answer(t, ok) \in Message /\ Answer(t, ok).ev = "answer" /\ Answer(t, ok).room = t
    BY AnswerIs DEF Answer
<1>6. /\ s \in Seq(Message) /\ Len(s) = Len(events) + 1 /\ Len(events) \in Nat
      /\ s[Len(events) + 1] = Answer(t, ok)
      /\ \A i \in 1..Len(events) : s[i] = events[i]
    BY <1>5, AppendProperties, LenProperties
<1>7. Acked(t, ok, events)
    BY <1>3, <1>6 DEF Acked
<1> HIDE DEF s
<1>8. \A u \in Slots : SamePoint(task'[u], task[u]) \/ Unanswered(task[u])
    BY <1>4 DEF Leaves, SamePoint, Unanswered
<1>9. \A i \in 1..Len(s) : s[i].ev = "answer" =>
          /\ i = Len(s) /\ Unanswered(task[s[i].room])
          /\ task'[s[i].room].request = "none" /\ Awaits(task'[s[i].room].at)
    <2> SUFFICES ASSUME NEW i \in 1..Len(s), s[i].ev = "answer"
                 PROVE  /\ i = Len(s) /\ Unanswered(task[s[i].room])
                        /\ task'[s[i].room].request = "none" /\ Awaits(task'[s[i].room].at)
        OBVIOUS
    <2>1. i = Len(s)
        BY <1>6
    <2>2. s[i] = Answer(t, ok)
        BY <1>6, <2>1
    <2> QED
        BY <1>2, <1>4, <1>5, <2>1, <2>2 DEF Unanswered
<1>10. Push(s)
    BY <1>3 DEF s
<1>11. task' \in [Slots -> TaskType]
    BY <1>4 DEF Leaves
<1>12. Answering' /\ inbox' \in Seq(Message)
    BY <1>6, <1>8, <1>9, <1>10, <1>11, AnswersPushed
<1> QED
    BY <1>4, <1>7, <1>12

\* Of the server: the fields.
LEMMA SrvFields ==
    ASSUME KTypeOK
    PROVE  /\ srv \in SrvType /\ srv.queue \in BOOLEAN /\ srv.seats \subseteq Rooms
           /\ srv.ring \in [Chats -> Rings4] /\ srv.listed \in [Chats -> SUBSET People]
           /\ srv.present \in [Rooms -> SUBSET People] /\ srv.feeds \subseteq People
           /\ srv.used \subseteq MatchRooms
    BY DEF KTypeOK, Types, SrvType

LEMMA RingIs ==
    ASSUME KTypeOK, NEW c \in Chats, NEW to \in Rings4
    PROVE  LET n == Ring(c, to) IN
           /\ n \in SrvType /\ n.queue = srv.queue /\ n.seats = srv.seats
           /\ n.ring = [srv.ring EXCEPT ![c] = to] /\ n.listed = srv.listed
           /\ n.present = srv.present /\ n.feeds = srv.feeds /\ n.used = srv.used
    BY DEF KTypeOK, Types, SrvType, Ring

\* The call of c is over, or is left.
Emptied(c) ==
    /\ srv' \in SrvType /\ srv'.queue = srv.queue /\ srv'.seats = srv.seats
    /\ srv'.ring = [srv.ring EXCEPT ![c] = "none"]
    /\ srv'.listed = [srv.listed EXCEPT ![c] = {}]
    /\ srv'.present = srv.present /\ srv'.feeds = srv.feeds /\ srv'.used = srv.used

LEMMA EmptiedIs ==
    ASSUME KTypeOK, NEW c \in Chats, srv' = [Ring(c, "none") EXCEPT !.listed[c] = {}]
    PROVE  Emptied(c)
    BY DEF KTypeOK, Types, SrvType, Ring, Emptied, Rings4

\* One event is on its way.
Sends(ev, c, who) ==
    /\ Push(<<Event(ev, c, who)>>) /\ <<Event(ev, c, who)>> \in Seq(Message)
    /\ Len(<<Event(ev, c, who)>>) = 1 /\ <<Event(ev, c, who)>>[1] = Event(ev, c, who)

LEMMA OneIs ==
    ASSUME NEW m \in Message
    PROVE  <<m>> \in Seq(Message) /\ Len(<<m>>) = 1 /\ <<m>>[1] = m
    OBVIOUS

LEMMA EventsAre ==
    /\ \A r \in Rooms, ev \in {"success", "over"} : Event(ev, r, {}) \in Message
    /\ \A c \in Chats : Event("incoming", c, {}) \in Message
    /\ \A r \in Rooms, p \in People, ev \in {"joined", "left"} : Event(ev, r, p) \in Message
    /\ \A r \in Rooms, f \in SUBSET People : Event("new", r, f) \in Message
    BY DEF Event, Message, Nobody

LEMMA EventFields ==
    ASSUME NEW ev, NEW r, NEW who
    PROVE  Event(ev, r, who).ev = ev /\ Event(ev, r, who).room = r /\ Event(ev, r, who).who = who
    BY DEF Event

EndsCall(c) ==
    \/ /\ srv.ring[c] \in {"active", "mine", "theirs"} /\ Emptied(c) /\ Sends("over", c, {})
    \/ /\ srv.ring[c] = "active"
       /\ srv' \in SrvType /\ srv'.queue = srv.queue /\ srv'.seats = srv.seats
       /\ srv'.ring = [srv.ring EXCEPT ![c] = "left"] /\ srv'.listed = srv.listed
       /\ srv'.present = srv.present /\ srv'.feeds = srv.feeds /\ srv'.used = srv.used
       /\ UNCHANGED inbox
    \/ srv.ring[c] \notin {"active", "mine", "theirs"} /\ UNCHANGED <<srv, inbox>>

LEMMA CountIs ==
    ASSUME NEW S \in SUBSET People
    PROVE  IsFiniteSet(S) /\ Cardinality(S) \in Nat
    BY MediaClientAssumption, FS_Subset, FS_CardinalityType

LEMMA EndCallDoes ==
    ASSUME KTypeOK, NEW c \in Chats, EndCall(c)
    PROVE  EndsCall(c)
<1>1. c \in Rooms
    BY DEF Rooms
<1>2. ASSUME Push(<<Event("over", c, {})>>) PROVE Sends("over", c, {})
    BY <1>1, <1>2, EventsAre, OneIs DEF Sends
<1>3. PICK n \in Nat : n = Cardinality(srv.listed[c])
    BY SrvFields, CountIs
<1>4. CASE srv.ring[c] = "active" /\ n <= 1
    <2>1. srv' = [Ring(c, "none") EXCEPT !.listed[c] = {}] /\ Push(<<Event("over", c, {})>>)
        BY <1>3, <1>4 DEF EndCall
    <2> QED
        BY <1>2, <1>4, <2>1, EmptiedIs DEF EndsCall
<1>5. CASE srv.ring[c] = "active" /\ n > 1
    <2>1. srv' = Ring(c, "left") /\ UNCHANGED inbox
        BY <1>3, <1>5 DEF EndCall
    <2>2. "left" \in Rings4
        BY DEF Rings4
    <2> QED
        BY <1>5, <2>1, <2>2, RingIs DEF EndsCall
<1>6. CASE srv.ring[c] \in {"mine", "theirs"}
    <2>1. srv' = [Ring(c, "none") EXCEPT !.listed[c] = {}] /\ Push(<<Event("over", c, {})>>)
        BY <1>6 DEF EndCall
    <2> QED
        BY <1>2, <1>6, <2>1, EmptiedIs DEF EndsCall
<1>7. CASE srv.ring[c] \notin {"active", "mine", "theirs"}
    <2>1. UNCHANGED <<srv, inbox>>
        BY <1>7 DEF EndCall
    <2> QED
        BY <1>7, <2>1 DEF EndsCall
<1> QED
    BY <1>3, <1>4, <1>5, <1>6, <1>7
Sound == srv' \in SrvType /\ inbox' \in Seq(Message) /\ Answering'

LEMMA AskedIs ==
    ASSUME KTypeOK, NEW t \in Slots, NEW at, Asked(t, at)
    PROVE  /\ task[t].request = "sent" /\ task[t].at = at /\ Awaits(at)
           /\ task[t].op # "idle" /\ Route(task[t].op, at) /\ Sited(task[t])
           /\ Unanswered(task[t])
    BY FitsIs, IdleFits DEF Asked, WellFormed, Unanswered

LEMMA ServeMatchDoes ==
    ASSUME KTypeOK, NEW t \in Slots, ServeMatch(t)
    PROVE  /\ Served(t) /\ Sound /\ UNCHANGED inbox
           /\ task[t].request = "sent" /\ task'[t].request = "ok" /\ task'[t].left = task[t].left
           /\ task[t].op \in {"match", "cancel"} /\ task[t].at = task[t].op
           /\ srv'.queue = (task[t].op = "match")
           /\ srv'.seats = srv.seats /\ srv'.ring = srv.ring /\ srv'.listed = srv.listed
           /\ srv'.present = srv.present /\ srv'.feeds = srv.feeds /\ srv'.used = srv.used
<1>1. /\ \/ Asked(t, "match") /\ srv' = [srv EXCEPT !.queue = TRUE]
         \/ Asked(t, "cancel") /\ srv' = [srv EXCEPT !.queue = FALSE]
      /\ task' = [task EXCEPT ![t].request = "ok"] /\ UNCHANGED inbox
      /\ UNCHANGED <<store, media, touched, gone, uninvited, hasty, sent, strayed>>
    BY DEF ServeMatch, Serving, Page, Quiet
<1>2. task[t].op \in {"match", "cancel"} /\ task[t].at = task[t].op
      /\ task[t].request = "sent" /\ Awaits(task[t].at) /\ Unanswered(task[t])
      /\ task[t].op # "idle"
    BY <1>1, AskedIs, PointOfOne
<1>3. /\ Leaves(t)
      /\ LET n == task'[t] IN
         /\ n.op = task[t].op /\ n.at = task[t].at /\ n.room = task[t].room
         /\ n.flag = task[t].flag /\ n.live = task[t].live /\ n.left = task[t].left
         /\ n.crossed = task[t].crossed /\ n.closed = task[t].closed /\ n.request = "ok"
    BY <1>1, <1>2, RequestChanges
<1>4. /\ srv' \in SrvType /\ srv'.queue = (task[t].op = "match")
      /\ srv'.seats = srv.seats /\ srv'.ring = srv.ring /\ srv'.listed = srv.listed
      /\ srv'.present = srv.present /\ srv'.feeds = srv.feeds /\ srv'.used = srv.used
    <2>1. CASE Asked(t, "match") /\ srv' = [srv EXCEPT !.queue = TRUE]
        <3>1. task[t].op = "match"
            BY <2>1, AskedIs, PointOfOne
        <3> QED
            BY <2>1, <3>1, SrvFields DEF SrvType
    <2>2. CASE Asked(t, "cancel") /\ srv' = [srv EXCEPT !.queue = FALSE]
        <3>1. task[t].op = "cancel"
            BY <2>2, AskedIs, PointOfOne
        <3> QED
            BY <2>2, <3>1, SrvFields DEF SrvType
    <2> QED
        BY <1>1, <2>1, <2>2
<1>5. \A u \in Slots : SamePoint(task'[u], task[u]) \/ Unanswered(task[u])
    BY <1>2, <1>3 DEF Leaves, SamePoint
<1>6. Answering' /\ inbox' \in Seq(Message)
    BY <1>1, <1>3, <1>5, AnswersStay DEF Leaves
<1> QED
    BY <1>1, <1>2, <1>3, <1>4, <1>6 DEF Served, Sound

\* The acknowledgement of t, with nothing before it, is on its way.
Acks(t, ok) == Acked(t, ok, <<>>)

LEMMA AckAlone ==
    ASSUME KTypeOK, NEW t \in Slots, task[t].request # "none",
           NEW ok \in BOOLEAN, Ack(t, ok, <<>>)
    PROVE  /\ Leaves(t) /\ Acks(t, ok)
           /\ Answering' /\ inbox' \in Seq(Message)
           /\ LET n == task'[t] IN
              /\ n.op = task[t].op /\ n.at = task[t].at /\ n.room = task[t].room
              /\ n.flag = task[t].flag /\ n.live = task[t].live /\ n.left = task[t].left
              /\ n.crossed = task[t].crossed /\ n.closed = task[t].closed /\ n.request = "none"
<1>1. <<>> \in Seq(Message) /\ Len(<<>>) = 0 /\ ok \in BOOLEAN \union People \union {Nobody}
    BY EmptySeq
<1>0. PICK e \in Seq(Message) : e = <<>>
    BY <1>1
<1>2. \A i \in 1..Len(e) : e[i].ev # "answer"
    BY <1>0, <1>1
<1>3. Ack(t, ok, e)
    BY <1>0
<1>4. /\ Leaves(t) /\ Acked(t, ok, e)
      /\ Answering' /\ inbox' \in Seq(Message)
      /\ LET n == task'[t] IN
         /\ n.op = task[t].op /\ n.at = task[t].at /\ n.room = task[t].room
         /\ n.flag = task[t].flag /\ n.live = task[t].live /\ n.left = task[t].left
         /\ n.crossed = task[t].crossed /\ n.closed = task[t].closed /\ n.request = "none"
    BY <1>1, <1>2, <1>3, AckDoes
<1> QED
    BY <1>0, <1>4 DEF Acks

\* One message, or two, have been added.
Adds(m) ==
    /\ inbox' \in Seq(Message) /\ Len(inbox) \in Nat /\ Len(inbox') = Len(inbox) + 1
    /\ \A i \in 1..Len(inbox) : i \in 1..Len(inbox') /\ inbox'[i] = inbox[i]
    /\ inbox'[Len(inbox) + 1] = m
AddsTwo(m, n) ==
    /\ inbox' \in Seq(Message) /\ Len(inbox) \in Nat /\ Len(inbox') = Len(inbox) + 2
    /\ \A i \in 1..Len(inbox) : i \in 1..Len(inbox') /\ inbox'[i] = inbox[i]
    /\ inbox'[Len(inbox) + 1] = m /\ inbox'[Len(inbox) + 2] = n

LEMMA AddsOne ==
    ASSUME KTypeOK, NEW m \in Message, NEW s \in Seq(Message), Len(s) = 1, s[1] = m, Push(s)
    PROVE  Adds(m)
<1>1. /\ inbox' \in Seq(Message) /\ Len(inbox') = Len(inbox) + Len(s) /\ Len(inbox) \in Nat
      /\ \A i \in 1..Len(inbox) : i \in 1..Len(inbox') /\ inbox'[i] = inbox[i]
      /\ \A i \in 1..Len(s) : inbox'[Len(inbox) + i] = s[i]
    BY PushIs DEF KTypeOK, Types
<1>2. 1 \in 1..Len(s)
    OBVIOUS
<1>3. inbox'[Len(inbox) + 1] = m
    BY <1>1, <1>2
<1> QED
    BY <1>1, <1>3 DEF Adds

LEMMA AddsBoth ==
    ASSUME KTypeOK, NEW m \in Message, NEW n \in Message, NEW s \in Seq(Message), Len(s) = 2,
           s[1] = m, s[2] = n, Push(s)
    PROVE  AddsTwo(m, n)
<1>1. /\ inbox' \in Seq(Message) /\ Len(inbox') = Len(inbox) + Len(s) /\ Len(inbox) \in Nat
      /\ \A i \in 1..Len(inbox) : i \in 1..Len(inbox') /\ inbox'[i] = inbox[i]
      /\ \A i \in 1..Len(s) : inbox'[Len(inbox) + i] = s[i]
    BY PushIs DEF KTypeOK, Types
<1>2. 1 \in 1..Len(s) /\ 2 \in 1..Len(s)
    OBVIOUS
<1>3. inbox'[Len(inbox) + 1] = m /\ inbox'[Len(inbox) + 2] = n
    BY <1>1, <1>2
<1> QED
    BY <1>1, <1>3 DEF AddsTwo

LEMMA AcksAdd ==
    ASSUME KTypeOK, NEW t \in Slots, NEW ok \in BOOLEAN, Acks(t, ok)
    PROVE  Adds(Answer(t, ok))
<1> DEFINE s == Append(<<>>, Answer(t, ok))
<1>1. Len(<<>>) = 0 /\ Len(<<>>) + 1 = 1
    BY EmptySeq
<1>2. s \in Seq(Message) /\ Len(s) = 1 /\ s[1] = Answer(t, ok) /\ Push(s)
    BY <1>1 DEF Acks, Acked
<1>3. Answer(t, ok) \in Message
    BY AnswerIs
<1> HIDE DEF s
<1>4. PICK m \in Message : m = Answer(t, ok)
    BY <1>3
<1> QED
    BY <1>2, <1>4, AddsOne

LEMMA ServeRingDoes ==
    ASSUME KTypeOK, NEW t \in Slots, ServeRing(t)
    PROVE  /\ Served(t) /\ Sound
           /\ task[t].op = "ring" /\ task[t].at = "ring" /\ task[t].room \in Chats
           /\ task[t].request = "sent" /\ task'[t].request = "none"
           /\ task'[t].left = task[t].left
           /\ \E ok \in BOOLEAN :
                 /\ Adds(Answer(t, ok))
                 /\ \/ ~ok /\ srv' = srv
                    \/ ok /\ srv.ring[task[t].room] = "none" /\ srv' = Ring(task[t].room, "mine")
<1>1. Asked(t, "ring") /\ UNCHANGED <<store, media, touched, gone, uninvited, hasty, sent, strayed>>
    BY DEF ServeRing, Serving, Page, Quiet
<1>2. /\ task[t].op = "ring" /\ task[t].at = "ring" /\ task[t].room \in Chats
      /\ task[t].request = "sent"
    BY <1>1, AskedIs, PointOfOne DEF Sited
<1>3. PICK ok \in BOOLEAN :
          /\ ok => srv.ring[task[t].room] = "none"
          /\ srv' = IF ok THEN Ring(task[t].room, "mine") ELSE srv
          /\ Ack(t, ok, <<>>)
    BY DEF ServeRing
<1>4. /\ Leaves(t) /\ Acks(t, ok)
      /\ Answering' /\ inbox' \in Seq(Message)
      /\ LET n == task'[t] IN
         /\ n.op = task[t].op /\ n.at = task[t].at /\ n.room = task[t].room
         /\ n.flag = task[t].flag /\ n.live = task[t].live /\ n.left = task[t].left
         /\ n.crossed = task[t].crossed /\ n.closed = task[t].closed /\ n.request = "none"
    BY <1>2, <1>3, AckAlone
<1>5. srv' \in SrvType
    BY <1>2, <1>3, RingIs, SrvFields DEF Rings4
<1>6. Adds(Answer(t, ok))
    BY <1>4, AcksAdd
<1> QED
    BY <1>1, <1>2, <1>3, <1>4, <1>5, <1>6 DEF Served, Sound

LEMMA ServeAcceptDoes ==
    ASSUME KTypeOK, NEW t \in Slots, ServeAccept(t)
    PROVE  /\ Served(t) /\ Sound
           /\ task[t].op = "accept" /\ task[t].at = "accept" /\ task[t].room \in Chats
           /\ task[t].request = "sent" /\ task'[t].request = "none"
           /\ task'[t].left = task[t].left
           /\ \/ Adds(Answer(t, FALSE)) /\ srv' = srv
              \/ LET c == task[t].room IN
                 /\ srv.ring[c] \in {"theirs", "others"}
                 /\ AddsTwo(Event("success", c, {}), Answer(t, TRUE))
                 /\ srv'.queue = srv.queue /\ srv'.ring = [srv.ring EXCEPT ![c] = "active"]
                 /\ srv'.seats = srv.seats \union {c} /\ srv'.listed = srv.listed
                 /\ srv'.present = [srv.present EXCEPT ![c] = @ \union srv.listed[c]]
                 /\ srv'.feeds = srv.feeds /\ srv'.used = srv.used
<1>1. Asked(t, "accept") /\ UNCHANGED <<store, media, touched, gone, uninvited, hasty, sent, strayed>>
    BY DEF ServeAccept, Serving, Page, Quiet
<1>2. /\ task[t].op = "accept" /\ task[t].at = "accept" /\ task[t].room \in Chats
      /\ task[t].request = "sent"
    BY <1>1, AskedIs, PointOfOne DEF Sited
<1>3. PICK c \in Chats : c = task[t].room
    BY <1>2
<1>4. CASE UNCHANGED srv /\ Ack(t, FALSE, <<>>)
    <2>0. PICK no \in BOOLEAN : no = FALSE
        OBVIOUS
    <2>1. /\ Leaves(t) /\ Acks(t, no)
          /\ Answering' /\ inbox' \in Seq(Message)
          /\ LET n == task'[t] IN
             /\ n.op = task[t].op /\ n.at = task[t].at /\ n.room = task[t].room
             /\ n.flag = task[t].flag /\ n.live = task[t].live /\ n.left = task[t].left
             /\ n.crossed = task[t].crossed /\ n.closed = task[t].closed /\ n.request = "none"
        BY <1>2, <1>4, <2>0, AckAlone
    <2>2. Adds(Answer(t, no))
        BY <2>1, AcksAdd
    <2> QED
        BY <1>1, <1>2, <1>4, <2>0, <2>1, <2>2, SrvFields DEF Served, Sound
<1>5. CASE /\ srv.ring[c] \in {"theirs", "others"}
           /\ srv' = [Ring(c, "active") EXCEPT !.seats = @ \union {c},
                                               !.present[c] = @ \union srv.listed[c]]
           /\ Ack(t, TRUE, <<Event("success", c, {})>>)
    <2> DEFINE events == <<Event("success", c, {})>>
    <2>1. Event("success", c, {}) \in Message
        BY EventsAre DEF Rooms
    <2>2. events \in Seq(Message) /\ Len(events) = 1 /\ events[1] = Event("success", c, {})
        BY <2>1, OneIs
    <2>3. \A i \in 1..Len(events) : events[i].ev # "answer"
        BY <2>2, EventFields
    <2>10. PICK yes \in BOOLEAN \union People \union {Nobody} : yes = TRUE
        OBVIOUS
    <2>4. Ack(t, yes, events)
        BY <1>5, <2>10
    <2> HIDE DEF events
    <2>5. /\ Leaves(t) /\ Acked(t, yes, events)
          /\ Answering' /\ inbox' \in Seq(Message)
          /\ LET n == task'[t] IN
             /\ n.op = task[t].op /\ n.at = task[t].at /\ n.room = task[t].room
             /\ n.flag = task[t].flag /\ n.live = task[t].live /\ n.left = task[t].left
             /\ n.crossed = task[t].crossed /\ n.closed = task[t].closed /\ n.request = "none"
        BY <1>2, <2>2, <2>3, <2>4, AckDoes
    <2>6. PICK n : /\ n = Ring(c, "active") /\ n \in SrvType /\ n.queue = srv.queue
                   /\ n.seats = srv.seats
                   /\ n.ring = [srv.ring EXCEPT ![c] = "active"] /\ n.listed = srv.listed
                   /\ n.present = srv.present /\ n.feeds = srv.feeds /\ n.used = srv.used
        <3>1. "active" \in Rings4
            BY DEF Rings4
        <3> QED
            BY <3>1, RingIs
    <2>7. srv' = [n EXCEPT !.seats = n.seats \union {c},
                           !.present[c] = n.present[c] \union srv.listed[c]]
        BY <1>5, <2>6
    <2>8. c \in Rooms /\ srv.listed[c] \subseteq People
        BY SrvFields DEF Rooms
    <2>9. /\ srv' \in SrvType
          /\ srv'.queue = n.queue /\ srv'.ring = n.ring
          /\ srv'.seats = n.seats \union {c} /\ srv'.listed = n.listed
          /\ srv'.present = [n.present EXCEPT ![c] = @ \union srv.listed[c]]
          /\ srv'.feeds = n.feeds /\ srv'.used = n.used
        BY <2>6, <2>7, <2>8 DEF SrvType
    <2>11. AddsTwo(Event("success", c, {}), Answer(t, TRUE))
        <3> DEFINE s == Append(events, Answer(t, yes))
        <3>1. s \in Seq(Message) /\ Len(s) = 2 /\ s[1] = events[1] /\ s[2] = Answer(t, yes)
              /\ Push(s)
            BY <2>2, <2>5 DEF Acked
        <3>2. Answer(t, yes) \in Message
            BY AnswerIs
        <3> HIDE DEF s
        <3>3. PICK m \in Message, a \in Message : m = Event("success", c, {}) /\ a = Answer(t, yes)
            BY <2>1, <3>2
        <3>4. AddsTwo(m, a)
            BY <2>2, <3>1, <3>3, AddsBoth
        <3> QED
            BY <2>10, <3>3, <3>4
    <2> QED
        BY <1>1, <1>2, <1>3, <1>5, <2>5, <2>6, <2>9, <2>11 DEF Served, Sound
<1> QED
    BY <1>3, <1>4, <1>5 DEF ServeAccept

LEMMA EventsPushed ==
    ASSUME KTypeOK, task' \in [Slots -> TaskType], NEW s \in Seq(Message), Push(s),
           \A u \in Slots : SamePoint(task'[u], task[u]) \/ Unanswered(task[u]),
           \A i \in 1..Len(s) : s[i].ev # "answer"
    PROVE  Answering' /\ inbox' \in Seq(Message)
    BY AnswersPushed

LEMMA SendsAdd ==
    ASSUME KTypeOK, NEW ev, NEW c, NEW who, Event(ev, c, who) \in Message, Sends(ev, c, who),
           ev # "answer", task' \in [Slots -> TaskType],
           \A u \in Slots : SamePoint(task'[u], task[u]) \/ Unanswered(task[u])
    PROVE  Adds(Event(ev, c, who)) /\ Answering' /\ inbox' \in Seq(Message)
<1> DEFINE s == <<Event(ev, c, who)>>
<1>1. s \in Seq(Message) /\ Len(s) = 1 /\ s[1] = Event(ev, c, who) /\ Push(s)
    BY DEF Sends
<1> HIDE DEF s
<1>2. PICK m \in Message : m = Event(ev, c, who)
    OBVIOUS
<1>3. m.ev # "answer"
    BY <1>2, EventFields
<1>4. \A i \in 1..Len(s) : s[i].ev # "answer"
    BY <1>1, <1>2, <1>3
<1> QED
    BY <1>1, <1>2, <1>4, AddsOne, EventsPushed

\* A response on which nothing changes but the answer.
LEMMA AcksAlone ==
    ASSUME KTypeOK, NEW t \in Slots, task[t].request # "none", NEW ok \in BOOLEAN,
           Ack(t, ok, <<>>), UNCHANGED <<srv, store, media, touched, gone, uninvited, hasty,
                                         sent, strayed>>
    PROVE  /\ Served(t) /\ Sound /\ Adds(Answer(t, ok)) /\ srv' = srv
           /\ task'[t].request = "none" /\ task'[t].left = task[t].left
<1>1. /\ Leaves(t) /\ Acks(t, ok)
      /\ Answering' /\ inbox' \in Seq(Message)
      /\ LET n == task'[t] IN
         /\ n.op = task[t].op /\ n.at = task[t].at /\ n.room = task[t].room
         /\ n.flag = task[t].flag /\ n.live = task[t].live /\ n.left = task[t].left
         /\ n.crossed = task[t].crossed /\ n.closed = task[t].closed /\ n.request = "none"
    BY AckAlone
<1>2. Adds(Answer(t, ok))
    BY <1>1, AcksAdd
<1> QED
    BY <1>1, <1>2, SrvFields DEF Served, Sound

LEMMA ServeRejectDoes ==
    ASSUME KTypeOK, NEW t \in Slots, ServeReject(t)
    PROVE  /\ task[t].op = "reject" /\ task[t].at = "reject" /\ task[t].request = "sent"
           /\ \E ok \in BOOLEAN : Adds(Answer(t, ok))
           /\ Served(t) /\ Sound /\ srv' = srv
           /\ task'[t].request = "none" /\ task'[t].left = task[t].left
<1>1. Asked(t, "reject")
      /\ UNCHANGED <<srv, store, media, touched, gone, uninvited, hasty, sent, strayed>>
    BY DEF ServeReject, Serving, Page, Quiet
<1>2. PICK ok \in BOOLEAN : Ack(t, ok, <<>>)
    BY DEF ServeReject
<1>3. task[t].op = "reject" /\ task[t].at = "reject" /\ task[t].request = "sent"
    BY <1>1, AskedIs, PointOfOne
<1> QED
    BY <1>1, <1>2, <1>3, AcksAlone

LEMMA ReplyDoes ==
    ASSUME KTypeOK, NEW t \in Slots, Reply(t)
    PROVE  /\ task[t].request \in {"ok", "no"}
           /\ \E ok \in BOOLEAN : Adds(Answer(t, ok)) /\ ok = (task[t].request = "ok")
           /\ Served(t) /\ Sound /\ srv' = srv
           /\ task'[t].request = "none" /\ task'[t].left = task[t].left
<1>1. task[t].request \in {"ok", "no"}
      /\ UNCHANGED <<srv, store, media, touched, gone, uninvited, hasty, sent, strayed>>
    BY DEF Reply, Serving, Page, Quiet
<1>2. PICK ok \in BOOLEAN : ok = (task[t].request = "ok")
    BY Zenon
<1>3. Ack(t, ok, <<>>)
    BY <1>2 DEF Reply
<1> QED
    BY <1>1, <1>2, <1>3, AcksAlone

LEMMA ServeMediaDoes ==
    ASSUME KTypeOK, NEW t \in Slots, ServeMedia(t)
    PROVE  /\ task[t].at \in {"send", "recv", "video", "audio", "screen", "turn", "shared"}
           /\ task[t].request = "sent" /\ Adds(Answer(t, TRUE))
           /\ Served(t) /\ Sound /\ srv' = srv
           /\ task'[t].request = "none" /\ task'[t].left = task[t].left
<1>1. \E at \in {"send", "recv", "video", "audio", "screen", "turn", "shared"} : Asked(t, at)
    BY DEF ServeMedia
<1>2. UNCHANGED <<srv, store, media, touched, gone, uninvited, hasty, sent, strayed>>
      /\ Ack(t, TRUE, <<>>)
    BY DEF ServeMedia, Serving, Page, Quiet
<1>3. task[t].at \in {"send", "recv", "video", "audio", "screen", "turn", "shared"}
      /\ task[t].request = "sent"
    BY <1>1 DEF Asked
<1>4. PICK yes \in BOOLEAN : yes = TRUE
    OBVIOUS
<1> QED
    BY <1>2, <1>3, <1>4, AcksAlone
\* The request and what is left to ask change.
LEMMA LeftChanges ==
    ASSUME KTypeOK, NEW t \in Slots, NEW l \in SUBSET People, task[t].op # "idle",
           task' = [task EXCEPT ![t].request = "none", ![t].left = l]
    PROVE  /\ Leaves(t)
           /\ LET n == task'[t] IN
              /\ n.op = task[t].op /\ n.at = task[t].at /\ n.room = task[t].room
              /\ n.flag = task[t].flag /\ n.live = task[t].live /\ n.left = l
              /\ n.crossed = task[t].crossed /\ n.closed = task[t].closed /\ n.request = "none"
<1> DEFINE a == [task[t] EXCEPT !.request = "none"]
           b == [a EXCEPT !.left = l]
<1>1. task[t] \in TaskType /\ WellFormed(task[t]) /\ "none" \in {"none", "sent", "ok", "no"}
    BY FitsIs
<1>2. /\ a \in TaskType
      /\ a.op = task[t].op /\ a.at = task[t].at /\ a.room = task[t].room
      /\ a.left = task[t].left /\ a.flag = task[t].flag /\ a.live = task[t].live
      /\ a.request = "none" /\ a.crossed = task[t].crossed /\ a.closed = task[t].closed
    BY <1>1, RequestIs
<1>3. task' = [task EXCEPT ![t] = b]
    BY DEF KTypeOK, Types
<1> HIDE DEF a
<1>4. /\ b \in TaskType
      /\ b.op = a.op /\ b.at = a.at /\ b.room = a.room /\ b.left = l /\ b.flag = a.flag
      /\ b.live = a.live /\ b.request = a.request /\ b.crossed = a.crossed
      /\ b.closed = a.closed
    BY <1>2, LeftIs
<1> HIDE DEF b
<1>5. Put(t, b)
    BY <1>3 DEF Put
<1>6. WellFormed(b)
    BY <1>1, <1>2, <1>4 DEF WellFormed
<1>7. Leaves(t) /\ task'[t] = b
    BY <1>4, <1>5, <1>6, PutsNew
<1> QED
    BY <1>2, <1>4, <1>7

\* An answer is pushed by hand.
LEMMA AnswerAdds ==
    ASSUME KTypeOK, NEW t \in Slots, NEW w \in BOOLEAN \union People \union {Nobody},
           Push(<<Answer(t, w)>>), Leaves(t), Unanswered(task[t]),
           task'[t].request = "none", Awaits(task'[t].at)
    PROVE  Adds(Answer(t, w)) /\ Answering' /\ inbox' \in Seq(Message)
<1> DEFINE s == <<Answer(t, w)>>
<1>1. Answer(t, w) \in Message /\ Answer(t, w).ev = "answer" /\ Answer(t, w).room = t
    BY AnswerIs DEF Answer
<1>2. s \in Seq(Message) /\ Len(s) = 1 /\ s[1] = Answer(t, w) /\ Push(s)
    BY <1>1, OneIs
<1> HIDE DEF s
<1>3. PICK m \in Message : m = Answer(t, w)
    BY <1>1
<1>4. Adds(m)
    BY <1>2, <1>3, AddsOne
<1>5. \A i \in 1..Len(s) : s[i].ev = "answer" =>
          /\ i = Len(s) /\ Unanswered(task[s[i].room])
          /\ task'[s[i].room].request = "none" /\ Awaits(task'[s[i].room].at)
    BY <1>1, <1>2
<1>6. \A u \in Slots : SamePoint(task'[u], task[u]) \/ Unanswered(task[u])
    BY DEF Leaves, SamePoint
<1>7. Answering' /\ inbox' \in Seq(Message)
    BY <1>2, <1>5, <1>6, AnswersPushed DEF Leaves
<1> QED
    BY <1>3, <1>4, <1>7

LEMMA ServeExistingDoes ==
    ASSUME KTypeOK, NEW t \in Slots, ServeExisting(t)
    PROVE  /\ task[t].op = "accept" /\ task[t].at = "existing" /\ task[t].request = "sent"
           /\ task[t].room \in Chats
           /\ Adds(Answer(t, TRUE)) /\ Served(t) /\ Sound /\ srv' = srv
           /\ task'[t].request = "none"
           /\ task'[t].left = (IF InCall(task[t].room) THEN srv.listed[task[t].room] ELSE {})
<1> DEFINE l == IF InCall(task[t].room) THEN srv.listed[task[t].room] ELSE {}
<1>1. /\ Asked(t, "existing") /\ Push(<<Answer(t, TRUE)>>)
      /\ task' = [task EXCEPT ![t].request = "none", ![t].left = l]
      /\ UNCHANGED <<srv, store, media, touched, gone, uninvited, hasty, sent, strayed>>
    BY DEF ServeExisting, Serving, Page, Quiet
<1>2. /\ task[t].op = "accept" /\ task[t].at = "existing" /\ task[t].request = "sent"
      /\ Awaits("existing") /\ Sited(task[t]) /\ Unanswered(task[t]) /\ task[t].op # "idle"
    BY <1>1, AskedIs, PointOfOne
<1>3. task[t].room \in Chats
    BY <1>2 DEF Sited
<1>4. l \in SUBSET People
    BY <1>3, SrvFields
<1> HIDE DEF l
<1>5. /\ Leaves(t)
      /\ LET n == task'[t] IN
         /\ n.op = task[t].op /\ n.at = task[t].at /\ n.room = task[t].room
         /\ n.flag = task[t].flag /\ n.live = task[t].live /\ n.left = l
         /\ n.crossed = task[t].crossed /\ n.closed = task[t].closed /\ n.request = "none"
    BY <1>1, <1>2, <1>4, LeftChanges
<1>6. PICK yes \in BOOLEAN \union People \union {Nobody} : yes = TRUE
    OBVIOUS
<1>7. Adds(Answer(t, yes)) /\ Answering' /\ inbox' \in Seq(Message)
    BY <1>1, <1>2, <1>5, <1>6, AnswerAdds
<1> QED
    BY <1>1, <1>2, <1>3, <1>5, <1>6, <1>7, SrvFields DEF Served, Sound, l

LEMMA ServeConsumeDoes ==
    ASSUME KTypeOK, NEW t \in Slots, ServeConsume(t)
    PROVE  /\ task[t].op = "consume" /\ task[t].at = "consume" /\ task[t].request = "sent"
           /\ Served(t) /\ Sound /\ srv' = srv /\ task'[t].request = "none"
           /\ \E p \in task[t].left :
                 /\ Adds(Answer(t, IF p \in srv.feeds THEN p ELSE {}))
                 /\ task'[t].left = task[t].left \ {p}
<1>1. /\ Asked(t, "consume")
      /\ UNCHANGED <<srv, store, media, touched, gone, uninvited, hasty, sent, strayed>>
    BY DEF ServeConsume, Serving, Page, Quiet
<1>2. PICK p \in task[t].left :
         /\ Push(<<Answer(t, IF p \in srv.feeds THEN p ELSE {})>>)
         /\ task' = [task EXCEPT ![t].request = "none", ![t].left = @ \ {p}]
    BY DEF ServeConsume
<1>3. /\ task[t].op = "consume" /\ task[t].at = "consume" /\ task[t].request = "sent"
      /\ Awaits("consume") /\ Unanswered(task[t]) /\ task[t].op # "idle"
    BY <1>1, AskedIs, PointOfOne
<1>4. task[t] \in TaskType /\ task[t].left \subseteq People
    BY FitsIs, TaskFields
<1>5. PICK l \in SUBSET People : l = task[t].left \ {p}
    BY <1>4
<1>6. task' = [task EXCEPT ![t].request = "none", ![t].left = l]
    BY <1>2, <1>4, <1>5 DEF KTypeOK, Types, TaskType
<1>7. /\ Leaves(t)
      /\ LET n == task'[t] IN
         /\ n.op = task[t].op /\ n.at = task[t].at /\ n.room = task[t].room
         /\ n.flag = task[t].flag /\ n.live = task[t].live /\ n.left = l
         /\ n.crossed = task[t].crossed /\ n.closed = task[t].closed /\ n.request = "none"
    BY <1>3, <1>6, LeftChanges
<1>8. PICK w \in BOOLEAN \union People \union {Nobody} : w = IF p \in srv.feeds THEN p ELSE {}
    BY <1>2, <1>4 DEF Nobody
<1>9. Adds(Answer(t, w)) /\ Answering' /\ inbox' \in Seq(Message)
    BY <1>2, <1>3, <1>7, <1>8, AnswerAdds
<1> QED
    BY <1>1, <1>2, <1>3, <1>5, <1>7, <1>8, <1>9, SrvFields DEF Served, Sound

\* Who is not answered gives up.
LEMMA NoAnswerDoes ==
    ASSUME KTypeOK, NEW t \in Slots, NoAnswer(t)
    PROVE  /\ task[t].at \in {"video", "audio", "screen", "consume"} /\ task[t].request = "sent"
           /\ Cleared(t) /\ task'[t] = Idle /\ Leaves(t) /\ Sound
           /\ IF task[t].op = "setup"
              THEN strayed' = strayed \union {task[t].room} /\ touched' = TRUE
              ELSE UNCHANGED <<strayed, touched>>
           /\ UNCHANGED <<store, media, srv, inbox, sent, gone, uninvited, hasty>>
<1>1. /\ Cleared(t) /\ Put(t, Idle) /\ GivesUp(t)
      /\ UNCHANGED <<store, media, srv, inbox, sent, gone, uninvited, hasty>>
    BY DEF NoAnswer, Quiet
<1>2. task[t].at \in {"video", "audio", "screen", "consume"} /\ task[t].request = "sent"
    BY DEF NoAnswer, Asked
<1>3. task'[t] = Idle /\ Leaves(t)
    BY <1>1, PutsIdle DEF Leaves
<1>4. \A u \in Slots : SamePoint(task'[u], task[u]) \/ Unanswered(task[u])
    BY <1>2, <1>3 DEF Leaves, SamePoint, Unanswered
<1>5. Answering' /\ inbox' \in Seq(Message)
    BY <1>1, <1>3, <1>4, AnswersStay DEF Leaves
<1> QED
    BY <1>1, <1>2, <1>3, <1>5, SrvFields DEF GivesUp, Sound

LEMMA ServeEndDoes ==
    ASSUME KTypeOK, NEW t \in Slots, ServeEnd(t)
    PROVE  /\ task[t].op = "end" /\ task[t].at = "end" /\ task[t].request = "sent"
           /\ task[t].room \in Chats
           /\ Served(t) /\ Sound /\ task'[t].left = task[t].left /\ EndsCall(task[t].room)
           /\ \/ inbox' = inbox /\ srv.ring[task[t].room] \notin {"mine", "theirs"}
              \/ Adds(Event("over", task[t].room, {})) /\ Emptied(task[t].room)
           /\ task'[t].request = IF srv.ring[task[t].room] \in {"none", "others"} THEN "no" ELSE "ok"
<1>1. /\ Asked(t, "end") /\ EndCall(task[t].room)
      /\ task' = [task EXCEPT ![t].request =
                      IF srv.ring[task[t].room] \in {"none", "others"} THEN "no" ELSE "ok"]
      /\ UNCHANGED <<store, media, touched, gone, uninvited, hasty, sent, strayed>>
    BY DEF ServeEnd, Serving, Page, Quiet
<1>2. /\ task[t].op = "end" /\ task[t].at = "end" /\ task[t].request = "sent"
      /\ Awaits("end") /\ Sited(task[t]) /\ Unanswered(task[t]) /\ task[t].op # "idle"
    BY <1>1, AskedIs, PointOfOne
<1>3. PICK c \in Chats : c = task[t].room
    BY <1>2 DEF Sited
<1>4. EndsCall(c)
    BY <1>1, <1>3, EndCallDoes
<1>5. PICK q \in {"none", "sent", "ok", "no"} :
          q = IF srv.ring[task[t].room] \in {"none", "others"} THEN "no" ELSE "ok"
    OBVIOUS
<1>9. q \in {"ok", "no"} /\ task' = [task EXCEPT ![t].request = q]
    BY <1>1, <1>5
<1>6. /\ Leaves(t)
      /\ LET n == task'[t] IN
         /\ n.op = task[t].op /\ n.at = task[t].at /\ n.room = task[t].room
         /\ n.flag = task[t].flag /\ n.live = task[t].live /\ n.left = task[t].left
         /\ n.crossed = task[t].crossed /\ n.closed = task[t].closed /\ n.request = q
    BY <1>2, <1>9, RequestChanges
<1>7. \A u \in Slots : SamePoint(task'[u], task[u]) \/ Unanswered(task[u])
    BY <1>2, <1>6 DEF Leaves, SamePoint
<1>8. /\ srv' \in SrvType /\ Answering' /\ inbox' \in Seq(Message)
      /\ \/ inbox' = inbox /\ srv.ring[c] \notin {"mine", "theirs"}
         \/ Adds(Event("over", c, {})) /\ Emptied(c)
    <2>1. CASE UNCHANGED inbox /\ srv.ring[c] \notin {"mine", "theirs"}
        BY <1>4, <1>6, <1>7, <2>1, AnswersStay, SrvFields DEF EndsCall, Leaves, Emptied
    <2>2. CASE Emptied(c) /\ Sends("over", c, {})
        <3>1. Event("over", c, {}) \in Message /\ "over" # "answer"
            BY EventsAre DEF Rooms
        <3> QED
            BY <1>6, <1>7, <2>2, <3>1, SendsAdd DEF Emptied, Leaves
    <2> QED
        BY <1>4, <2>1, <2>2 DEF EndsCall
<1> QED
    BY <1>1, <1>2, <1>3, <1>4, <1>5, <1>6, <1>8 DEF Served, Sound
-----------------------------------------------------------------------------
(* What the server takes, and what others do, leave the page and its tasks. *)

LEMMA EmissionsDiffer ==
    /\ \A r, q, p : <<"leave", r>> # <<"left", q, p>> /\ <<"leave", r>> # <<"ends", q, p>>
                    /\ <<"feeds", r>> # <<"left", q, p>> /\ <<"feeds", r>> # <<"ends", q, p>>
                    /\ <<"end", r>> # <<"left", q, p>> /\ <<"end", r>> # <<"ends", q, p>>
    /\ \A r, q : <<"leave", r>> # <<"end", q>> /\ <<"leave", r>> # <<"feeds", q>>
                 /\ <<"end", r>> # <<"feeds", q>>
    /\ \A r, q : <<"leave", r>> = <<"leave", q>> => r = q
    /\ \A r, q : <<"feeds", r>> = <<"feeds", q>> => r = q
    /\ \A r, q, p, o : <<"left", r, p>> # <<"ends", q, o>>
    /\ \A r, q, p, o : <<"left", r, p>> = <<"left", q, o>> => r = q /\ p = o
<1>1. \A r, q, p : <<"leave", r>> # <<"left", q, p>> /\ <<"leave", r>> # <<"ends", q, p>>
                    /\ <<"feeds", r>> # <<"left", q, p>> /\ <<"feeds", r>> # <<"ends", q, p>>
                    /\ <<"end", r>> # <<"left", q, p>> /\ <<"end", r>> # <<"ends", q, p>>
    OBVIOUS
<1>2. \A r, q : <<"leave", r>> # <<"end", q>> /\ <<"leave", r>> # <<"feeds", q>>
                 /\ <<"end", r>> # <<"feeds", q>>
    OBVIOUS
<1>3. \A r, q : (<<"leave", r>> = <<"leave", q>> => r = q)
                /\ (<<"feeds", r>> = <<"feeds", q>> => r = q)
    OBVIOUS
<1>4. \A r, q, p, o : <<"left", r, p>> # <<"ends", q, o>>
                      /\ (<<"left", r, p>> = <<"left", q, o>> => r = q /\ p = o)
    OBVIOUS
<1> QED
    BY <1>1, <1>2, <1>3, <1>4

Apart == UNCHANGED <<task, store, media, touched, gone, uninvited, hasty>>

LEMMA ApartIs ==
    ASSUME KTypeOK, task' = task
    PROVE  /\ task' \in [Slots -> TaskType]
           /\ \A u \in Slots : SamePoint(task'[u], task[u]) \/ Unanswered(task[u])
    BY DEF KTypeOK, Types, SamePoint

LEMMA TakeLeaveDoes ==
    ASSUME KTypeOK, NEW r \in Rooms, TakeLeave(r)
    PROVE  /\ Apart /\ Sound /\ inbox' = inbox
           /\ <<"leave", r>> \in sent /\ sent' = sent \ {<<"leave", r>>}
           /\ srv'.queue = srv.queue /\ srv'.seats = srv.seats \ {r} /\ srv'.ring = srv.ring
           /\ srv'.listed = srv.listed /\ srv'.used = srv.used
           /\ srv'.present = [srv.present EXCEPT ![r] = IF Cardinality(@) <= 1 THEN {} ELSE @]
           /\ srv'.feeds = (IF Cardinality(srv.present[r]) <= 1 THEN srv.feeds \ Members[r]
                            ELSE srv.feeds)
           /\ strayed' = (IF Again(r) THEN strayed \union {r} ELSE strayed)
<1>1. /\ Apart /\ inbox' = inbox
      /\ <<"leave", r>> \in sent /\ sent' = sent \ {<<"leave", r>>}
      /\ strayed' = (IF Again(r) THEN strayed \union {r} ELSE strayed)
      /\ srv' = [srv EXCEPT !.seats = @ \ {r},
                            !.present[r] = IF Cardinality(@) <= 1 THEN {} ELSE @,
                            !.feeds = IF Cardinality(srv.present[r]) <= 1 THEN @ \ Members[r] ELSE @]
    BY DEF TakeLeave, Emitted, Page, Quiet, Apart
<1>2. /\ srv' \in SrvType
      /\ srv'.queue = srv.queue /\ srv'.seats = srv.seats \ {r} /\ srv'.ring = srv.ring
      /\ srv'.listed = srv.listed /\ srv'.used = srv.used
      /\ srv'.present = [srv.present EXCEPT ![r] = IF Cardinality(@) <= 1 THEN {} ELSE @]
      /\ srv'.feeds = (IF Cardinality(srv.present[r]) <= 1 THEN srv.feeds \ Members[r]
                       ELSE srv.feeds)
    BY <1>1, SrvFields DEF SrvType
<1>3. Answering' /\ inbox' \in Seq(Message)
    BY <1>1, ApartIs, AnswersStay DEF Apart
<1> QED
    BY <1>1, <1>2, <1>3 DEF Sound

LEMMA TakeEndDoes ==
    ASSUME KTypeOK, NEW c \in Chats, TakeEnd(c)
    PROVE  /\ Apart /\ Sound /\ EndsCall(c) /\ UNCHANGED strayed
           /\ <<"end", c>> \in sent /\ sent' = sent \ {<<"end", c>>}
           /\ \/ inbox' = inbox /\ srv.ring[c] \notin {"mine", "theirs"}
              \/ Adds(Event("over", c, {})) /\ Emptied(c)
<1>1. /\ Apart /\ UNCHANGED strayed /\ EndCall(c)
      /\ <<"end", c>> \in sent /\ sent' = sent \ {<<"end", c>>}
    BY DEF TakeEnd, Emitted, Page, Quiet, Apart
<1>2. EndsCall(c)
    BY <1>1, EndCallDoes
<1>3. CASE UNCHANGED inbox /\ srv.ring[c] \notin {"mine", "theirs"}
    BY <1>1, <1>2, <1>3, ApartIs, AnswersStay, SrvFields DEF EndsCall, Apart, Sound, Emptied
<1>4. CASE Emptied(c) /\ Sends("over", c, {})
    <2>1. Event("over", c, {}) \in Message /\ "over" # "answer"
        BY EventsAre DEF Rooms
    <2> QED
        BY <1>1, <1>2, <1>4, <2>1, ApartIs, SendsAdd DEF Emptied, Apart, Sound
<1> QED
    BY <1>2, <1>3, <1>4 DEF EndsCall

LEMMA TakeFeedsDoes ==
    ASSUME KTypeOK, NEW r \in Rooms, TakeFeeds(r)
    PROVE  /\ Apart /\ Sound /\ UNCHANGED <<srv, strayed>>
           /\ <<"feeds", r>> \in sent /\ sent' = sent \ {<<"feeds", r>>}
           /\ LET there == srv.feeds \intersect srv.present[r] IN
              \/ there = {} /\ inbox' = inbox
              \/ there # {} /\ Adds(Event("new", r, there))
<1> DEFINE there == srv.feeds \intersect srv.present[r]
<1>1. /\ Apart /\ UNCHANGED <<srv, strayed>>
      /\ <<"feeds", r>> \in sent /\ sent' = sent \ {<<"feeds", r>>}
      /\ IF there = {} THEN UNCHANGED inbox ELSE Push(<<Event("new", r, there)>>)
    BY DEF TakeFeeds, Emitted, Page, Quiet, Apart
<1>2. there \in SUBSET People
    BY SrvFields
<1> HIDE DEF there
<1>3. CASE there = {}
    BY <1>1, <1>3, ApartIs, AnswersStay, SrvFields DEF Apart, Sound, there
<1>4. CASE there # {}
    <2>1. Event("new", r, there) \in Message /\ "new" # "answer"
        BY <1>2, EventsAre
    <2>2. Sends("new", r, there)
        BY <1>1, <1>4, <2>1, OneIs DEF Sends
    <2> QED
        BY <1>1, <1>4, <2>1, <2>2, ApartIs, SendsAdd, SrvFields DEF Apart, Sound, there
<1> QED
    BY <1>3, <1>4

LEMMA MateLeftDoes ==
    ASSUME KTypeOK, NEW r \in Rooms, NEW p \in Members[r], MateLeft(r, p)
    PROVE  /\ Apart /\ Sound /\ UNCHANGED strayed
           /\ <<"left", r, p>> \in sent /\ sent' = sent \ {<<"left", r, p>>}
           /\ srv'.queue = srv.queue /\ srv'.ring = srv.ring /\ srv'.listed = srv.listed
           /\ srv'.used = srv.used
           /\ LET others == srv.present[r] \ {p} IN
              \E alone \in BOOLEAN :
                 /\ alone = (Cardinality(others) + (IF r \in srv.seats THEN 1 ELSE 0) <= 1)
                 /\ srv'.present = [srv.present EXCEPT ![r] = IF alone THEN {} ELSE others]
                 /\ srv'.seats = (IF alone THEN srv.seats \ {r} ELSE srv.seats)
                 /\ srv'.feeds = srv.feeds \ (IF alone THEN Members[r] ELSE {p})
                 /\ \/ r \notin srv.seats /\ inbox' = inbox
                    \/ r \in srv.seats /\ alone /\ Adds(Event("over", r, {}))
                    \/ r \in srv.seats /\ ~alone /\ Adds(Event("left", r, p))
<1> DEFINE others == srv.present[r] \ {p}
           alone == Cardinality(others) + (IF r \in srv.seats THEN 1 ELSE 0) <= 1
<1>1. /\ Apart /\ UNCHANGED strayed
      /\ <<"left", r, p>> \in sent /\ sent' = sent \ {<<"left", r, p>>}
      /\ srv' = [srv EXCEPT !.present[r] = IF alone THEN {} ELSE others,
                            !.seats = IF alone THEN @ \ {r} ELSE @,
                            !.feeds = @ \ (IF alone THEN Members[r] ELSE {p})]
      /\ IF r \notin srv.seats THEN UNCHANGED inbox
         ELSE Push(<<IF alone THEN Event("over", r, {}) ELSE Event("left", r, p)>>)
    BY DEF MateLeft, Emitted, Page, Quiet, Apart
<1>2. others \in SUBSET People /\ p \in People
    BY SrvFields, MembersArePeople
<1>3. PICK b \in BOOLEAN : b = alone
    <2>1. alone \in BOOLEAN
        OBVIOUS
    <2> QED
        BY <2>1
<1> HIDE DEF others, alone
<1>4. /\ srv' \in SrvType
      /\ srv'.queue = srv.queue /\ srv'.ring = srv.ring /\ srv'.listed = srv.listed
      /\ srv'.used = srv.used
      /\ srv'.present = [srv.present EXCEPT ![r] = IF b THEN {} ELSE others]
      /\ srv'.seats = (IF b THEN srv.seats \ {r} ELSE srv.seats)
      /\ srv'.feeds = srv.feeds \ (IF b THEN Members[r] ELSE {p})
    BY <1>1, <1>2, <1>3, SrvFields DEF SrvType
<1>5. /\ Answering' /\ inbox' \in Seq(Message)
      /\ \/ r \notin srv.seats /\ inbox' = inbox
         \/ r \in srv.seats /\ b /\ Adds(Event("over", r, {}))
         \/ r \in srv.seats /\ ~b /\ Adds(Event("left", r, p))
    <2>1. CASE r \notin srv.seats
        BY <1>1, <2>1, ApartIs, AnswersStay DEF Apart
    <2>2. CASE r \in srv.seats /\ b
        <3>1. Event("over", r, {}) \in Message /\ "over" # "answer"
            BY EventsAre
        <3>2. Sends("over", r, {})
            BY <1>1, <1>3, <2>2, <3>1, OneIs DEF Sends
        <3> QED
            BY <1>1, <2>2, <3>1, <3>2, ApartIs, SendsAdd DEF Apart
    <2>3. CASE r \in srv.seats /\ ~b
        <3>1. Event("left", r, p) \in Message /\ "left" # "answer"
            BY <1>2, EventsAre
        <3>2. Sends("left", r, p)
            BY <1>1, <1>3, <2>3, <3>1, OneIs DEF Sends
        <3> QED
            BY <1>1, <2>3, <3>1, <3>2, ApartIs, SendsAdd DEF Apart
    <2> QED
        BY <2>1, <2>2, <2>3
<1> QED
    BY <1>1, <1>3, <1>4, <1>5 DEF Sound, others, alone

LEMMA MateEndsDoes ==
    ASSUME KTypeOK, NEW c \in Chats, NEW p \in Members[c], MateEnds(c, p)
    PROVE  /\ Apart /\ Sound /\ UNCHANGED strayed
           /\ <<"ends", c, p>> \in sent /\ sent' = sent \ {<<"ends", c, p>>}
           /\ \/ /\ ~InCall(c) \/ p \notin srv.listed[c]
                 /\ srv' = srv /\ inbox' = inbox
              \/ /\ InCall(c) /\ p \in srv.listed[c]
                 /\ Emptied(c) /\ Adds(Event("over", c, {}))
              \/ /\ InCall(c) /\ p \in srv.listed[c]
                 /\ srv' = srv /\ Adds(Event("left", c, p))
<1>1. /\ Apart /\ UNCHANGED strayed
      /\ <<"ends", c, p>> \in sent /\ sent' = sent \ {<<"ends", c, p>>}
    BY DEF MateEnds, Emitted, Page, Quiet, Apart
<1>2. \/ (~InCall(c) \/ p \notin srv.listed[c]) /\ UNCHANGED <<srv, inbox>>
      \/ /\ InCall(c) /\ p \in srv.listed[c]
         /\ srv' = [Ring(c, "none") EXCEPT !.listed[c] = {}] /\ Push(<<Event("over", c, {})>>)
      \/ /\ InCall(c) /\ p \in srv.listed[c]
         /\ UNCHANGED srv /\ Push(<<Event("left", c, p)>>)
    BY DEF MateEnds
<1>3. p \in People /\ c \in Rooms
    BY MembersArePeople DEF Rooms
<1>4. CASE (~InCall(c) \/ p \notin srv.listed[c]) /\ UNCHANGED <<srv, inbox>>
    BY <1>1, <1>4, ApartIs, AnswersStay, SrvFields DEF Apart, Sound
<1>5. CASE /\ InCall(c) /\ p \in srv.listed[c]
           /\ srv' = [Ring(c, "none") EXCEPT !.listed[c] = {}] /\ Push(<<Event("over", c, {})>>)
    <2>1. Event("over", c, {}) \in Message /\ "over" # "answer"
        BY <1>3, EventsAre
    <2>2. Sends("over", c, {}) /\ Emptied(c)
        BY <1>5, <2>1, OneIs, EmptiedIs DEF Sends
    <2> QED
        BY <1>1, <1>5, <2>1, <2>2, ApartIs, SendsAdd DEF Apart, Sound, Emptied
<1>6. CASE InCall(c) /\ p \in srv.listed[c] /\ UNCHANGED srv /\ Push(<<Event("left", c, p)>>)
    <2>1. Event("left", c, p) \in Message /\ "left" # "answer"
        BY <1>3, EventsAre
    <2>2. Sends("left", c, p)
        BY <1>6, <2>1, OneIs DEF Sends
    <2> QED
        BY <1>1, <1>6, <2>1, <2>2, ApartIs, SendsAdd, SrvFields DEF Apart, Sound
<1> QED
    BY <1>2, <1>4, <1>5, <1>6
LEMMA MatchDoes ==
    ASSUME KTypeOK, NEW r \in MatchRooms, Match(r)
    PROVE  /\ Apart /\ Sound /\ UNCHANGED <<strayed, sent>>
           /\ srv.queue /\ r \notin srv.used /\ srv'.queue = FALSE
           /\ srv'.seats = srv.seats \union {r} /\ srv'.ring = srv.ring
           /\ srv'.listed = srv.listed /\ srv'.used = srv.used \union {r}
           /\ srv'.present = [srv.present EXCEPT ![r] = Members[r]]
           /\ srv'.feeds = srv.feeds /\ Adds(Event("success", r, {}))
<1>1. /\ Apart /\ UNCHANGED <<strayed, sent>> /\ srv.queue /\ r \notin srv.used
      /\ srv' = [srv EXCEPT !.queue = FALSE, !.seats = @ \union {r}, !.used = @ \union {r},
                            !.present[r] = Members[r]]
      /\ Push(<<Event("success", r, {})>>)
    BY DEF Match, Act, Page, Quiet, Apart
<1>2. r \in Rooms /\ Members[r] \subseteq People
    BY MembersArePeople DEF Rooms
<1>3. Event("success", r, {}) \in Message /\ "success" # "answer"
    BY <1>2, EventsAre
<1>4. Adds(Event("success", r, {})) /\ Answering' /\ inbox' \in Seq(Message)
    <2>1. Sends("success", r, {})
        BY <1>1, <1>3, OneIs DEF Sends
    <2> QED
        BY <1>1, <1>3, <2>1, ApartIs, SendsAdd DEF Apart
<1>5. /\ srv' \in SrvType /\ srv'.queue = FALSE
      /\ srv'.seats = srv.seats \union {r} /\ srv'.ring = srv.ring
      /\ srv'.listed = srv.listed /\ srv'.used = srv.used \union {r}
      /\ srv'.present = [srv.present EXCEPT ![r] = Members[r]] /\ srv'.feeds = srv.feeds
    BY <1>1, <1>2, SrvFields DEF SrvType
<1> QED
    BY <1>1, <1>4, <1>5 DEF Sound

LEMMA MateHangsUpDoes ==
    ASSUME KTypeOK, NEW r \in Rooms, NEW p \in Members[r], MateHangsUp(r, p)
    PROVE  /\ Apart /\ Sound /\ UNCHANGED <<strayed, srv, inbox>>
           /\ p \in srv.present[r]
           /\ sent' = sent \union {<<"left", r, p>>}
                           \union (IF r \in Chats THEN {<<"ends", r, p>>} ELSE {})
<1>1. /\ Apart /\ UNCHANGED <<strayed, srv, inbox>> /\ p \in srv.present[r]
      /\ sent' = sent \union {<<"left", r, p>>}
                      \union (IF r \in Chats THEN {<<"ends", r, p>>} ELSE {})
    BY DEF MateHangsUp, Act, Page, Quiet, Apart
<1>2. Answering' /\ inbox' \in Seq(Message)
    BY <1>1, ApartIs, AnswersStay DEF Apart
<1> QED
    BY <1>1, <1>2, SrvFields DEF Sound

LEMMA MateProducesDoes ==
    ASSUME KTypeOK, NEW r \in Rooms, NEW p \in Members[r], MateProduces(r, p)
    PROVE  /\ Apart /\ Sound /\ UNCHANGED <<strayed, sent>>
           /\ p \in srv.present[r] /\ p \notin srv.feeds
           /\ srv'.queue = srv.queue /\ srv'.seats = srv.seats /\ srv'.ring = srv.ring
           /\ srv'.listed = srv.listed /\ srv'.used = srv.used
           /\ srv'.present = srv.present /\ srv'.feeds = srv.feeds \union {p}
           /\ \/ r \notin srv.seats /\ inbox' = inbox
              \/ r \in srv.seats /\ Adds(Event("new", r, {p}))
<1>1. /\ Apart /\ UNCHANGED <<strayed, sent>> /\ p \in srv.present[r] /\ p \notin srv.feeds
      /\ srv' = [srv EXCEPT !.feeds = @ \union {p}]
      /\ IF r \in srv.seats THEN Push(<<Event("new", r, {p})>>) ELSE UNCHANGED inbox
    BY DEF MateProduces, Act, Page, Quiet, Apart
<1>2. p \in People
    BY MembersArePeople
<1>3. /\ srv' \in SrvType
      /\ srv'.queue = srv.queue /\ srv'.seats = srv.seats /\ srv'.ring = srv.ring
      /\ srv'.listed = srv.listed /\ srv'.used = srv.used
      /\ srv'.present = srv.present /\ srv'.feeds = srv.feeds \union {p}
    BY <1>1, <1>2, SrvFields DEF SrvType
<1>4. CASE r \notin srv.seats
    BY <1>1, <1>3, <1>4, ApartIs, AnswersStay DEF Apart, Sound
<1>5. CASE r \in srv.seats
    <2>1. PICK f \in SUBSET People : f = {p}
        BY <1>2
    <2>2. Event("new", r, {p}) \in Message /\ "new" # "answer"
        BY <2>1, EventsAre
    <2>3. Sends("new", r, {p})
        BY <1>1, <1>5, <2>2, OneIs DEF Sends
    <2> QED
        BY <1>1, <1>3, <1>5, <2>2, <2>3, ApartIs, SendsAdd DEF Apart, Sound
<1> QED
    BY <1>4, <1>5

LEMMA FriendCallsDoes ==
    ASSUME KTypeOK, NEW c \in Chats, NEW p \in Members[c], FriendCalls(c, p)
    PROVE  /\ Apart /\ Sound /\ UNCHANGED <<strayed, sent>> /\ srv.ring[c] = "none"
           /\ srv'.queue = srv.queue /\ srv'.seats = srv.seats
           /\ srv'.ring = [srv.ring EXCEPT ![c] = "theirs"]
           /\ srv'.listed = [srv.listed EXCEPT ![c] = {p}] /\ srv'.used = srv.used
           /\ srv'.present = srv.present /\ srv'.feeds = srv.feeds
           /\ Adds(Event("incoming", c, {}))
<1>1. /\ Apart /\ UNCHANGED <<strayed, sent>> /\ srv.ring[c] = "none"
      /\ srv' = [Ring(c, "theirs") EXCEPT !.listed[c] = {p}]
      /\ Push(<<Event("incoming", c, {})>>)
    BY DEF FriendCalls, Act, Page, Quiet, Apart
<1>2. p \in People /\ "theirs" \in Rings4 /\ c \in Rooms
    BY MembersArePeople DEF Rings4, Rooms
<1>3. PICK n : /\ n = Ring(c, "theirs") /\ n \in SrvType /\ n.queue = srv.queue
               /\ n.seats = srv.seats
               /\ n.ring = [srv.ring EXCEPT ![c] = "theirs"] /\ n.listed = srv.listed
               /\ n.present = srv.present /\ n.feeds = srv.feeds /\ n.used = srv.used
    BY <1>2, RingIs
<1>4. srv' = [n EXCEPT !.listed[c] = {p}]
    BY <1>1, <1>3
<1>4a. n.listed \in [Chats -> SUBSET People] /\ {p} \in SUBSET People
    BY <1>2, <1>3 DEF SrvType
<1>4b. /\ srv'.queue = n.queue /\ srv'.seats = n.seats
       /\ srv'.ring = n.ring /\ srv'.listed = [n.listed EXCEPT ![c] = {p}]
       /\ srv'.used = n.used /\ srv'.present = n.present /\ srv'.feeds = n.feeds
    BY <1>3, <1>4 DEF SrvType
<1>4c. [n.listed EXCEPT ![c] = {p}] \in [Chats -> SUBSET People]
    BY <1>4a
<1>4d. srv' \in SrvType
    BY <1>3, <1>4, <1>4c DEF SrvType
<1>5. /\ srv' \in SrvType /\ srv'.queue = n.queue /\ srv'.seats = n.seats
      /\ srv'.ring = n.ring /\ srv'.listed = [n.listed EXCEPT ![c] = {p}]
      /\ srv'.used = n.used /\ srv'.present = n.present /\ srv'.feeds = n.feeds
    BY <1>4b, <1>4d
<1>6. Event("incoming", c, {}) \in Message /\ "incoming" # "answer"
    BY EventsAre
<1>7. Sends("incoming", c, {})
    BY <1>1, <1>6, OneIs DEF Sends
<1>8. Adds(Event("incoming", c, {})) /\ Answering' /\ inbox' \in Seq(Message)
    BY <1>1, <1>6, <1>7, ApartIs, SendsAdd DEF Apart
<1> QED
    BY <1>1, <1>3, <1>5, <1>8 DEF Sound

LEMMA RingOverDoes ==
    ASSUME KTypeOK, NEW c \in Chats, RingOver(c)
    PROVE  /\ Apart /\ Sound /\ UNCHANGED <<strayed, sent>>
           /\ srv.ring[c] \in {"mine", "theirs"} /\ Emptied(c)
           /\ Adds(Event("over", c, {}))
<1>1. /\ Apart /\ UNCHANGED <<strayed, sent>> /\ srv.ring[c] \in {"mine", "theirs"}
      /\ srv' = [Ring(c, "none") EXCEPT !.listed[c] = {}]
      /\ Push(<<Event("over", c, {})>>)
    BY DEF RingOver, Act, Page, Quiet, Apart
<1>2. Event("over", c, {}) \in Message /\ "over" # "answer"
    BY EventsAre DEF Rooms
<1>3. Sends("over", c, {}) /\ Emptied(c)
    BY <1>1, <1>2, OneIs, EmptiedIs DEF Sends
<1> QED
    BY <1>1, <1>2, <1>3, ApartIs, SendsAdd DEF Apart, Sound, Emptied

LEMMA FriendAcceptsDoes ==
    ASSUME KTypeOK, NEW c \in Chats, NEW p \in Members[c], FriendAccepts(c, p)
    PROVE  /\ Apart /\ Sound /\ UNCHANGED <<strayed, sent>>
           /\ srv.ring[c] # "none" /\ p \notin srv.listed[c]
           /\ srv'.queue = srv.queue /\ srv'.used = srv.used /\ srv'.feeds = srv.feeds
           /\ srv'.listed = [srv.listed EXCEPT ![c] = @ \union {p}]
           /\ \/ /\ srv.ring[c] = "mine"
                 /\ srv'.ring = [srv.ring EXCEPT ![c] = "active"]
                 /\ srv'.seats = srv.seats \union {c}
                 /\ srv'.present = [srv.present EXCEPT ![c] = @ \union {p}]
                 /\ AddsTwo(Event("success", c, {}), Event("joined", c, p))
              \/ /\ srv.ring[c] = "theirs"
                 /\ srv'.ring = [srv.ring EXCEPT ![c] = "others"] /\ srv'.seats = srv.seats
                 /\ srv'.present = [srv.present EXCEPT ![c] = @ \union srv.listed[c] \union {p}]
                 /\ Adds(Event("joined", c, p))
              \/ /\ srv.ring[c] \notin {"mine", "theirs"}
                 /\ srv'.ring = srv.ring /\ srv'.seats = srv.seats
                 /\ srv'.present = [srv.present EXCEPT ![c] = @ \union {p}]
                 /\ Adds(Event("joined", c, p))
<1>1. /\ Apart /\ UNCHANGED <<strayed, sent>> /\ srv.ring[c] # "none" /\ p \notin srv.listed[c]
    BY DEF FriendAccepts, Act, Page, Quiet, Apart
<1>2. p \in People /\ c \in Rooms
    BY MembersArePeople DEF Rooms
<1>2a. /\ srv.listed[c] \union {p} \in SUBSET People
       /\ srv.present[c] \union srv.listed[c] \union {p} \in SUBSET People
       /\ srv.present[c] \union {p} \in SUBSET People
       /\ srv.seats \union {c} \in SUBSET Rooms /\ srv.seats \in SUBSET Rooms
       /\ srv.ring[c] \in Rings4 /\ "active" \in Rings4 /\ "others" \in Rings4
    BY <1>2, SrvFields DEF Rings4
<1>2b. [srv.listed EXCEPT ![c] = srv.listed[c] \union {p}] \in [Chats -> SUBSET People]
    BY <1>2a, SrvFields
<1>3. Event("joined", c, p) \in Message /\ Event("success", c, {}) \in Message
      /\ "joined" # "answer" /\ "success" # "answer"
    BY <1>2, EventsAre
<1> DEFINE mine == srv.ring[c] = "mine"
           all == srv.listed[c] \union {p}
<1>4. /\ srv' = [srv EXCEPT !.ring[c] = CASE mine -> "active" [] @ = "theirs" -> "others"
                                          [] OTHER -> @,
                            !.listed[c] = all,
                            !.seats = IF mine THEN @ \union {c} ELSE @,
                            !.present[c] = @ \union (IF srv.ring[c] = "theirs" THEN all ELSE {p})]
      /\ Push((IF mine THEN <<Event("success", c, {})>> ELSE <<>>) \o <<Event("joined", c, p)>>)
    BY DEF FriendAccepts
<1>5. CASE mine
    <2>1. srv' = [srv EXCEPT !.ring[c] = "active", !.listed[c] = srv.listed[c] \union {p},
                             !.seats = srv.seats \union {c},
                             !.present[c] = srv.present[c] \union {p}]
        BY <1>4, <1>5, <1>2, SrvFields DEF SrvType
    <2>a. [srv.ring EXCEPT ![c] = "active"] \in [Chats -> Rings4]
        BY <1>2a, SrvFields
    <2>b. [srv.present EXCEPT ![c] = srv.present[c] \union {p}] \in [Rooms -> SUBSET People]
        BY <1>2a, <1>2, SrvFields
    <2>c. /\ srv'.queue = srv.queue /\ srv'.used = srv.used /\ srv'.feeds = srv.feeds
          /\ srv'.seats = srv.seats \union {c}
          /\ srv'.ring = [srv.ring EXCEPT ![c] = "active"]
          /\ srv'.listed = [srv.listed EXCEPT ![c] = @ \union {p}]
          /\ srv'.present = [srv.present EXCEPT ![c] = @ \union {p}]
        BY <2>1, <1>2, SrvFields DEF SrvType
    <2>d. srv' \in SrvType
        BY <2>1, <2>a, <2>b, <1>2a, <1>2b, SrvFields DEF SrvType
    <2>2. /\ srv' \in SrvType /\ srv'.queue = srv.queue /\ srv'.used = srv.used
          /\ srv'.feeds = srv.feeds
          /\ srv'.listed = [srv.listed EXCEPT ![c] = @ \union {p}]
          /\ srv'.ring = [srv.ring EXCEPT ![c] = "active"]
          /\ srv'.seats = srv.seats \union {c}
          /\ srv'.present = [srv.present EXCEPT ![c] = @ \union {p}]
        BY <2>c, <2>d
    <2> DEFINE s == <<Event("success", c, {})>> \o <<Event("joined", c, p)>>
    <2>3. s \in Seq(Message) /\ Len(s) = 2 /\ s[1] = Event("success", c, {})
          /\ s[2] = Event("joined", c, p)
        <3>1. PICK m \in Message, n \in Message :
                  m = Event("success", c, {}) /\ n = Event("joined", c, p)
            BY <1>3
        <3>2. <<m>> \in Seq(Message) /\ Len(<<m>>) = 1 /\ <<m>>[1] = m
              /\ <<n>> \in Seq(Message) /\ Len(<<n>>) = 1 /\ <<n>>[1] = n
            BY OneIs
        <3>3. /\ <<m>> \o <<n>> \in Seq(Message) /\ Len(<<m>> \o <<n>>) = 2
              /\ (<<m>> \o <<n>>)[1] = m /\ (<<m>> \o <<n>>)[2] = n
            BY <3>2, ConcatProperties
        <3> QED
            BY <3>1, <3>3
    <2>4. Push(s)
        BY <1>4, <1>5
    <2> HIDE DEF s
    <2>5. PICK m \in Message, n \in Message :
              m = Event("success", c, {}) /\ n = Event("joined", c, p)
        BY <1>3
    <2>6. AddsTwo(m, n)
        BY <2>3, <2>4, <2>5, AddsBoth
    <2>7. m.ev # "answer" /\ n.ev # "answer"
        BY <2>5, EventFields
    <2>8. \A i \in 1..Len(s) : s[i].ev # "answer"
        BY <2>3, <2>5, <2>7
    <2>9. Answering' /\ inbox' \in Seq(Message)
        BY <1>1, <2>3, <2>4, <2>8, ApartIs, EventsPushed DEF Apart
    <2> QED
        BY <1>1, <1>5, <2>2, <2>5, <2>6, <2>9 DEF Sound
<1>6. CASE ~mine
    <2>1. Push(<<Event("joined", c, p)>>)
        <3>1. <<>> \o <<Event("joined", c, p)>> = <<Event("joined", c, p)>>
            OBVIOUS
        <3> QED
            BY <1>4, <1>6, <3>1
    <2>2. Sends("joined", c, p)
        BY <1>3, <2>1, OneIs DEF Sends
    <2>3. Adds(Event("joined", c, p)) /\ Answering' /\ inbox' \in Seq(Message)
        BY <1>1, <1>3, <2>2, ApartIs, SendsAdd DEF Apart
    <2>4. CASE srv.ring[c] = "theirs"
        <3>1. srv' = [srv EXCEPT !.ring[c] = "others", !.listed[c] = srv.listed[c] \union {p},
                                 !.seats = srv.seats,
                                 !.present[c] = srv.present[c] \union srv.listed[c] \union {p}]
            BY <1>4, <1>6, <2>4, <1>2, SrvFields DEF SrvType
        <3>a. [srv.ring EXCEPT ![c] = "others"] \in [Chats -> Rings4]
            BY <1>2a, SrvFields
        <3>b. [srv.present EXCEPT ![c] = srv.present[c] \union srv.listed[c] \union {p}] \in [Rooms -> SUBSET People]
            BY <1>2a, <1>2, SrvFields
        <3>c. /\ srv'.queue = srv.queue /\ srv'.used = srv.used /\ srv'.feeds = srv.feeds
              /\ srv'.seats = srv.seats
              /\ srv'.ring = [srv.ring EXCEPT ![c] = "others"]
              /\ srv'.listed = [srv.listed EXCEPT ![c] = @ \union {p}]
              /\ srv'.present = [srv.present EXCEPT ![c] = @ \union srv.listed[c] \union {p}]
            BY <3>1, <1>2, SrvFields DEF SrvType
        <3>d. srv' \in SrvType
            BY <3>1, <3>a, <3>b, <1>2a, <1>2b, SrvFields DEF SrvType
        <3>2. /\ srv' \in SrvType /\ srv'.queue = srv.queue /\ srv'.used = srv.used
              /\ srv'.feeds = srv.feeds
              /\ srv'.listed = [srv.listed EXCEPT ![c] = @ \union {p}]
              /\ srv'.ring = [srv.ring EXCEPT ![c] = "others"] /\ srv'.seats = srv.seats
              /\ srv'.present = [srv.present EXCEPT ![c] = @ \union srv.listed[c] \union {p}]
            BY <3>c, <3>d
        <3> QED
            BY <1>1, <2>3, <2>4, <3>2 DEF Sound
    <2>5. CASE srv.ring[c] # "theirs"
        <3>1. srv' = [srv EXCEPT !.ring[c] = srv.ring[c], !.listed[c] = srv.listed[c] \union {p},
                                 !.seats = srv.seats,
                                 !.present[c] = srv.present[c] \union {p}]
            BY <1>4, <1>6, <2>5, <1>2, SrvFields DEF SrvType
        <3>a. [srv.ring EXCEPT ![c] = srv.ring[c]] \in [Chats -> Rings4]
            BY <1>2a, SrvFields
        <3>b. [srv.present EXCEPT ![c] = srv.present[c] \union {p}] \in [Rooms -> SUBSET People]
            BY <1>2a, <1>2, SrvFields
        <3>c. /\ srv'.queue = srv.queue /\ srv'.used = srv.used /\ srv'.feeds = srv.feeds
              /\ srv'.seats = srv.seats
              /\ srv'.ring = [srv.ring EXCEPT ![c] = srv.ring[c]]
              /\ srv'.listed = [srv.listed EXCEPT ![c] = @ \union {p}]
              /\ srv'.present = [srv.present EXCEPT ![c] = @ \union {p}]
            BY <3>1, <1>2, SrvFields DEF SrvType
        <3>d. srv' \in SrvType
            BY <3>1, <3>a, <3>b, <1>2a, <1>2b, SrvFields DEF SrvType
        <3>2. /\ srv' \in SrvType /\ srv'.queue = srv.queue /\ srv'.used = srv.used
              /\ srv'.feeds = srv.feeds
              /\ srv'.listed = [srv.listed EXCEPT ![c] = @ \union {p}]
              /\ srv'.ring = [srv.ring EXCEPT ![c] = srv.ring[c]] /\ srv'.seats = srv.seats
              /\ srv'.present = [srv.present EXCEPT ![c] = @ \union {p}]
            BY <3>c, <3>d
        <3>3. srv'.ring = srv.ring
            BY <3>2, SrvFields
        <3> QED
            BY <1>1, <1>6, <2>3, <2>5, <3>2, <3>3 DEF Sound
    <2> QED
        BY <2>4, <2>5
<1> QED
    BY <1>5, <1>6
-----------------------------------------------------------------------------
(* The connection is lost.                                                 *)

\* What the server has of the user then.
Drops ==
    /\ srv' \in SrvType /\ srv'.queue = FALSE /\ srv'.seats = {} /\ srv'.used = srv.used
    /\ \A q \in Rooms : srv'.present[q] \subseteq srv.present[q]
    /\ \A d \in Chats : srv'.listed[d] \subseteq srv.listed[d]
    /\ srv'.feeds \subseteq srv.feeds
    /\ \A q \in Rooms : srv'.present[q] = srv.present[q] \/ srv'.feeds \intersect Members[q] = {}

LEMMA DisconnectDoes ==
    ASSUME KTypeOK, Disconnect
    PROVE  Drops
<1>1. PICK r, c : srv' = Dropped(r, c)
    BY DEF Disconnect
<1> DEFINE alone == r # NoRoom /\ Cardinality(srv.present[r]) <= 1
           over == c # NoRoom /\ Cardinality(srv.listed[c]) <= 1
           left == IF over THEN "none" ELSE "left"
           present == [q \in Rooms |-> IF q = r /\ alone THEN {} ELSE srv.present[q]]
           feeds == IF alone THEN srv.feeds \ Members[r] ELSE srv.feeds
           ring == [d \in Chats |-> IF d = c THEN left ELSE srv.ring[d]]
           listed == [d \in Chats |-> IF d = c /\ over THEN {} ELSE srv.listed[d]]
<1>2. srv' = [srv EXCEPT !.queue = FALSE, !.seats = {}, !.present = present, !.feeds = feeds,
                         !.ring = ring, !.listed = listed]
    BY <1>1 DEF Dropped
<1>3. present \in [Rooms -> SUBSET People] /\ \A q \in Rooms : present[q] \subseteq srv.present[q]
    BY SrvFields
<1>4. listed \in [Chats -> SUBSET People] /\ \A d \in Chats : listed[d] \subseteq srv.listed[d]
    BY SrvFields
<1>5. ring \in [Chats -> Rings4]
    BY SrvFields DEF Rings4
<1>6. feeds \subseteq srv.feeds
    OBVIOUS
<1>7. \A q \in Rooms : present[q] = srv.present[q] \/ feeds \intersect Members[q] = {}
    OBVIOUS
<1> HIDE DEF present, feeds, ring, listed
<1>8. /\ srv' \in SrvType /\ srv'.queue = FALSE /\ srv'.seats = {} /\ srv'.used = srv.used
      /\ srv'.present = present /\ srv'.listed = listed /\ srv'.feeds = feeds
    <2>1. feeds \subseteq People
        BY <1>6, SrvFields
    <2> QED
        BY <1>2, <1>3, <1>4, <1>5, <2>1, SrvFields DEF SrvType
<1> QED
    BY <1>3, <1>4, <1>6, <1>7, <1>8 DEF Drops

\* Functions go on as they were, or are no more.
Breaks ==
    /\ task' \in [Slots -> TaskType]
    /\ \A t \in Slots : \/ Awaits(task[t].at) /\ task'[t] = Idle
                        \/ ~Awaits(task[t].at) /\ task'[t] = task[t]

LEMMA ConnectionLostDoes ==
    ASSUME KTypeOK, ConnectionLost
    PROVE  /\ Drops /\ Breaks /\ inbox' = <<>>
           /\ UNCHANGED <<store, media>> /\ touched' \in BOOLEAN /\ (touched => touched')
           /\ strayed \subseteq strayed' /\ hasty \subseteq hasty'
<1>1. Drops
    BY DisconnectDoes DEF ConnectionLost
<1>2. task' = [t \in Slots |-> IF Awaits(task[t].at) THEN Idle ELSE task[t]]
    BY DEF ConnectionLost
<1>3. Breaks
    <2>1. \A t \in Slots : task[t] \in TaskType
        BY FitsIs
    <2>2. Idle \in TaskType
        BY IdleFits
    <2>3. task' \in [Slots -> TaskType]
        BY <1>2, <2>1, <2>2
    <2> QED
        BY <1>2, <2>3 DEF Breaks
<1>4. touched' \in BOOLEAN /\ (touched => touched')
    BY DEF ConnectionLost, KTypeOK, Types
<1> QED
    BY <1>1, <1>3, <1>4 DEF ConnectionLost
-----------------------------------------------------------------------------
(* KTypeOK is an invariant.                                                *)

LEMMA InitTypes ==
    ASSUME KInit
    PROVE  KTypeOK
<1>1. FreshStore \in StoreType /\ FreshMedia \in MediaType
    BY DEF FreshStore, FreshMedia, StoreType, MediaType, States, Off, NoProducers, NoConsumers,
       Produced
<1>2. srv \in SrvType
    BY DEF KInit, SrvType, Rings4
<1>3. <<>> \in Seq(Message) /\ Len(<<>>) = 0
    BY EmptySeq
<1>4. task \in [Slots -> TaskType] /\ \A t \in Slots : task[t] = Idle
    BY IdleFits DEF KInit
<1>5. \A t \in Slots : WellFormed(task[t]) /\ task[t].op = "idle"
    BY <1>4, IdleFits
<1>6. Answering
    BY <1>3 DEF KInit, Answering
<1>7. store.state = "ended"
    BY DEF KInit, FreshStore
<1>8. Placed /\ Roomed
    BY <1>5, <1>7 DEF Placed, Roomed, Live
<1>9. touched \in BOOLEAN /\ inbox \in Seq(Message) /\ store \in StoreType /\ media \in MediaType
    BY <1>1, <1>3 DEF KInit
<1> QED
    BY <1>2, <1>4, <1>5, <1>6, <1>8, <1>9 DEF KTypeOK, Types

\* No room is forgotten, and nobody accepts a call without one.
Keeps ==
    /\ store.room \in Rooms => store'.room \in Rooms
    /\ \A u \in Slots : task'[u].op = "accept" => task[u].op = "accept" \/ store'.room \in Rooms

LEMMA TypesKept ==
    ASSUME KTypeOK, Keeps, task' \in [Slots -> TaskType], \A u \in Slots : WellFormed(task'[u]),
           store' \in StoreType, media' \in MediaType, Placed', Sound, touched' \in BOOLEAN
    PROVE  KTypeOK'
<1>1. Roomed'
    BY DEF Keeps, KTypeOK, Roomed
<1>2. Types'
    BY DEF Types, Sound
<1>3. (\A u \in Slots : WellFormed(task[u]))'
    OBVIOUS
<1> QED
    BY <1>1, <1>2, <1>3 DEF KTypeOK, Sound

LEMMA PageStays ==
    ASSUME KTypeOK, store' = store
    PROVE  Placed' /\ store' \in StoreType
    BY DEF KTypeOK, Types, Placed

\* Of the slots, only t has changed, or an end has crossed them.
LEMMA LeavesKeeps ==
    ASSUME NEW t \in Slots, \A u \in Slots \ {t} : task'[u].op = task[u].op,
           task'[t].op # "accept" \/ task'[t].op = task[t].op,
           store.room \in Rooms => store'.room \in Rooms
    PROVE  Keeps
    BY DEF Keeps

LEMMA ContinueKeeps ==
    ASSUME KTypeOK, NEW t \in Slots, NEW k, NEW s, Starts(t, k, s), k.request = "none",
           Continue(t, k, s)
    PROVE  Keeps
<1>0. k.op # "accept" /\ s.room = store.room
    BY DEF Starts, Tracks
<1>1. CASE AskMatch(t, k, s)
    BY <1>0, <1>1, AskMatchDoes DEF Keeps, Leaves, Asks
<1>2. CASE AskRing(t, k, s)
    BY <1>0, <1>2, AskRingDoes DEF Keeps, Leaves, Asks, Rooms
<1>3. CASE StartSetup(t, k, s)
    <2>1. Leaves(t) /\ task'[t].op = "setup" /\ (store.room \in Rooms => store'.room \in Rooms)
        BY <1>3, StartSetupDoes
    <2> QED
        BY <2>1, LeavesKeeps DEF Leaves
<1>4. CASE Turn(t, k, s)
    <2>1. Leaves(t) /\ store'.room = store.room /\ (task'[t] = Idle \/ task'[t].op \in Tracks)
        BY <1>4, TurnDoes
    <2>2. task'[t].op # "accept"
        BY <2>1, IdleFits DEF Tracks
    <2> QED
        BY <2>1, <2>2, LeavesKeeps DEF Leaves
<1> QED
    BY <1>1, <1>2, <1>3, <1>4 DEF Continue

LEMMA EndsKeeps ==
    ASSUME KTypeOK, NEW over, Ends(over), EndsPage
    PROVE  Keeps
    BY IdleFits DEF Keeps, Ends, EndsPage

LEMMA CameraTypes ==
    ASSUME KTypeOK, NEW t \in Slots, CameraOpens(t) \/ CameraFails(t)
    PROVE  KTypeOK'
<1>1. CASE CameraOpens(t)
    <2>1. PICK k, s : Opens(t, k, s)
        BY <1>1, CameraOpensDoes
    <2>2. Starts(t, k, s) /\ Continue(t, k, s) /\ k.request = "none"
        BY <2>1 DEF Opens
    <2>3. Leaves(t) /\ Placed' /\ store' \in StoreType /\ media' \in MediaType /\ Keeps
        BY <2>2, ContinueDoes, ContinueKeeps
    <2>4. UNCHANGED <<inbox, srv>>
          /\ touched' = (touched \/ task[t].crossed \/ (task[t].op \in Tracks /\ store.state = "ended"))
        BY <1>1 DEF CameraOpens
    <2>5. \A u \in Slots : SamePoint(task'[u], task[u]) \/ Unanswered(task[u])
        BY <2>2, <2>3 DEF Leaves, SamePoint, Starts
    <2>6. Sound
        BY <2>3, <2>4, <2>5, AnswersStay, SrvFields DEF Leaves, Sound
    <2> QED
        BY <2>3, <2>4, <2>6, TypesKept DEF Leaves
<1>2. CASE CameraFails(t)
    <2>1. /\ task[t].at = "camera" /\ task'[t] = Idle /\ UNCHANGED <<inbox, srv>>
          /\ \/ Ends({t}) /\ EndsPage
             \/ Leaves(t) /\ UNCHANGED <<store, media, touched>>
        BY <1>2, CameraFailsDoes
    <2>2. Unanswered(task[t])
        BY <2>1 DEF Unanswered, Awaits
    <2>3. CASE Ends({t}) /\ EndsPage
        <3>1. \A u \in Slots : SamePoint(task'[u], task[u]) \/ Unanswered(task[u])
            BY <2>2, <2>3, IdleFits DEF Ends, SamePoint
        <3>2. Sound
            BY <2>1, <2>3, <3>1, AnswersStay, SrvFields DEF Ends, Sound
        <3> QED
            BY <2>3, <3>2, EndsKeeps, TypesKept DEF Ends, EndsPage
    <2>4. CASE Leaves(t) /\ UNCHANGED <<store, media, touched>>
        <3>1. \A u \in Slots : SamePoint(task'[u], task[u]) \/ Unanswered(task[u])
            BY <2>2, <2>4 DEF Leaves, SamePoint
        <3>2. Sound
            BY <2>1, <2>4, <3>1, AnswersStay, SrvFields DEF Leaves, Sound
        <3>3. Keeps
            BY <2>1, <2>4, IdleFits, LeavesKeeps DEF Leaves
        <3> QED
            BY <2>4, <3>2, <3>3, PageStays, TypesKept DEF Leaves, KTypeOK, Types
    <2> QED
        BY <2>1, <2>3, <2>4
<1> QED
    BY <1>1, <1>2

\* An answer is taken, and only its function changes but for what it closes.
LEMMA HeardSound ==
    ASSUME KTypeOK, NEW t \in Slots, inbox # <<>>, Take, Head(inbox).ev = "answer",
           Head(inbox).room = t, task' \in [Slots -> TaskType],
           \A u \in Slots \ {t} : SamePoint(task'[u], task[u]), srv' = srv
    PROVE  Sound
<1>1. \A u \in Slots : \/ SamePoint(task'[u], task[u]) \/ Unanswered(task[u])
                       \/ Head(inbox).ev = "answer" /\ Head(inbox).room = u
    OBVIOUS
<1> QED
    BY <1>1, AnswersTaken, SrvFields DEF Sound

LEMMA SetupTypes ==
    ASSUME KTypeOK, NEW t \in Slots, Setup(t)
    PROVE  KTypeOK'
<1>1. CASE InitializeDevice(t) \/ LoadDevice(t)
    <2>1. /\ task[t].op = "setup" /\ task[t].request = "none" /\ Leaves(t) /\ Continued(t)
          /\ media' \in MediaType /\ UNCHANGED <<store, inbox, srv, touched>>
          /\ task[t].at \in {"device", "load"}
        BY <1>1, DeviceDoes
    <2>2. \A u \in Slots : SamePoint(task'[u], task[u]) \/ Unanswered(task[u])
        BY <2>1 DEF Leaves, SamePoint, Unanswered, Awaits
    <2>3. Sound
        BY <2>1, <2>2, AnswersStay, SrvFields DEF Leaves, Sound
    <2>4. Keeps
        BY <2>1, LeavesKeeps DEF Leaves, Continued
    <2> QED
        BY <2>1, <2>3, <2>4, PageStays, TypesKept DEF Leaves, KTypeOK, Types
<1>2. CASE SendTransport(t)
    <2>1. /\ Hears(t, TRUE) /\ Closes(t) /\ task[t].room \in Rooms /\ task[t].op = "setup"
          /\ UNCHANGED <<store, srv>>
        BY <1>2, SendDoes
    <2>2. task'[t].op # "accept" /\ touched' \in BOOLEAN /\ media' \in MediaType
        <3>1. \/ task'[t] = Idle /\ touched' = TRUE /\ UNCHANGED media
              \/ /\ media' = CreateSendTransport(media, task[t].room) /\ Continued(t)
                 /\ touched' = (touched \/ task[t].crossed)
            BY <1>2, SendDoes
        <3> QED
            BY <2>1, <3>1, IdleFits, TransportsAre DEF Continued, KTypeOK, Types
    <2>3. Sound
        BY <2>1, HeardSound DEF Hears, Closes, SamePoint
    <2>4. Keeps
        BY <2>1, <2>2, LeavesKeeps DEF Closes
    <2> QED
        BY <2>1, <2>2, <2>3, <2>4, PageStays, TypesKept DEF Closes
<1>3. CASE RecvTransport(t)
    <2>1. /\ Hears(t, TRUE) /\ Closes(t) /\ task[t].room \in Rooms /\ task[t].op = "setup"
          /\ srv' = srv /\ media' = CreateRecvTransport(media, task[t].room)
          /\ \/ /\ Continued(t) /\ touched' = (touched \/ task[t].crossed) /\ store' = store
             \/ Finishes(t) /\ Placed'
        BY <1>3, RecvDoes
    <2>2. /\ task'[t].op # "accept" /\ touched' \in BOOLEAN /\ Placed' /\ store' \in StoreType
          /\ store.room \in Rooms => store'.room \in Rooms
        BY <2>1, IdleFits, PageStays DEF Continued, Finishes
    <2>3. media' \in MediaType
        BY <2>1, TransportsAre DEF KTypeOK, Types
    <2>4. Sound
        BY <2>1, HeardSound DEF Hears, Closes, SamePoint
    <2>5. Keeps
        BY <2>1, <2>2, LeavesKeeps DEF Closes
    <2> QED
        BY <2>1, <2>2, <2>3, <2>4, <2>5, TypesKept DEF Closes
<1>4. CASE ProduceVideo(t) \/ ProduceAudio(t)
    <2>1. /\ Hears(t, TRUE) /\ Leaves(t) /\ task[t].room \in Rooms /\ task[t].op = "setup"
          /\ srv' = srv /\ media' \in MediaType
          /\ \/ Continued(t) /\ UNCHANGED <<store, touched>>
             \/ Finishes(t) /\ Placed'
        BY <1>4, ProduceDoes
    <2>2. /\ task'[t].op # "accept" /\ touched' \in BOOLEAN /\ Placed' /\ store' \in StoreType
          /\ store.room \in Rooms => store'.room \in Rooms
        BY <2>1, IdleFits, PageStays DEF Continued, Finishes, KTypeOK, Types
    <2>3. Sound
        BY <2>1, HeardSound DEF Hears, Leaves, SamePoint
    <2>4. Keeps
        BY <2>1, <2>2, LeavesKeeps DEF Leaves
    <2> QED
        BY <2>1, <2>2, <2>3, <2>4, TypesKept DEF Leaves
<1> QED
    BY <1>1, <1>2, <1>3, <1>4 DEF Setup
\* An answer is taken, and what it changes keeps the types.
LEMMA HeardTypes ==
    ASSUME KTypeOK, NEW t \in Slots, inbox # <<>>, Take, Head(inbox).ev = "answer",
           Head(inbox).room = t, Leaves(t), srv' = srv,
           task'[t].op # "accept" \/ task'[t].op = task[t].op,
           store' \in StoreType, store.room \in Rooms => store'.room \in Rooms,
           media' \in MediaType, Placed', touched' \in BOOLEAN
    PROVE  KTypeOK'
<1>1. Sound
    BY HeardSound DEF Leaves, SamePoint
<1>2. Keeps
    BY LeavesKeeps DEF Leaves
<1> QED
    BY <1>1, <1>2, TypesKept DEF Leaves

LEMMA ResumeTypes ==
    ASSUME KTypeOK, NEW t \in Slots, Resume(t)
    PROVE  KTypeOK'
<1>1. CASE MatchAnswered(t)
    <2>1. /\ Hears(t, TRUE) /\ Leaves(t) /\ task'[t] = Idle /\ store' \in StoreType
          /\ store'.room = store.room /\ Placed' /\ UNCHANGED <<media, touched, srv>>
        BY <1>1, MatchAnsweredDoes
    <2> QED
        BY <2>1, IdleFits, HeardTypes DEF Hears, KTypeOK, Types
<1>2. CASE EndAnswered(t)
    <2>1. /\ \E ok \in BOOLEAN : Hears(t, ok)
          /\ Ends({t}) /\ EndsPage /\ srv' = srv
        BY <1>2, EndAnsweredDoes
    <2>2. \A u \in Slots \ {t} : SamePoint(task'[u], task[u])
        BY <2>1 DEF Ends, SamePoint
    <2>3. Sound
        BY <2>1, <2>2, HeardSound DEF Hears, Ends
    <2> QED
        BY <2>1, <2>3, EndsKeeps, TypesKept DEF Ends, EndsPage
<1>3. CASE NothingDone(t)
    <2>1. /\ \E ok \in BOOLEAN : Hears(t, ok)
          /\ Leaves(t) /\ task'[t] = Idle /\ UNCHANGED <<store, media, touched, srv>>
        BY <1>3, NothingDoneDoes
    <2> QED
        BY <2>1, IdleFits, PageStays, HeardTypes DEF Hears, KTypeOK, Types
<1>4. CASE Accepted(t)
    <2>1. /\ Hears(t, TRUE) /\ Leaves(t) /\ Continued(t) /\ store' \in StoreType
          /\ store'.room = store.room /\ Placed' /\ UNCHANGED <<media, srv>>
          /\ touched' = (touched \/ task[t].crossed \/ store.room # task[t].room)
        BY <1>4, AcceptedDoes
    <2> QED
        BY <2>1, HeardTypes DEF Hears, Continued, KTypeOK, Types
<1>5. CASE Existing(t)
    <2>1. /\ Hears(t, TRUE) /\ Leaves(t) /\ task'[t] = Idle /\ store' \in StoreType
          /\ store'.room = store.room /\ Placed' /\ UNCHANGED <<media, srv>>
          /\ touched' = (touched \/ task[t].crossed)
        BY <1>5, ExistingDoes
    <2> QED
        BY <2>1, IdleFits, HeardTypes DEF Hears, KTypeOK, Types
<1>6. CASE Turned(t)
    <2>1. /\ Hears(t, TRUE) /\ Leaves(t) /\ task'[t] = Idle /\ store' \in StoreType
          /\ store'.room = store.room /\ Placed' /\ UNCHANGED <<media, touched, srv>>
        BY <1>6, TurnedDoes
    <2> QED
        BY <2>1, IdleFits, HeardTypes DEF Hears, KTypeOK, Types
<1>7. CASE ScreenChosen(t)
    <2>1. /\ task[t].at = "camera" /\ Leaves(t) /\ UNCHANGED <<store, media, inbox, touched, srv>>
          /\ task'[t] = Idle \/ Continued(t)
        BY <1>7, ScreenChosenDoes
    <2>2. \A u \in Slots : SamePoint(task'[u], task[u]) \/ Unanswered(task[u])
        BY <2>1 DEF Leaves, SamePoint, Unanswered, Awaits
    <2>3. Sound
        BY <2>1, <2>2, AnswersStay, SrvFields DEF Leaves, Sound
    <2>4. Keeps
        BY <2>1, IdleFits, LeavesKeeps DEF Leaves, Continued
    <2> QED
        BY <2>1, <2>3, <2>4, PageStays, TypesKept DEF Leaves, KTypeOK, Types
<1>8. CASE ScreenProduced(t)
    <2>1. /\ Hears(t, TRUE) /\ Leaves(t) /\ UNCHANGED <<store, touched, srv>>
          /\ \/ task'[t] = Idle /\ media' = media
             \/ Continued(t) /\ media' \in MediaType
        BY <1>8, ScreenProducedDoes
    <2>2. media' \in MediaType
        BY <2>1 DEF KTypeOK, Types
    <2> QED
        BY <2>1, <2>2, IdleFits, PageStays, HeardTypes DEF Hears, Continued, KTypeOK, Types
<1>9. CASE Shared(t)
    <2>1. /\ Hears(t, TRUE) /\ Leaves(t) /\ task'[t] = Idle /\ store' \in StoreType
          /\ store'.room = store.room /\ Placed' /\ UNCHANGED <<media, srv>>
          /\ touched' = (touched \/ task[t].crossed)
        BY <1>9, SharedDoes
    <2> QED
        BY <2>1, IdleFits, HeardTypes DEF Hears, KTypeOK, Types
<1>10. CASE Consumed(t)
    <2>1. /\ inbox # <<>> /\ Take /\ Head(inbox).ev = "answer" /\ Head(inbox).room = t
          /\ Leaves(t) /\ UNCHANGED <<store, touched, srv>> /\ media' \in MediaType
          /\ task'[t] = Idle \/ Continued(t)
        BY <1>10, ConsumedDoes
    <2> QED
        BY <2>1, IdleFits, PageStays, HeardTypes DEF Continued, KTypeOK, Types
<1> QED
    BY <1>1, <1>2, <1>3, <1>4, <1>5, <1>6, <1>7, <1>8, <1>9, <1>10 DEF Resume

\* An event is taken; functions may begin.
LEMMA TakenSound ==
    ASSUME KTypeOK, inbox # <<>>, Take, srv' = srv, task' \in [Slots -> TaskType],
           \A u \in Slots : SamePoint(task'[u], task[u]) \/ Unanswered(task[u])
    PROVE  Sound
    BY AnswersTaken, SrvFields DEF Sound

LEMMA BeginTypes ==
    ASSUME KTypeOK, NEW k, Fresh(k), Begin(k)
    PROVE  /\ task' \in [Slots -> TaskType] /\ \A u \in Slots : WellFormed(task'[u])
           /\ store' \in StoreType /\ media' \in MediaType /\ Placed' /\ Keeps
           /\ \A u \in Slots : SamePoint(task'[u], task[u]) \/ Unanswered(task[u])
<1>1. PICK t \in Slots :
         /\ task[t] = Idle /\ Leaves(t)
         /\ \/ Starts(t, k, store) /\ Continue(t, k, store)
            \/ /\ task'[t] = k /\ store.stream # "live"
               /\ UNCHANGED <<store, media, strayed>>
    BY BeginDoes
<1>2. \A u \in Slots : SamePoint(task'[u], task[u]) \/ Unanswered(task[u])
    BY <1>1, IdleIsUnanswered DEF Leaves, SamePoint
<1>3. CASE Starts(t, k, store) /\ Continue(t, k, store)
    <2>1. k.request = "none"
        BY DEF Fresh
    <2> QED
        BY <1>1, <1>2, <1>3, <2>1, ContinueDoes, ContinueKeeps DEF Leaves
<1>4. CASE task'[t] = k /\ UNCHANGED <<store, media, strayed>>
    <2>1. k.op # "accept"
        BY DEF Fresh, Tracks
    <2>2. Keeps
        BY <1>1, <1>4, <2>1, LeavesKeeps DEF Leaves
    <2> QED
        BY <1>1, <1>2, <1>4, <2>2, PageStays DEF Leaves, KTypeOK, Types
<1> QED
    BY <1>1, <1>3, <1>4

LEMMA EventTypes ==
    ASSUME KTypeOK, Events
    PROVE  KTypeOK'
<1>1. CASE Success
    <2>1. /\ Takes("success") /\ touched' = touched
          /\ \E k : Fresh(k) /\ Begin(k)
        BY <1>1, SuccessDoes
    <2>2. PICK k : Fresh(k) /\ Begin(k)
        BY <2>1
    <2>3. /\ task' \in [Slots -> TaskType] /\ \A u \in Slots : WellFormed(task'[u])
          /\ store' \in StoreType /\ media' \in MediaType /\ Placed' /\ Keeps
          /\ \A u \in Slots : SamePoint(task'[u], task[u]) \/ Unanswered(task[u])
        BY <2>2, BeginTypes
    <2>4. Sound
        BY <2>1, <2>3, TakenSound DEF Takes
    <2> QED
        BY <2>1, <2>3, <2>4, TypesKept DEF KTypeOK, Types
<1>2. CASE NewProducer
    <2>1. /\ Takes("new") /\ UNCHANGED <<store, media, touched>>
          /\ \/ UNCHANGED task
             \/ \E t \in Slots : task[t] = Idle /\ Leaves(t) /\ task'[t].op = "consume"
        BY <1>2, NewProducerDoes
    <2>2. /\ task' \in [Slots -> TaskType] /\ \A u \in Slots : WellFormed(task'[u])
          /\ \A u \in Slots : SamePoint(task'[u], task[u]) \/ Unanswered(task[u])
          /\ Keeps
        <3>1. CASE UNCHANGED task
            BY <2>1, <3>1 DEF SamePoint, KTypeOK, Types, Keeps
        <3>2. CASE \E t \in Slots : task[t] = Idle /\ Leaves(t) /\ task'[t].op = "consume"
            BY <2>1, <3>2, IdleIsUnanswered DEF Leaves, SamePoint, Keeps
        <3> QED
            BY <2>1, <3>1, <3>2
    <2>3. Sound
        BY <2>1, <2>2, TakenSound DEF Takes
    <2> QED
        BY <2>1, <2>2, <2>3, PageStays, TypesKept DEF KTypeOK, Types
<1>3. CASE Over
    <2>1. Takes("over") /\ Ends({}) /\ EndsPage
        BY <1>3, OverDoes
    <2>2. \A u \in Slots : SamePoint(task'[u], task[u]) \/ Unanswered(task[u])
        BY <2>1, IdleFits DEF Ends, SamePoint
    <2>3. Sound
        BY <2>1, <2>2, TakenSound DEF Takes, Ends
    <2> QED
        BY <2>1, <2>3, EndsKeeps, TypesKept DEF Ends, EndsPage
<1>4. CASE Rings
    <2>1. /\ Takes("incoming") /\ UNCHANGED <<media, task, touched>> /\ store' \in StoreType
          /\ store'.room = Head(inbox).room /\ Head(inbox).room \in Chats /\ Placed'
        BY <1>4, RingsDoes
    <2>2. Sound
        BY <2>1, ApartIs, TakenSound DEF Takes
    <2>3. Keeps
        BY <2>1 DEF Keeps, Rooms
    <2> QED
        BY <2>1, <2>2, <2>3, ApartIs, TypesKept DEF KTypeOK, Types
<1>5. CASE UserJoined \/ UserLeft
    <2>1. /\ Takes("joined") \/ Takes("left")
          /\ UNCHANGED <<media, task, touched>> /\ store' \in StoreType
          /\ store'.room = store.room /\ Placed'
        BY <1>5, ComesDoes
    <2>2. Sound
        BY <2>1, ApartIs, TakenSound DEF Takes
    <2>3. Keeps
        BY <2>1 DEF Keeps
    <2> QED
        BY <2>1, <2>2, <2>3, ApartIs, TypesKept DEF KTypeOK, Types
<1> QED
    BY <1>1, <1>2, <1>3, <1>4, <1>5 DEF Events
LEMMA IdleSamePoints ==
    ASSUME KTypeOK, NEW t \in Slots, task[t] = Idle, Leaves(t)
    PROVE  \A u \in Slots : SamePoint(task'[u], task[u]) \/ Unanswered(task[u])
    BY IdleIsUnanswered DEF Leaves, SamePoint

LEMMA StaySound ==
    ASSUME KTypeOK, UNCHANGED <<inbox, srv>>, task' \in [Slots -> TaskType],
           \A u \in Slots : SamePoint(task'[u], task[u]) \/ Unanswered(task[u])
    PROVE  Sound
    BY AnswersStay, SrvFields DEF Sound

LEMMA RequestsTypes ==
    ASSUME KTypeOK, NEW op, NEW at, NEW room, Requests(op, at, room),
           Clicked, op = "accept" => store.room \in Rooms
    PROVE  KTypeOK'
<1>1. UNCHANGED <<inbox, srv, touched, store, media>>
    BY DEF Clicked, Requests
<1>2. PICK t \in Slots : task[t] = Idle /\ Leaves(t) /\ task'[t].op = op
    BY DEF Requests
<1>3. Sound
    BY <1>1, <1>2, IdleSamePoints, StaySound DEF Leaves
<1>4. Keeps
    BY <1>1, <1>2 DEF Keeps, Leaves
<1> QED
    BY <1>1, <1>2, <1>3, <1>4, PageStays, TypesKept DEF Leaves, KTypeOK, Types

LEMMA ClickTypes ==
    ASSUME KTypeOK, Clicks
    PROVE  KTypeOK'
<1>1. CASE ClickCancel \/ ClickAccept \/ ClickReject \/ ClickEndCall
    <2>1. /\ Clicked
          /\ \/ Requests("cancel", "cancel", NoRoom)
             \/ /\ store.room \in Chats
                /\ \/ Requests("accept", "accept", store.room)
                   \/ Requests("reject", "reject", store.room)
             \/ Requests("end", "end", store.room)
        BY <1>1, RequestsDo
    <2>2. "cancel" # "accept" /\ "reject" # "accept" /\ "end" # "accept"
        OBVIOUS
    <2>3. CASE Requests("cancel", "cancel", NoRoom)
        BY <2>1, <2>2, <2>3, RequestsTypes
    <2>4. CASE store.room \in Chats /\ Requests("accept", "accept", store.room)
        BY <2>1, <2>4, RequestsTypes DEF Rooms
    <2>5. CASE Requests("reject", "reject", store.room)
        BY <2>1, <2>2, <2>5, RequestsTypes
    <2>6. CASE Requests("end", "end", store.room)
        BY <2>1, <2>2, <2>6, RequestsTypes
    <2> QED
        BY <2>1, <2>3, <2>4, <2>5, <2>6
<1>2. CASE \/ ClickMatch \/ \E c \in Chats : ClickRing(c)
           \/ \E kind \in Tracks : ClickToggle(kind)
    <2>1. Clicked /\ \E k : Fresh(k) /\ Begin(k)
        BY <1>2, ClicksBegin
    <2>2. PICK k : Fresh(k) /\ Begin(k)
        BY <2>1
    <2>3. /\ task' \in [Slots -> TaskType] /\ \A u \in Slots : WellFormed(task'[u])
          /\ store' \in StoreType /\ media' \in MediaType /\ Placed' /\ Keeps
          /\ \A u \in Slots : SamePoint(task'[u], task[u]) \/ Unanswered(task[u])
        BY <2>2, BeginTypes
    <2>4. Sound
        BY <2>1, <2>3, StaySound DEF Clicked
    <2> QED
        BY <2>1, <2>3, <2>4, TypesKept DEF Clicked, KTypeOK, Types
<1>3. CASE ClickHangUp
    <2>1. Ends({}) /\ EndsPage /\ UNCHANGED <<inbox, srv>>
        BY <1>3, HangUpDoes
    <2>2. \A u \in Slots : SamePoint(task'[u], task[u]) \/ Unanswered(task[u])
        BY <2>1, IdleFits DEF Ends, SamePoint
    <2>3. Sound
        BY <2>1, <2>2, StaySound DEF Ends
    <2> QED
        BY <2>1, <2>3, EndsKeeps, TypesKept DEF Ends, EndsPage
<1>4. CASE StartShare \/ StopShare
    <2>1. UNCHANGED <<store, inbox, srv, touched>>
        BY <1>4, ShareDoes
    <2>2. PICK t \in Slots : /\ task[t] = Idle /\ Leaves(t) /\ task'[t].op = "share"
                             /\ media' = media \/ media' \in MediaType
        BY <1>4, ShareDoes
    <2>3. Sound
        BY <2>1, <2>2, IdleSamePoints, StaySound DEF Leaves
    <2>4. Keeps
        BY <2>1, <2>2 DEF Keeps, Leaves
    <2> QED
        BY <2>1, <2>2, <2>3, <2>4, PageStays, TypesKept DEF Leaves, KTypeOK, Types
<1> QED
    BY <1>1, <1>2, <1>3, <1>4 DEF Clicks

LEMMA ServedTypes ==
    ASSUME KTypeOK, NEW t \in Slots, Served(t), Sound
    PROVE  KTypeOK'
<1>1. Keeps
    BY LeavesKeeps DEF Served, Leaves
<1> QED
    BY <1>1, PageStays, TypesKept DEF Served, Leaves, KTypeOK, Types

LEMMA ServeTypes ==
    ASSUME KTypeOK, NEW t \in Slots, Serve(t)
    PROVE  KTypeOK'
<1>1. CASE ServeMatch(t)
    BY <1>1, ServeMatchDoes, ServedTypes
<1>2. CASE ServeRing(t)
    BY <1>2, ServeRingDoes, ServedTypes
<1>3. CASE ServeAccept(t)
    BY <1>3, ServeAcceptDoes, ServedTypes
<1>4. CASE ServeReject(t)
    BY <1>4, ServeRejectDoes, ServedTypes
<1>5. CASE ServeEnd(t)
    BY <1>5, ServeEndDoes, ServedTypes
<1>6. CASE ServeExisting(t)
    BY <1>6, ServeExistingDoes, ServedTypes
<1>7. CASE Reply(t)
    BY <1>7, ReplyDoes, ServedTypes
<1>8. CASE ServeMedia(t)
    BY <1>8, ServeMediaDoes, ServedTypes
<1>9. CASE ServeConsume(t)
    BY <1>9, ServeConsumeDoes, ServedTypes
<1>10. CASE NoAnswer(t)
    <2>1. /\ task'[t] = Idle /\ Leaves(t) /\ Sound /\ UNCHANGED <<store, media>>
          /\ touched' = TRUE \/ touched' = touched
        BY <1>10, NoAnswerDoes
    <2>2. Keeps
        BY <2>1, IdleFits, LeavesKeeps DEF Leaves
    <2> QED
        BY <2>1, <2>2, PageStays, TypesKept DEF Leaves, KTypeOK, Types
<1> QED
    BY <1>1, <1>2, <1>3, <1>4, <1>5, <1>6, <1>7, <1>8, <1>9, <1>10 DEF Serve

LEMMA ApartTypes ==
    ASSUME KTypeOK, Apart, Sound
    PROVE  KTypeOK'
<1>1. Keeps
    BY DEF Keeps, Apart
<1> QED
    BY <1>1, ApartIs, PageStays, TypesKept DEF Apart, KTypeOK, Types

\* Both sorts of steps that leave the page.
LEMMA EmissionsAre ==
    ASSUME KTypeOK, Emissions \/ Others
    PROVE  Apart /\ Sound
<1>1. ASSUME NEW r \in Rooms, NEW p \in Members[r],
             \/ TakeLeave(r) \/ TakeFeeds(r) \/ MateLeft(r, p)
             \/ MateHangsUp(r, p) \/ MateProduces(r, p)
      PROVE  Apart /\ Sound
    BY <1>1, TakeLeaveDoes, TakeFeedsDoes, MateLeftDoes, MateHangsUpDoes, MateProducesDoes
<1>2. ASSUME NEW r \in Rooms, TakeLeave(r) \/ TakeFeeds(r)
      PROVE  Apart /\ Sound
    BY <1>2, TakeLeaveDoes, TakeFeedsDoes
<1>3. ASSUME NEW c \in Chats, TakeEnd(c) \/ RingOver(c)
      PROVE  Apart /\ Sound
    BY <1>3, TakeEndDoes, RingOverDoes
<1>4. ASSUME NEW c \in Chats, NEW p \in Members[c],
             MateEnds(c, p) \/ FriendCalls(c, p) \/ FriendAccepts(c, p)
      PROVE  Apart /\ Sound
    BY <1>4, MateEndsDoes, FriendCallsDoes, FriendAcceptsDoes
<1>5. ASSUME NEW r \in MatchRooms, Match(r)
      PROVE  Apart /\ Sound
    BY <1>5, MatchDoes
<1>6. CASE Emissions
    BY <1>1, <1>2, <1>3, <1>4, <1>6 DEF Emissions
<1>7. CASE Others
    BY <1>1, <1>3, <1>4, <1>5, <1>7 DEF Others
<1> QED
    BY <1>6, <1>7

LEMMA LostTypes ==
    ASSUME KTypeOK, ConnectionLost
    PROVE  KTypeOK'
<1>1. /\ Drops /\ Breaks /\ inbox' = <<>> /\ UNCHANGED <<store, media>>
      /\ touched' \in BOOLEAN
    BY ConnectionLostDoes
<1>2. <<>> \in Seq(Message) /\ Len(<<>>) = 0
    BY EmptySeq
<1>3. Sound
    BY <1>1, <1>2 DEF Sound, Drops, Answering
<1>4. \A t \in Slots : WellFormed(task'[t]) /\ (task'[t].op = "accept" => task[t].op = "accept")
    BY <1>1, IdleFits DEF Breaks, KTypeOK
<1>5. Keeps
    BY <1>1, <1>4 DEF Keeps
<1>6. Placed' /\ store' \in StoreType /\ media' \in MediaType
    BY <1>1, PageStays DEF KTypeOK, Types
<1> QED
    BY <1>1, <1>3, <1>4, <1>5, <1>6, TypesKept DEF Breaks

LEMMA NextTypes ==
    ASSUME KTypeOK, KNext
    PROVE  KTypeOK'
<1>1. ASSUME NEW t \in Slots,
             CameraOpens(t) \/ CameraFails(t) \/ Setup(t) \/ Resume(t) \/ Serve(t)
      PROVE  KTypeOK'
    BY <1>1, CameraTypes, SetupTypes, ResumeTypes, ServeTypes
<1>2. CASE Events \/ Clicks
    BY <1>2, EventTypes, ClickTypes
<1>3. CASE Emissions \/ Others
    BY <1>3, EmissionsAre, ApartTypes
<1>4. CASE ConnectionLost
    BY <1>4, LostTypes
<1> QED
    BY <1>1, <1>2, <1>3, <1>4 DEF KNext

LEMMA StutterTypes ==
    ASSUME KTypeOK, UNCHANGED kvars
    PROVE  KTypeOK'
<1>1. Apart /\ UNCHANGED <<inbox, srv>>
    BY DEF kvars, Apart
<1>2. Sound
    BY <1>1, ApartIs, StaySound DEF Apart
<1> QED
    BY <1>1, <1>2, ApartTypes

\* The types of the page, and what every function under way has: it is at a point of
\* its own, awaits one answer at most, and the answer is for it alone
\* (useMatch.ts, useMediasoup.ts, useCallManagement.ts, useCallControls.ts).
THEOREM PageTypeCorrect == KSpec => []KTypeOK
<1>1. KTypeOK /\ [KNext]_kvars => KTypeOK'
    BY NextTypes, StutterTypes
<1> QED
    BY <1>1, InitTypes, PTL DEF KSpec
-----------------------------------------------------------------------------
(* A page that is over is clean.                                           *)

Tidy == media = Cleanup(media) /\ store.stream # "live"

\* A function that has been given what is to be put away: a match that is asked for, and
\* a call, which is shown when it is set up.
Pending(k) ==
    \/ k.op = "match" /\ k.at = "match"
    \/ k.op = "setup" /\ k.at # "camera" /\ k.room \in Chats

\* What a function relies on: a match is shown while it is set up, and transports are there
\* until they are closed.
Relies(k) ==
    /\ k.op = "setup" /\ k.at # "camera" /\ k.room \in MatchRooms /\ ~k.crossed
          => store.state # "ended"
    /\ k.at = "screen" /\ ~k.closed => media.send # NoRoom
    /\ k.op = "consume" /\ ~k.closed => media.recv # NoRoom

Clean ==
    /\ store.state = "ended" /\ ~touched => Tidy \/ \E t \in Slots : Pending(task[t])
    /\ \A t \in Slots : Relies(task[t])

LEMMA CleanupTwice ==
    ASSUME NEW m
    PROVE  Cleanup(Cleanup(m)) = Cleanup(m)
    BY DEF Cleanup, FreshMedia

LEMMA CleanIs ==
    ASSUME NEW m \in MediaType
    PROVE  m = Cleanup(m) <=> /\ m.send = NoRoom /\ m.recv = NoRoom
                              /\ m.producers = NoProducers /\ m.consumers = NoConsumers
    BY DEF Cleanup, FreshMedia, MediaType

LEMMA InitClean ==
    ASSUME KInit
    PROVE  Clean
<1>1. Tidy
    BY DEF KInit, Tidy, FreshStore, FreshMedia, Cleanup
<1>2. \A t \in Slots : Relies(task[t])
    BY DEF KInit, Relies, Idle
<1> QED
    BY <1>1, <1>2 DEF Clean

LEMMA EndsClean ==
    ASSUME KTypeOK, NEW over, Ends(over), EndsPage
    PROVE  Clean'
<1>1. Tidy'
    BY CleanupTwice DEF EndsPage, Tidy
<1>2. \A u \in Slots : Relies(task[u])'
    <2> TAKE u \in Slots
    <2>1. CASE u \in over \/ task[u] = Idle
        BY <2>1, IdleFits DEF Ends, Relies
    <2>2. CASE ~(u \in over \/ task[u] = Idle)
        BY <2>2 DEF Ends, Relies
    <2> QED
        BY <2>1, <2>2
<1> QED
    BY <1>1, <1>2 DEF Clean

\* The page does not end, and loses no transport.
Goes ==
    /\ store'.state = "ended" => store.state = "ended"
    /\ media.send # NoRoom => media'.send # NoRoom
    /\ media.recv # NoRoom => media'.recv # NoRoom

LEMMA CleanKept ==
    ASSUME KTypeOK, Clean, NEW t \in Slots, Closes(t), Goes, Relies(task[t])',
           store'.state = "ended" /\ ~touched' =>
               \/ Tidy' \/ Pending(task'[t])
               \/ ~touched /\ ~Pending(task[t]) /\ (Tidy => Tidy')
    PROVE  Clean'
<1>1. \A u \in Slots : Relies(task[u])'
    <2> TAKE u \in Slots
    <2>1. CASE u = t
        BY <2>1
    <2>2. CASE u # t
        <3>1. /\ task'[u].op = task[u].op /\ task'[u].at = task[u].at
              /\ task'[u].room = task[u].room /\ task'[u].crossed = task[u].crossed
              /\ task[u].closed => task'[u].closed
            BY <2>2 DEF Closes
        <3>2. Relies(task[u])
            BY DEF Clean
        <3> QED
            BY <3>1, <3>2 DEF Relies, Goes
    <2> QED
        BY <2>1, <2>2
<1>2. ASSUME store'.state = "ended", ~touched'
      PROVE  Tidy' \/ \E u \in Slots : Pending(task'[u])
    <2>1. CASE ~touched /\ ~Pending(task[t]) /\ (Tidy => Tidy')
        <3>1. Tidy \/ \E u \in Slots : Pending(task[u])
            BY <1>2, <2>1 DEF Clean, Goes
        <3>2. ASSUME NEW u \in Slots, Pending(task[u])
              PROVE  Pending(task'[u])
            <4>1. u # t
                BY <2>1, <3>2
            <4>2. /\ task'[u].op = task[u].op /\ task'[u].at = task[u].at
                  /\ task'[u].room = task[u].room
                BY <4>1 DEF Closes
            <4> QED
                BY <3>2, <4>2 DEF Pending
        <3> QED
            BY <2>1, <3>1, <3>2
    <2> QED
        BY <1>2, <2>1
<1> QED
    BY <1>1, <1>2 DEF Clean

\* The tasks stay.
LEMMA CleanStays ==
    ASSUME Clean, task' = task, Goes, media' = media, store'.stream = store.stream,
           touched' = touched
    PROVE  Clean'
<1>1. Tidy => Tidy'
    BY DEF Tidy
<1>2. \A u \in Slots : Relies(task[u])'
    BY DEF Clean, Relies, Goes
<1> QED
    BY <1>1, <1>2 DEF Clean, Goes

\* t has not had anything to be put away, and has nothing now.
LEMMA IdleRelies == ~Pending(Idle) /\ Relies(Idle) /\ Relies(Idle)'
    BY IdleFits DEF Pending, Relies

LEMMA ContinueClean ==
    ASSUME KTypeOK, Clean, NEW t \in Slots, NEW k, NEW s, Starts(t, k, s), k.request = "none",
           Continue(t, k, s), ~Pending(task[t]),
           \/ s = store /\ touched' = touched /\ store.stream = "live"
           \/ touched' = (touched \/ task[t].crossed \/ (k.op \in Tracks /\ store.state = "ended"))
    PROVE  Clean'
<1>1. store \in StoreType /\ media \in MediaType
    BY DEF KTypeOK, Types
<1>2. ASSUME s = store, touched' = touched, store.stream = "live", store.state = "ended", ~touched
      PROVE  \E u \in Slots : Pending(task[u])
    BY <1>2 DEF Clean, Tidy
<1>3. CASE AskMatch(t, k, s)
    <2>1. /\ Leaves(t) /\ Asks(t, k, "match") /\ store' = s /\ media' = media /\ k.op = "match"
        BY <1>3, AskMatchDoes
    <2>2. task'[t].op = "match" /\ task'[t].at = "match"
        BY <2>1 DEF Asks
    <2>3. Pending(task'[t]) /\ Relies(task[t])'
        BY <2>2 DEF Pending, Relies
    <2>4. Goes
        BY <2>1 DEF Goes, Starts
    <2> QED
        BY <2>1, <2>3, <2>4, LeavesCloses, CleanKept
<1>4. CASE AskRing(t, k, s)
    <2>1. /\ Leaves(t) /\ task'[t].op = "ring" /\ task'[t].at = "ring" /\ media' = media
          /\ store'.state = "outGoing"
        BY <1>4, AskRingDoes DEF Asks
    <2>2. Relies(task[t])' /\ Goes
        BY <2>1 DEF Relies, Goes
    <2> QED
        BY <2>1, <2>2, LeavesCloses, CleanKept
<1>5. CASE StartSetup(t, k, s)
    <2>1. /\ Leaves(t) /\ task'[t].op = "setup" /\ task'[t].at = "device" /\ media' = media
          /\ task'[t].room = k.room /\ k.room \in Rooms
          /\ store'.state = (IF k.room \in MatchRooms THEN "inMatch" ELSE store.state)
        BY <1>5, StartSetupDoes
    <2>2. Relies(task[t])'
        BY <2>1 DEF Relies
    <2>3. Goes
        BY <2>1 DEF Goes
    <2>4. store'.state = "ended" => Pending(task'[t])
        BY <2>1 DEF Pending, Rooms
    <2> QED
        BY <2>1, <2>2, <2>3, <2>4, LeavesCloses, CleanKept
<1>6. CASE Turn(t, k, s)
    <2>1. /\ Leaves(t) /\ store'.state = store.state
          /\ task'[t] = Idle \/ (task'[t].op \in Tracks /\ Asks(t, [k EXCEPT !.flag = ~k.flag], "turn"))
        BY <1>6, TurnDoes
    <2>2. media'.send = media.send /\ media'.recv = media.recv
        <3>1. PICK x \in Tracks : x = k.op
            BY <1>6, TurnDoes
        <3>2. \/ media' = media
              \/ media' = (IF ~k.flag THEN ResumeProducer(media, k.op) ELSE PauseProducer(media, k.op))
            BY <1>6, TurnDoes
        <3>3. x \in Produced
            BY DEF Produced
        <3> QED
            BY <1>1, <3>1, <3>2, <3>3, PauseIs, ResumeIs
    <2>3. Relies(task[t])'
        BY <2>1, IdleRelies DEF Asks, Relies, Tracks
    <2>4. Goes
        BY <2>1, <2>2 DEF Goes
    <2>5. k.op \in Tracks
        BY <1>6, TurnDoes
    <2>6. CASE touched' = (touched \/ task[t].crossed \/ (k.op \in Tracks /\ store.state = "ended"))
        <3>1. ~(store'.state = "ended" /\ ~touched')
            BY <2>1, <2>5, <2>6
        <3> QED
            BY <2>1, <2>3, <2>4, <3>1, LeavesCloses, CleanKept
    <2>7. CASE s = store /\ touched' = touched /\ store.stream = "live"
        <3>1. store'.state = "ended" /\ ~touched' =>
                 ~touched /\ ~Pending(task[t]) /\ (Tidy => Tidy')
            BY <2>1, <2>7 DEF Tidy
        <3> QED
            BY <2>1, <2>3, <2>4, <3>1, LeavesCloses, CleanKept
    <2> QED
        BY <2>6, <2>7
<1> QED
    BY <1>3, <1>4, <1>5, <1>6 DEF Continue

LEMMA BeginClean ==
    ASSUME KTypeOK, Clean, NEW k, Fresh(k), Begin(k), touched' = touched
    PROVE  Clean'
<1>1. PICK t \in Slots :
         /\ task[t] = Idle /\ Leaves(t)
         /\ \/ Starts(t, k, store) /\ Continue(t, k, store)
            \/ /\ task'[t] = k /\ store.stream # "live"
               /\ UNCHANGED <<store, media, strayed>>
    BY BeginDoes
<1>2. ~Pending(task[t])
    BY <1>1, IdleRelies
<1>3. CASE Starts(t, k, store) /\ Continue(t, k, store)
    <2>1. k.request = "none" /\ store.stream = "live"
        BY <1>3 DEF Fresh, Starts
    <2> QED
        BY <1>2, <1>3, <2>1, ContinueClean
<1>4. CASE task'[t] = k /\ UNCHANGED <<store, media, strayed>>
    <2>1. Relies(task[t])'
        BY <1>4 DEF Relies, Fresh, Tracks
    <2>2. Goes /\ (Tidy => Tidy')
        BY <1>4 DEF Goes, Tidy
    <2> QED
        BY <1>1, <1>2, <2>1, <2>2, LeavesCloses, CleanKept
<1> QED
    BY <1>1, <1>3, <1>4
LEMMA SetupClean ==
    ASSUME KTypeOK, Clean, NEW t \in Slots, Setup(t)
    PROVE  Clean'
<1>0. media \in MediaType /\ store \in StoreType /\ task[t].crossed \in BOOLEAN
      /\ task[t].closed \in BOOLEAN
    BY FitsIs, TaskFields DEF KTypeOK, Types
<1>1. \A r \in Rooms : r # NoRoom
    BY MediaClientAssumption
<1>2. task[t].op = "setup" /\ task[t].at # "camera" => Relies(task[t])
    BY DEF Clean
<1>3. CASE InitializeDevice(t) \/ LoadDevice(t)
    <2>1. /\ task[t].op = "setup" /\ task[t].at \in {"device", "load"}
          /\ Leaves(t) /\ Continued(t) /\ task'[t].closed = task[t].closed
          /\ task'[t].at \in {"load", "send"}
          /\ media' \in MediaType /\ media'.send = media.send /\ media'.recv = media.recv
          /\ UNCHANGED <<store, touched>>
        BY <1>3, DeviceDoes
    <2>2. Relies(task[t])'
        BY <1>2, <2>1 DEF Relies, Continued
    <2>3. Goes
        BY <2>1 DEF Goes
    <2>4. Pending(task[t]) => Pending(task'[t])
        BY <2>1 DEF Pending, Continued
    <2>5. Tidy => Tidy'
        <3>1. media'.producers = media.producers /\ media'.consumers = media.consumers
            BY <1>3, DeviceDoes
        <3>2. PICK n \in MediaType : n = media'
            BY <2>1
        <3>3. media = Cleanup(media) => n = Cleanup(n)
            BY <1>0, <2>1, <3>1, <3>2, CleanIs
        <3> QED
            BY <2>1, <3>2, <3>3 DEF Tidy
    <2> QED
        BY <2>1, <2>2, <2>3, <2>4, <2>5, LeavesCloses, CleanKept
<1>4. CASE SendTransport(t)
    <2>1. /\ task[t].op = "setup" /\ task[t].at = "send" /\ task[t].room \in Rooms
          /\ Closes(t) /\ UNCHANGED store
        BY <1>4, SendDoes
    <2>2. CASE task'[t] = Idle /\ touched' = TRUE /\ UNCHANGED media
        <3>1. Relies(task[t])' /\ Goes
            BY <2>1, <2>2, IdleRelies DEF Goes
        <3> QED
            BY <2>1, <2>2, <3>1, CleanKept
    <2>3. CASE /\ media' = CreateSendTransport(media, task[t].room) /\ Continued(t)
               /\ task'[t].at = "recv" /\ touched' = (touched \/ task[t].crossed)
        <3>1. media'.send = task[t].room /\ media'.recv = media.recv
            BY <1>0, <2>1, <2>3, TransportsAre
        <3>2. Goes
            BY <1>1, <2>1, <3>1 DEF Goes
        <3>3. Relies(task[t])'
            BY <1>2, <2>1, <2>3 DEF Relies, Continued
        <3>4. store'.state = "ended" /\ ~touched' => Pending(task'[t])
            BY <1>2, <2>1, <2>3 DEF Relies, Continued, Pending, Rooms
        <3> QED
            BY <2>1, <3>2, <3>3, <3>4, CleanKept
    <2> QED
        BY <1>4, <2>2, <2>3, SendDoes
<1>5. ASSUME Finishes(t), task[t].op = "setup", task[t].at # "camera", task[t].room \in Rooms
      PROVE  /\ Relies(task[t])' /\ (store'.state = "ended" => store.state = "ended")
             /\ ~(store'.state = "ended" /\ ~touched')
    <2>1. /\ task'[t] = Idle /\ touched' = (touched \/ task[t].crossed)
          /\ store'.state = (IF task[t].room \in Chats THEN "inCall" ELSE store.state)
        BY <1>5 DEF Finishes
    <2> QED
        BY <1>2, <1>5, <2>1, IdleRelies DEF Relies, Rooms
<1>6. CASE RecvTransport(t)
    <2>1. /\ task[t].op = "setup" /\ task[t].at = "recv" /\ task[t].room \in Rooms
          /\ Closes(t) /\ media' = CreateRecvTransport(media, task[t].room)
        BY <1>6, RecvDoes
    <2>2. media'.send = media.send /\ media'.recv = task[t].room
        BY <1>0, <2>1, TransportsAre
    <2>3. CASE Finishes(t)
        BY <1>1, <1>5, <2>1, <2>2, <2>3, CleanKept DEF Goes
    <2>4. CASE /\ Continued(t) /\ task'[t].at = "video" /\ touched' = (touched \/ task[t].crossed)
               /\ UNCHANGED store
        <3>1. Goes
            BY <1>1, <2>1, <2>2, <2>4 DEF Goes
        <3>2. Relies(task[t])'
            BY <1>2, <2>1, <2>4 DEF Relies, Continued
        <3>3. store'.state = "ended" /\ ~touched' => Pending(task'[t])
            BY <1>2, <2>1, <2>4 DEF Relies, Continued, Pending, Rooms
        <3> QED
            BY <2>1, <3>1, <3>2, <3>3, CleanKept
    <2> QED
        BY <1>6, <2>3, <2>4, RecvDoes
<1>7. CASE ProduceVideo(t) \/ ProduceAudio(t)
    <2>1. /\ task[t].op = "setup" /\ task[t].at \in {"video", "audio"} /\ task[t].room \in Rooms
          /\ Leaves(t) /\ media'.send = media.send /\ media'.recv = media.recv
        BY <1>7, ProduceDoes
    <2>2. CASE Finishes(t)
        <3>1. Relies(task[t])' /\ Goes /\ ~(store'.state = "ended" /\ ~touched')
            BY <1>5, <2>1, <2>2 DEF Goes
        <3> QED
            BY <2>1, <3>1, LeavesCloses, CleanKept
    <2>3. CASE Continued(t) /\ task'[t].at = "audio" /\ UNCHANGED <<store, media, touched>>
        <3>1. Relies(task[t])'
            BY <1>2, <2>1, <2>3 DEF Relies, Continued
        <3>2. Goes /\ (Tidy => Tidy')
            BY <2>3 DEF Goes, Tidy
        <3>3. Pending(task[t]) => Pending(task'[t])
            BY <2>1, <2>3 DEF Pending, Continued
        <3> QED
            BY <2>1, <2>3, <3>1, <3>2, <3>3, LeavesCloses, CleanKept
    <2> QED
        BY <1>7, <2>2, <2>3, ProduceDoes
<1> QED
    BY <1>3, <1>4, <1>6, <1>7 DEF Setup

\* A function goes on, or is over, that had nothing to be put away.
LEMMA LightClean ==
    ASSUME KTypeOK, Clean, NEW t \in Slots, Leaves(t), ~Pending(task[t]), Relies(task[t])',
           Goes, touched => touched', Tidy => Tidy'
    PROVE  Clean'
<1>1. ~touched' => ~touched
    OBVIOUS
<1> QED
    BY <1>1, LeavesCloses, CleanKept

LEMMA ResumeClean ==
    ASSUME KTypeOK, Clean, NEW t \in Slots, Resume(t)
    PROVE  Clean'
<1>0. /\ store \in StoreType /\ media \in MediaType /\ touched \in BOOLEAN
      /\ task[t].op \in Ops /\ Route(task[t].op, task[t].at) /\ Relies(task[t])
    BY FitsIs, TaskFields DEF KTypeOK, Types, WellFormed, Clean
<1>1. CASE MatchAnswered(t)
    <2>1. /\ Leaves(t) /\ task'[t] = Idle /\ store'.state = "inMatchWait" /\ media' = media
        BY <1>1, MatchAnsweredDoes
    <2>2. Goes /\ Relies(task[t])'
        BY <2>1, IdleRelies DEF Goes
    <2> QED
        BY <2>1, <2>2, LeavesCloses, CleanKept
<1>2. CASE EndAnswered(t)
    BY <1>2, EndAnsweredDoes, EndsClean
<1>3. CASE NothingDone(t)
    <2>1. /\ task[t].op \in {"reject", "end", "ring", "accept"} /\ Leaves(t) /\ task'[t] = Idle
          /\ UNCHANGED <<store, media, touched>>
        BY <1>3, NothingDoneDoes
    <2>2. Goes /\ Relies(task[t])' /\ (Tidy => Tidy') /\ ~Pending(task[t])
        BY <2>1, IdleRelies DEF Goes, Tidy, Pending
    <2> QED
        BY <2>1, <2>2, LightClean
<1>4. CASE Accepted(t)
    <2>1. /\ Leaves(t) /\ task[t].op = "accept" /\ Continued(t) /\ store'.state = "inCall"
          /\ media' = media /\ task'[t].at = "existing"
        BY <1>4, AcceptedDoes
    <2>2. Goes /\ Relies(task[t])'
        BY <2>1 DEF Goes, Relies, Continued
    <2> QED
        BY <2>1, <2>2, LeavesCloses, CleanKept
<1>5. CASE Existing(t) \/ Turned(t) \/ Shared(t)
    <2>1. /\ task[t].op \in {"accept", "share"} \union Tracks /\ Leaves(t) /\ task'[t] = Idle
          /\ store'.state = store.state /\ store'.stream = store.stream /\ media' = media
          /\ touched => touched'
        <3>1. CASE Existing(t)
            BY <3>1, ExistingDoes
        <3>2. CASE Turned(t)
            BY <3>2, TurnedDoes
        <3>3. CASE Shared(t)
            BY <3>3, SharedDoes
        <3> QED
            BY <1>5, <3>1, <3>2, <3>3
    <2>2. Goes /\ Relies(task[t])' /\ (Tidy => Tidy') /\ ~Pending(task[t])
        BY <2>1, IdleRelies DEF Goes, Tidy, Pending, Tracks
    <2> QED
        BY <2>1, <2>2, LightClean
<1>6. CASE ScreenChosen(t)
    <2>1. /\ task[t].op = "share" /\ Leaves(t) /\ UNCHANGED <<store, media, touched>>
          /\ \/ task'[t] = Idle
             \/ media.send # NoRoom /\ Continued(t)
        BY <1>6, ScreenChosenDoes
    <2>2. Relies(task[t])'
        <3>1. CASE task'[t] = Idle
            BY <3>1, IdleRelies
        <3>2. CASE media.send # NoRoom /\ Continued(t)
            BY <2>1, <3>2 DEF Relies, Continued
        <3> QED
            BY <2>1, <3>1, <3>2
    <2>3. Goes /\ (Tidy => Tidy') /\ ~Pending(task[t])
        BY <2>1 DEF Goes, Tidy, Pending
    <2> QED
        BY <2>1, <2>2, <2>3, LightClean
<1>7. CASE ScreenProduced(t)
    <2>1. /\ task[t].op = "share" /\ task[t].at = "screen" /\ Leaves(t)
          /\ UNCHANGED <<store, touched>>
          /\ \/ task[t].closed /\ task'[t] = Idle /\ media' = media
             \/ /\ ~task[t].closed /\ Continued(t) /\ task'[t].at = "shared"
                /\ media'.send = media.send /\ media'.recv = media.recv
        BY <1>7, ScreenProducedDoes
    <2>2. Relies(task[t])' /\ Goes
        <3>1. CASE task'[t] = Idle /\ media' = media
            BY <2>1, <3>1, IdleRelies DEF Goes
        <3>2. CASE /\ Continued(t) /\ task'[t].at = "shared"
                   /\ media'.send = media.send /\ media'.recv = media.recv
            BY <2>1, <3>2 DEF Relies, Continued, Goes
        <3> QED
            BY <2>1, <3>1, <3>2
    <2>3. Tidy => Tidy'
        <3>1. CASE media' = media
            BY <2>1, <3>1 DEF Tidy
        <3>2. CASE ~task[t].closed
            <4>1. media.send # NoRoom
                BY <1>0, <2>1, <3>2 DEF Relies
            <4>2. ~Tidy
                BY <1>0, <4>1, CleanupIs DEF Tidy
            <4> QED
                BY <4>2
        <3> QED
            BY <2>1, <3>1, <3>2
    <2>4. ~Pending(task[t])
        BY <2>1 DEF Pending
    <2> QED
        BY <2>1, <2>2, <2>3, <2>4, LightClean
<1>8. CASE Consumed(t)
    <2>1. /\ task[t].op = "consume" /\ Leaves(t) /\ UNCHANGED <<store, touched>>
          /\ media'.send = media.send /\ media'.recv = media.recv
          /\ task[t].closed => media' = media
          /\ \/ task'[t] = Idle
             \/ Continued(t) /\ task'[t].at = "consume" /\ task'[t].closed = task[t].closed
        BY <1>8, ConsumedDoes
    <2>2. Relies(task[t])'
        BY <1>0, <2>1, IdleRelies DEF Relies, Continued
    <2>3. Goes /\ ~Pending(task[t])
        BY <2>1 DEF Goes, Pending
    <2>4. Tidy => Tidy'
        <3>1. CASE media' = media
            BY <2>1, <3>1 DEF Tidy
        <3>2. CASE ~task[t].closed
            <4>1. media.recv # NoRoom
                BY <1>0, <2>1, <3>2 DEF Relies
            <4>2. ~Tidy
                BY <1>0, <4>1, CleanupIs DEF Tidy
            <4> QED
                BY <4>2
        <3> QED
            BY <2>1, <3>1, <3>2
    <2> QED
        BY <2>1, <2>2, <2>3, <2>4, LightClean
<1> QED
    BY <1>1, <1>2, <1>3, <1>4, <1>5, <1>6, <1>7, <1>8 DEF Resume
LEMMA EventClean ==
    ASSUME KTypeOK, Clean, Events
    PROVE  Clean'
<1>1. CASE Success
    <2>1. touched' = touched /\ \E k : Fresh(k) /\ Begin(k)
        BY <1>1, SuccessDoes
    <2> QED
        BY <2>1, BeginClean
<1>2. CASE NewProducer
    <2>1. UNCHANGED <<store, media, touched>>
        BY <1>2, NewProducerDoes
    <2>2. Goes /\ (Tidy => Tidy')
        BY <2>1 DEF Goes, Tidy
    <2>3. CASE UNCHANGED task
        BY <2>1, <2>2, <2>3, CleanStays
    <2>4. ASSUME NEW t \in Slots, task[t] = Idle, Leaves(t), task'[t].op = "consume",
                 task'[t].at = "consume", media.recv # NoRoom
          PROVE  Clean'
        <3>1. Relies(task[t])' /\ ~Pending(task[t])
            BY <2>1, <2>4, IdleRelies DEF Relies
        <3> QED
            BY <2>1, <2>2, <2>4, <3>1, LightClean
    <2> QED
        BY <1>2, <2>3, <2>4, NewProducerDoes
<1>3. CASE Over
    BY <1>3, OverDoes, EndsClean
<1>4. CASE Rings
    <2>1. store'.state = "inComing" /\ store'.stream = store.stream
          /\ UNCHANGED <<media, task, touched>>
        BY <1>4, RingsDoes
    <2>2. Goes
        BY <2>1 DEF Goes
    <2> QED
        BY <2>1, <2>2, CleanStays
<1>5. CASE UserJoined \/ UserLeft
    <2>1. store'.state = store.state /\ store'.stream = store.stream
          /\ UNCHANGED <<media, task, touched>>
        BY <1>5, ComesDoes
    <2>2. Goes
        BY <2>1 DEF Goes
    <2> QED
        BY <2>1, <2>2, CleanStays
<1> QED
    BY <1>1, <1>2, <1>3, <1>4, <1>5 DEF Events

LEMMA RequestsClean ==
    ASSUME KTypeOK, Clean, NEW op, NEW at, NEW room, Requests(op, at, room), touched' = touched,
           op \in {"cancel", "reject", "end", "accept"}, at \notin {"screen"}
    PROVE  Clean'
<1>1. PICK t \in Slots : task[t] = Idle /\ Leaves(t) /\ task'[t].op = op /\ task'[t].at = at
    BY DEF Requests
<1>2. UNCHANGED <<store, media>>
    BY DEF Requests
<1>3. Relies(task[t])' /\ ~Pending(task[t])
    BY <1>1, IdleRelies DEF Relies
<1>4. Goes /\ (Tidy => Tidy')
    BY <1>2 DEF Goes, Tidy
<1> QED
    BY <1>1, <1>3, <1>4, LightClean

LEMMA ClickClean ==
    ASSUME KTypeOK, Clean, Clicks
    PROVE  Clean'
<1>1. CASE ClickCancel \/ ClickAccept \/ ClickReject \/ ClickEndCall
    <2>1. /\ touched' = touched
          /\ \/ Requests("cancel", "cancel", NoRoom)
             \/ Requests("accept", "accept", store.room)
             \/ Requests("reject", "reject", store.room)
             \/ Requests("end", "end", store.room)
        BY <1>1, RequestsDo DEF Clicked
    <2>2. CASE Requests("cancel", "cancel", NoRoom)
        BY <2>1, <2>2, RequestsClean
    <2>3. CASE Requests("accept", "accept", store.room)
        BY <2>1, <2>3, RequestsClean
    <2>4. CASE Requests("reject", "reject", store.room)
        BY <2>1, <2>4, RequestsClean
    <2>5. CASE Requests("end", "end", store.room)
        BY <2>1, <2>5, RequestsClean
    <2> QED
        BY <2>1, <2>2, <2>3, <2>4, <2>5
<1>2. CASE \/ ClickMatch \/ \E c \in Chats : ClickRing(c)
           \/ \E kind \in Tracks : ClickToggle(kind)
    <2>1. touched' = touched /\ \E k : Fresh(k) /\ Begin(k)
        BY <1>2, ClicksBegin DEF Clicked
    <2> QED
        BY <2>1, BeginClean
<1>3. CASE ClickHangUp
    BY <1>3, HangUpDoes, EndsClean
<1>4. CASE StartShare \/ StopShare
    <2>1. UNCHANGED <<store, touched>> /\ store.state # "ended"
        BY <1>4, ShareDoes DEF Live
    <2>2. PICK t \in Slots : /\ task[t] = Idle /\ Leaves(t) /\ task'[t].op = "share"
                             /\ task'[t].at \in {"camera", "shared"}
                             /\ media'.send = media.send /\ media'.recv = media.recv
        BY <1>4, ShareDoes
    <2>3. Goes /\ Relies(task[t])'
        BY <2>1, <2>2 DEF Goes, Relies
    <2> QED
        BY <2>1, <2>2, <2>3, LeavesCloses, CleanKept
<1> QED
    BY <1>1, <1>2, <1>3, <1>4 DEF Clicks

LEMMA ServedClean ==
    ASSUME KTypeOK, Clean, NEW t \in Slots, Served(t)
    PROVE  Clean'
<1>1. UNCHANGED <<store, media, touched>> /\ Leaves(t)
    BY DEF Served
<1>2. Relies(task[t]) => Relies(task[t])'
    BY <1>1 DEF Served, Relies
<1>3. Pending(task[t]) => Pending(task'[t])
    BY DEF Served, Pending
<1>4. Goes /\ (Tidy => Tidy')
    BY <1>1 DEF Goes, Tidy
<1>5. Relies(task[t])
    BY DEF Clean
<1> QED
    BY <1>1, <1>2, <1>3, <1>4, <1>5, LeavesCloses, CleanKept

LEMMA ServeIsServed ==
    ASSUME KTypeOK, NEW t \in Slots, Serve(t)
    PROVE  Served(t) \/ NoAnswer(t)
    BY ServeMatchDoes, ServeRingDoes, ServeAcceptDoes, ServeRejectDoes, ServeEndDoes,
       ServeExistingDoes, ReplyDoes, ServeMediaDoes, ServeConsumeDoes DEF Serve

LEMMA ServeClean ==
    ASSUME KTypeOK, Clean, NEW t \in Slots, Serve(t)
    PROVE  Clean'
<1>1. CASE NoAnswer(t)
    <2>1. /\ task[t].at \in {"video", "audio", "screen", "consume"}
          /\ task'[t] = Idle /\ Leaves(t) /\ UNCHANGED <<store, media>>
          /\ IF task[t].op = "setup" THEN touched' = TRUE ELSE touched' = touched
        BY <1>1, NoAnswerDoes
    <2>2. Goes /\ (Tidy => Tidy') /\ Relies(task[t])'
        BY <2>1, IdleRelies DEF Goes, Tidy
    <2>3. Pending(task[t]) => task[t].op = "setup"
        BY <2>1 DEF Pending
    <2> QED
        BY <2>1, <2>2, <2>3, LeavesCloses, CleanKept
<1> QED
    BY <1>1, ServeIsServed, ServedClean

LEMMA ApartClean ==
    ASSUME KTypeOK, Clean, Apart
    PROVE  Clean'
<1>1. Goes
    BY DEF Apart, Goes
<1> QED
    BY <1>1, CleanStays DEF Apart

LEMMA CameraClean ==
    ASSUME KTypeOK, Clean, NEW t \in Slots, CameraOpens(t) \/ CameraFails(t)
    PROVE  Clean'
<1>1. CASE CameraOpens(t)
    <2>1. PICK k, s : Opens(t, k, s)
        BY <1>1, CameraOpensDoes
    <2>2. Starts(t, k, s) /\ Continue(t, k, s) /\ k.request = "none" /\ task[t].at = "camera"
          /\ k.op = task[t].op
        BY <2>1 DEF Opens
    <2>3. touched' = (touched \/ task[t].crossed \/ (task[t].op \in Tracks /\ store.state = "ended"))
        BY <1>1 DEF CameraOpens
    <2>4. ~Pending(task[t])
        BY <2>2 DEF Pending
    <2> QED
        BY <2>2, <2>3, <2>4, ContinueClean
<1>2. CASE CameraFails(t)
    <2>1. /\ task[t].at = "camera" /\ task'[t] = Idle
          /\ \/ Ends({t}) /\ EndsPage
             \/ Leaves(t) /\ UNCHANGED <<store, media, touched>>
        BY <1>2, CameraFailsDoes
    <2>2. CASE Leaves(t) /\ UNCHANGED <<store, media, touched>>
        <3>1. Goes /\ (Tidy => Tidy') /\ Relies(task[t])' /\ ~Pending(task[t])
            BY <2>1, <2>2, IdleRelies DEF Goes, Tidy, Pending
        <3> QED
            BY <2>2, <3>1, LightClean
    <2> QED
        BY <2>1, <2>2, EndsClean
<1> QED
    BY <1>1, <1>2

LEMMA LostClean ==
    ASSUME KTypeOK, Clean, ConnectionLost
    PROVE  Clean'
<1>1. /\ Breaks /\ UNCHANGED <<store, media>>
    BY ConnectionLostDoes
<1>2. ASSUME store'.state = "ended", ~touched'
      PROVE  Tidy' \/ \E t \in Slots : Pending(task'[t])
    <2>1. /\ ~touched
          /\ \A t \in Slots : task[t].op \in {"match", "setup"} => ~Awaits(task[t].at)
        BY <1>2 DEF ConnectionLost
    <2>2. CASE Tidy
        BY <1>1, <2>2 DEF Tidy
    <2>3. CASE \E t \in Slots : Pending(task[t])
        <3>1. PICK t \in Slots : Pending(task[t])
            BY <2>3
        <3>2. task'[t] = task[t]
            BY <1>1, <2>1, <3>1 DEF Breaks, Pending
        <3> QED
            BY <3>1, <3>2
    <2> QED
        BY <1>1, <1>2, <2>1, <2>2, <2>3 DEF Clean
<1>3. ASSUME NEW t \in Slots
      PROVE  Relies(task[t])'
    <2>1. CASE task'[t] = Idle
        BY <2>1, IdleRelies
    <2>2. CASE task'[t] = task[t]
        <3>1. Relies(task[t])
            BY DEF Clean
        <3> QED
            BY <1>1, <2>2, <3>1 DEF Relies
    <2> QED
        BY <1>1, <2>1, <2>2 DEF Breaks
<1> QED
    BY <1>2, <1>3 DEF Clean

LEMMA NextClean ==
    ASSUME KTypeOK, Clean, KNext
    PROVE  Clean'
<1>1. ASSUME NEW t \in Slots,
             CameraOpens(t) \/ CameraFails(t) \/ Setup(t) \/ Resume(t) \/ Serve(t)
      PROVE  Clean'
    BY <1>1, CameraClean, SetupClean, ResumeClean, ServeClean
<1>2. CASE Events \/ Clicks
    BY <1>2, EventClean, ClickClean
<1>3. CASE Emissions \/ Others
    BY <1>3, EmissionsAre, ApartClean
<1>4. CASE ConnectionLost
    BY <1>4, LostClean
<1> QED
    BY <1>1, <1>2, <1>3, <1>4 DEF KNext

LEMMA CleanShows == KTypeOK /\ Clean => EndedIsClean
<1> SUFFICES ASSUME KTypeOK, Clean, store.state = "ended", ~touched,
                    ~Running({"match", "ring", "setup", "share"} \union Tracks)
             PROVE  media = [FreshMedia EXCEPT !.device = media.device] /\ store.stream # "live"
    BY DEF EndedIsClean
<1>1. \A t \in Slots : ~Pending(task[t])
    BY DEF Running, Pending
<1>2. Tidy
    BY <1>1 DEF Clean
<1> QED
    BY <1>2 DEF Tidy, Cleanup

\* Nothing is left of a call that is over, "통화 종료 시에만 자동 정리" (call.ts:97), but
\* what a function the end crossed made.
THEOREM PageEndsClean == KSpec => []EndedIsClean
<1>1. KInit => Clean
    BY InitClean
<1>2. KTypeOK /\ Clean /\ [KNext]_kvars => Clean'
    <2>1. ASSUME Clean, KTypeOK, UNCHANGED kvars
          PROVE  Clean'
        BY <2>1, ApartClean DEF Apart, kvars
    <2> QED
        BY <2>1, NextClean
<1> QED
    BY <1>1, <1>2, CleanShows, PageTypeCorrect, PTL DEF KSpec
-----------------------------------------------------------------------------
(* Who is shown muted sends nothing.                                       *)

\* What the track sends, and who will show it.
Heard(j) ==
    media.producers[j] = "on" /\ store.enabled[j] /\ store.stream = "live" /\ ~store.shown[j]
Sounds(k, j) ==
    \/ k.op = j /\ k.at = "turn" /\ k.flag
    \/ k.op = "setup" /\ k.at \in {"device", "load", "send"}

Alone(j) == \A t, u \in Slots : task[t].op = j /\ task[u].op = j => t = u
Silent(j) == \A t \in Slots : At(t, j, "turn") /\ ~task[t].flag => ~store.enabled[j]
Owed(j) == strayed = {} /\ Heard(j) => \E t \in Slots : Sounds(task[t], j)
Muted == \A j \in Tracks \ hasty : Alone(j) /\ Silent(j) /\ Owed(j)

\* No other function turns the track.
Only(t, j) == \A u \in Slots \ {t} : task[u].op # j
Turns(k, j) == k.op = j /\ k.at = "turn"

LEMMA InitMuted ==
    ASSUME KInit
    PROVE  Muted
<1>1. \A t \in Slots : task[t].op = "idle"
    BY IdleFits DEF KInit
<1>2. store.stream = "none"
    BY DEF KInit, FreshStore
<1> QED
    BY <1>1, <1>2 DEF Muted, Alone, Silent, Owed, Heard, At, Tracks

LEMMA EndsMuted ==
    ASSUME KTypeOK, Muted, NEW over, Ends(over), EndsPage, hasty' = hasty
    PROVE  Muted'
<1> SUFFICES ASSUME NEW j \in Tracks \ hasty
             PROVE  Alone(j)' /\ Silent(j)' /\ Owed(j)'
    BY DEF Muted
<1>1. Alone(j)
    BY DEF Muted
<1>2. \A u \in Slots : task'[u].op = j => task[u].op = j
    BY IdleFits DEF Ends, Tracks
<1>3. ~store'.enabled[j] /\ store'.stream # "live"
    BY DEF EndsPage, Off
<1> QED
    BY <1>1, <1>2, <1>3 DEF Alone, Silent, Owed, Heard

LEMMA MutedKept ==
    ASSUME KTypeOK, Muted, NEW t \in Slots, Closes(t), hasty \subseteq hasty',
           strayed \subseteq strayed',
           \A j \in Tracks \ hasty' :
               /\ task'[t].op = j => Only(t, j)
               /\ Turns(task'[t], j) /\ ~task'[t].flag => ~store'.enabled[j]
               /\ store'.enabled[j] => store.enabled[j] \/ Only(t, j)
               /\ strayed' = {} /\ Heard(j)' =>
                      Sounds(task'[t], j) \/ (Heard(j) /\ ~Sounds(task[t], j))
    PROVE  Muted'
<1> SUFFICES ASSUME NEW j \in Tracks \ hasty'
             PROVE  Alone(j)' /\ Silent(j)' /\ Owed(j)'
    BY DEF Muted
<1>1. Alone(j) /\ Silent(j) /\ Owed(j)
    BY DEF Muted
<1>2. \A u \in Slots \ {t} : /\ task'[u].op = task[u].op /\ task'[u].at = task[u].at
                             /\ task'[u].flag = task[u].flag
    BY DEF Closes
<1>3. Alone(j)'
    BY <1>1, <1>2 DEF Alone, Only
<1>4. Silent(j)'
    <2>1. ASSUME NEW u \in Slots, At(u, j, "turn")', ~task'[u].flag
          PROVE  ~store'.enabled[j]
        <3>1. CASE u = t
            BY <2>1, <3>1 DEF At, Turns
        <3>2. CASE u # t
            <4>1. At(u, j, "turn") /\ ~task[u].flag /\ ~Only(t, j)
                BY <1>2, <2>1, <3>2 DEF At, Only
            <4> QED
                BY <1>1, <4>1 DEF Silent
        <3> QED
            BY <3>1, <3>2
    <2> QED
        BY <2>1 DEF Silent
<1>5. Owed(j)'
    <2>1. ASSUME strayed' = {}, Heard(j)', ~Sounds(task'[t], j)
          PROVE  \E u \in Slots : Sounds(task'[u], j)
        <3>1. strayed = {} /\ Heard(j) /\ ~Sounds(task[t], j)
            BY <2>1
        <3>2. PICK u \in Slots : Sounds(task[u], j)
            BY <1>1, <3>1 DEF Owed
        <3>3. u # t
            BY <3>1, <3>2
        <3> QED
            BY <1>2, <3>2, <3>3 DEF Sounds
    <2> QED
        BY <2>1 DEF Owed
<1> QED
    BY <1>3, <1>4, <1>5

LEMMA MutedStays ==
    ASSUME Muted, task' = task, hasty \subseteq hasty', strayed \subseteq strayed',
           store'.enabled = store.enabled, store'.shown = store.shown,
           store'.stream = store.stream, media'.producers = media.producers
    PROVE  Muted'
<1>1. \A j \in Tracks : Heard(j)' = Heard(j)
    BY DEF Heard
<1>2. \A j \in Tracks \ hasty' : Alone(j)' /\ Silent(j)' /\ Owed(j)'
    <2> TAKE j \in Tracks \ hasty'
    <2>1. Alone(j) /\ Silent(j) /\ Owed(j)
        BY DEF Muted
    <2> QED
        BY <1>1, <2>1 DEF Alone, Silent, Owed, At
<1> QED
    BY <1>2 DEF Muted

\* A step of a function that turns nothing, and that leaves the tracks.
LEMMA QuietMuted ==
    ASSUME KTypeOK, Muted, NEW t \in Slots, Closes(t), hasty' = hasty, strayed \subseteq strayed',
           task'[t].op \notin Tracks, store'.enabled = store.enabled,
           store'.shown = store.shown, store'.stream = store.stream,
           strayed' = {} => /\ \A j \in Tracks : media'.producers[j] = "on" => media.producers[j] = "on"
                            /\ \A j \in Tracks : Sounds(task[t], j) => Sounds(task'[t], j)
    PROVE  Muted'
<1>1. \A j \in Tracks : strayed' = {} /\ Heard(j)' => Heard(j)
    BY DEF Heard
<1>2. \A j \in Tracks \ hasty' :
          /\ task'[t].op # j
          /\ store'.enabled[j] => store.enabled[j]
          /\ strayed' = {} /\ Heard(j)' =>
                 Sounds(task'[t], j) \/ (Heard(j) /\ ~Sounds(task[t], j))
    BY <1>1
<1> QED
    BY <1>2, MutedKept DEF Turns

LEMMA TurnTurns ==
    ASSUME KTypeOK, NEW t \in Slots, NEW k, NEW s, Starts(t, k, s), Turn(t, k, s),
           s = store \/ s.enabled = Off
    PROVE  \E x \in Tracks, b \in BOOLEAN :
              /\ k.op = x /\ store'.enabled[x] = b
              /\ \A j \in Tracks \ {x} : store'.enabled[j] =>
                    /\ store.enabled[j] /\ store'.shown[j] = store.shown[j] /\ s = store
              /\ \A j \in Tracks \ {x} : media'.producers[j] = media.producers[j]
              /\ \/ task'[t].op = "idle" /\ store'.shown[x] = b
                 \/ task'[t].op = x /\ task'[t].at = "turn" /\ task'[t].flag = b
<1>0. k.op \in Tracks /\ k.flag \in BOOLEAN
    <2>1. k \in TaskType /\ k.op \in Tracks
        BY DEF Turn, Starts
    <2> QED
        BY <2>1, TaskFields
<1> PICK x \in Tracks : x = k.op
    BY <1>0
<1> PICK b \in BOOLEAN : b = ~k.flag
    BY <1>0
<1> DEFINE s1 == [s EXCEPT !.enabled[x] = b]
<1>1. s \in StoreType /\ media \in MediaType /\ Tracks \subseteq Produced /\ x \in Produced
    BY DEF Starts, KTypeOK, Types, Produced
<1>2. /\ s1 \in StoreType /\ s1.stream = s.stream
      /\ s1.enabled = [s.enabled EXCEPT ![x] = b] /\ s1.shown = s.shown
    <2>1. s1 \in StoreType
        BY <1>1, EnabledIs
    <2>2. /\ s1.stream = s.stream /\ s1.enabled = [s.enabled EXCEPT ![x] = b]
          /\ s1.shown = s.shown
        BY <1>1, EnabledIs
    <2> QED
        BY <2>1, <2>2
<1>3. s.enabled \in [Tracks -> BOOLEAN] /\ s.shown \in [Tracks -> BOOLEAN]
    BY <1>1 DEF StoreType
<1>4. \/ /\ x = "video" /\ store' = [s1 EXCEPT !.shown["video"] = b]
         /\ UNCHANGED media
      \/ /\ store' = s1
         /\ media' = IF b THEN ResumeProducer(media, x) ELSE PauseProducer(media, x)
    BY DEF Turn
<1>5. \/ task'[t].op = "idle" /\ UNCHANGED media /\ x = "video" /\ store' = [s1 EXCEPT !.shown["video"] = b]
      \/ /\ task'[t].op = x /\ task'[t].at = "turn" /\ task'[t].flag = b
         /\ store' = s1
    <2>1. CASE k.op = "video" /\ ~k.live
        <3>1. Put(t, Idle) /\ UNCHANGED media /\ store' = [s1 EXCEPT !.shown["video"] = b]
            BY <2>1 DEF Turn
        <3> QED
            BY <2>1, <3>1, PutsIdle
    <2>2. CASE ~(k.op = "video" /\ ~k.live)
        <3> DEFINE f == [k EXCEPT !.flag = b]
        <3>1. Put(t, Asking(f, "turn")) /\ store' = s1
            BY <2>2 DEF Turn
        <3>2. k \in TaskType /\ Sited(k)
            BY DEF Starts
        <3>3. f \in TaskType /\ f.op = x /\ f.room = k.room /\ f.flag = b
            BY <3>2, FlagIs
        <3> HIDE DEF f
        <3>4. "turn" \in Steps /\ Route(f.op, "turn") /\ Awaits("turn") /\ Sited(f)
            BY <3>3 DEF Steps, Route, Awaits, Sited, Tracks
        <3>5. task'[t].op = f.op /\ task'[t].at = "turn" /\ task'[t].flag = f.flag
            BY <3>1, <3>3, <3>4, PutsAsking
        <3> QED
            BY <3>1, <3>3, <3>5
    <2> QED
        BY <2>1, <2>2
<1> HIDE DEF s1
<1>6. /\ store'.enabled = s1.enabled
      /\ \A j \in Tracks \ {x} : store'.shown[j] = s1.shown[j]
      /\ task'[t].op = "idle" /\ x = "video" => store'.shown[x] = b \/ store' = s1
    <2>1. CASE x = "video" /\ store' = [s1 EXCEPT !.shown["video"] = b]
        <3>1. store'.enabled = s1.enabled /\ store'.shown = [s1.shown EXCEPT ![x] = b]
            BY <1>2, <2>1, ShownIs
        <3> QED
            BY <1>2, <1>3, <3>1
    <2>2. CASE store' = s1
        BY <2>2
    <2> QED
        BY <1>5, <2>1, <2>2
<1>7. store'.enabled[x] = b /\ \A j \in Tracks \ {x} : store'.enabled[j] = s.enabled[j]
    BY <1>2, <1>3, <1>6
<1>8. \A j \in Tracks \ {x} : store'.enabled[j] =>
          store.enabled[j] /\ store'.shown[j] = store.shown[j] /\ s = store
    BY <1>2, <1>6, <1>7 DEF Off
<1>9. \A j \in Tracks \ {x} : media'.producers[j] = media.producers[j]
    <2>1. media' \in {media, ResumeProducer(media, x), PauseProducer(media, x)}
        BY <1>4
    <2>2. \A j \in Produced \ {x} :
              ResumeProducer(media, x).producers[j] = media.producers[j]
        BY <1>1, ResumeIs
    <2>3. \A j \in Produced \ {x} : PauseProducer(media, x).producers[j] = media.producers[j]
        BY <1>1, PauseIs
    <2> QED
        BY <1>1, <2>1, <2>2, <2>3
<1>10. \/ task'[t].op = "idle" /\ store'.shown[x] = b
       \/ task'[t].op = x /\ task'[t].at = "turn" /\ task'[t].flag = b
    <2>1. CASE x = "video" /\ store' = [s1 EXCEPT !.shown["video"] = b] /\ task'[t].op = "idle"
        <3>1. store'.shown = [s1.shown EXCEPT ![x] = b]
            BY <1>2, <2>1, ShownIs
        <3> QED
            BY <1>2, <1>3, <2>1, <3>1
    <2> QED
        BY <1>5, <2>1
<1> QED
    BY <1>7, <1>8, <1>9, <1>10
\* A function goes on with the camera; the only one that turns its track does.
LEMMA ContinueMuted ==
    ASSUME KTypeOK, Muted, NEW t \in Slots, NEW k, NEW s, Starts(t, k, s), k.request = "none",
           Continue(t, k, s), hasty \subseteq hasty', s = store \/ s.enabled = Off,
           \A j \in Tracks \ hasty' : ~Sounds(task[t], j) /\ (k.op = j => Only(t, j))
    PROVE  Muted'
<1>1. Closes(t) /\ strayed \subseteq strayed'
    BY ContinueDoes, LeavesCloses
<1>2. CASE AskMatch(t, k, s) \/ AskRing(t, k, s)
    <2>1. /\ task'[t].op \in {"match", "ring"} /\ store'.enabled = s.enabled
          /\ store'.shown = s.shown /\ store'.stream = s.stream /\ media' = media
        BY <1>2, AskMatchDoes, AskRingDoes DEF Asks, Starts
    <2>2. \A j \in Tracks \ hasty' :
              /\ task'[t].op # j /\ (store'.enabled[j] => store.enabled[j])
              /\ Heard(j)' => Heard(j)
        BY <2>1 DEF Tracks, Heard, Off
    <2> QED
        BY <1>1, <2>1, <2>2, MutedKept DEF Turns
<1>3. CASE StartSetup(t, k, s)
    <2>1. /\ task'[t].op = "setup" /\ task'[t].at = "device" /\ store'.enabled = s.enabled
        BY <1>3, StartSetupDoes
    <2>2. \A j \in Tracks \ hasty' :
              /\ task'[t].op # j /\ (store'.enabled[j] => store.enabled[j])
              /\ Sounds(task'[t], j)
        BY <2>1 DEF Tracks, Sounds, Off
    <2> QED
        BY <1>1, <2>1, <2>2, MutedKept DEF Turns
<1>4. CASE Turn(t, k, s)
    <2>1. PICK x \in Tracks, b \in BOOLEAN :
          /\ k.op = x /\ store'.enabled[x] = b
          /\ \A j \in Tracks \ {x} : store'.enabled[j] =>
                /\ store.enabled[j] /\ store'.shown[j] = store.shown[j] /\ s = store
          /\ \A j \in Tracks \ {x} : media'.producers[j] = media.producers[j]
          /\ \/ task'[t].op = "idle" /\ store'.shown[x] = b
             \/ task'[t].op = x /\ task'[t].at = "turn" /\ task'[t].flag = b
        BY <1>4, TurnTurns
    <2>2. s.stream = "live"
        BY DEF Starts
    <2>3. ASSUME NEW j \in Tracks \ hasty', j = x
          PROVE  /\ Only(t, j)
                 /\ Turns(task'[t], j) /\ ~task'[t].flag => ~store'.enabled[j]
                 /\ Heard(j)' => Sounds(task'[t], j)
        BY <2>1, <2>3 DEF Turns, Heard, Sounds, Tracks
    <2>4. ASSUME NEW j \in Tracks \ hasty', j # x
          PROVE  /\ task'[t].op # j /\ (store'.enabled[j] => store.enabled[j])
                 /\ Heard(j)' => Heard(j)
        BY <2>1, <2>2, <2>4 DEF Heard, Tracks
    <2> QED
        BY <1>1, <2>3, <2>4, MutedKept DEF Turns
<1> QED
    BY <1>2, <1>3, <1>4 DEF Continue

LEMMA IdleSounds == \A j \in Tracks : ~Sounds(Idle, j)
    BY DEF Sounds, Tracks, Idle

LEMMA BeginMuted ==
    ASSUME KTypeOK, Muted, NEW k, Fresh(k), Begin(k), hasty \subseteq hasty',
           \A j \in Tracks \ hasty', u \in Slots : k.op = j => task[u].op # j
    PROVE  Muted'
<1>1. PICK t \in Slots :
          /\ task[t] = Idle /\ Leaves(t)
          /\ \/ Starts(t, k, store) /\ Continue(t, k, store)
             \/ /\ task'[t] = k /\ store.stream # "live"
                /\ UNCHANGED <<store, media, strayed>>
    BY BeginDoes
<1>2. \A j \in Tracks \ hasty' : ~Sounds(task[t], j) /\ (k.op = j => Only(t, j))
    BY <1>1, IdleSounds DEF Only
<1>3. CASE Starts(t, k, store) /\ Continue(t, k, store)
    BY <1>2, <1>3, ContinueMuted DEF Fresh
<1>4. CASE task'[t] = k /\ store.stream # "live" /\ UNCHANGED <<store, media, strayed>>
    <2>1. \A j \in Tracks \ hasty' : /\ ~Turns(task'[t], j) /\ (task'[t].op = j => Only(t, j))
                                     /\ Heard(j)' => Heard(j)
        BY <1>2, <1>4 DEF Fresh, Turns, Heard
    <2> QED
        BY <1>1, <1>2, <1>4, <2>1, MutedKept, LeavesCloses
<1> QED
    BY <1>1, <1>3, <1>4

LEMMA CameraMuted ==
    ASSUME KTypeOK, Muted, NEW t \in Slots, CameraOpens(t) \/ CameraFails(t)
    PROVE  Muted'
<1>1. CASE CameraOpens(t)
    <2>1. PICK k, s : Opens(t, k, s)
        BY <1>1, CameraOpensDoes
    <2>2. /\ Starts(t, k, s) /\ Continue(t, k, s) /\ k.request = "none" /\ task[t].at = "camera"
          /\ k.op = task[t].op /\ s.enabled = Off
        BY <2>1 DEF Opens
    <2>3. hasty' = hasty
        BY <1>1 DEF CameraOpens, Quiet
    <2>4. \A j \in Tracks \ hasty' : ~Sounds(task[t], j) /\ (k.op = j => Only(t, j))
        <3> TAKE j \in Tracks \ hasty'
        <3>1. Alone(j)
            BY <2>3 DEF Muted
        <3> QED
            BY <2>2, <3>1 DEF Sounds, Alone, Only
    <2> QED
        BY <2>2, <2>3, <2>4, ContinueMuted
<1>2. CASE CameraFails(t)
    <2>1. /\ task[t].at = "camera" /\ task'[t] = Idle /\ UNCHANGED hasty
          /\ \/ Ends({t}) /\ EndsPage
             \/ Leaves(t) /\ UNCHANGED <<store, media>> /\ strayed \subseteq strayed'
        BY <1>2, CameraFailsDoes
    <2>2. CASE Leaves(t) /\ UNCHANGED <<store, media>> /\ strayed \subseteq strayed'
        <3>1. \A j \in Tracks : ~Sounds(task[t], j)
            BY <2>1 DEF Sounds
        <3>2. task'[t].op \notin Tracks
            BY <2>1, IdleFits DEF Tracks
        <3> QED
            BY <2>1, <2>2, <3>1, <3>2, LeavesCloses, QuietMuted
    <2> QED
        BY <2>1, <2>2, EndsMuted
<1> QED
    BY <1>1, <1>2
LEMMA SetupMuted ==
    ASSUME KTypeOK, Muted, NEW t \in Slots, Setup(t)
    PROVE  Muted'
<1>1. ASSUME NEW j \in Tracks, task[t].op = "setup"
      PROVE  (task[t].at \notin {"device", "load", "send"} => ~Sounds(task[t], j))
             /\ (task'[t].op = "setup" /\ task'[t].at \in {"device", "load", "send"}
                     => Sounds(task'[t], j))
    BY <1>1 DEF Sounds, Tracks
<1>2. CASE InitializeDevice(t) \/ LoadDevice(t)
    <2>1. /\ task[t].op = "setup" /\ Leaves(t) /\ task'[t].op = task[t].op
          /\ task'[t].at \in {"load", "send"} /\ media'.producers = media.producers
          /\ UNCHANGED <<store, strayed, hasty>>
        BY <1>2, DeviceDoes DEF Continued
    <2>2. task'[t].op \notin Tracks
        BY <2>1 DEF Tracks
    <2> QED
        BY <1>1, <2>1, <2>2, QuietMuted, LeavesCloses
<1>3. CASE SendTransport(t)
    <2>1. task[t].op = "setup" /\ Closes(t) /\ UNCHANGED <<store, hasty>>
        BY <1>3, SendDoes
    <2>2. CASE task'[t] = Idle /\ strayed' = strayed \union {task[t].room}
        <3>1. task'[t].op \notin Tracks
            BY <2>2, IdleFits DEF Tracks
        <3> QED
            BY <2>1, <2>2, <3>1, QuietMuted
    <2>3. CASE media' = CreateSendTransport(media, task[t].room) /\ Continued(t) /\ UNCHANGED strayed
        <3>1. media'.producers = NoProducers
            BY <2>3 DEF CreateSendTransport, KTypeOK, Types, MediaType
        <3>2. task'[t].op \notin Tracks
            BY <2>1, <2>3 DEF Continued, Tracks
        <3>3. \A j \in Tracks : ~Heard(j)'
            BY <3>1 DEF NoProducers, Heard, Tracks, Produced
        <3> QED
            BY <2>1, <2>3, <3>2, <3>3, MutedKept DEF Turns
    <2> QED
        BY <1>3, <2>2, <2>3, SendDoes
<1>4. CASE RecvTransport(t)
    <2>1. /\ task[t].op = "setup" /\ task[t].at = "recv" /\ Closes(t) /\ UNCHANGED hasty
          /\ task[t].room \in Rooms /\ media' = CreateRecvTransport(media, task[t].room)
        BY <1>4, RecvDoes
    <2>2. media'.producers = media.producers
        BY <2>1 DEF CreateRecvTransport, KTypeOK, Types, MediaType
    <2>3. /\ store'.enabled = store.enabled /\ store'.shown = store.shown
          /\ store'.stream = store.stream /\ strayed \subseteq strayed'
          /\ task'[t].op \in {"idle", "setup"}
        BY <1>4, <2>1, RecvDoes, IdleFits DEF Finishes, Continued
    <2> QED
        BY <1>1, <2>1, <2>2, <2>3, QuietMuted DEF Tracks
<1>5. CASE ProduceVideo(t) \/ ProduceAudio(t)
    <2>1. /\ task[t].op = "setup" /\ task[t].at \in {"video", "audio"} /\ Closes(t)
          /\ UNCHANGED hasty
          /\ \A j \in Tracks : media'.producers[j] = "on" => media.producers[j] = "on"
        BY <1>5, ProduceDoes, LeavesCloses
    <2>2. /\ store'.enabled = store.enabled /\ store'.shown = store.shown
          /\ store'.stream = store.stream /\ strayed \subseteq strayed'
          /\ task'[t].op \in {"idle", "setup"}
        BY <1>5, <2>1, ProduceDoes, IdleFits DEF Finishes, Continued
    <2> QED
        BY <1>1, <2>1, <2>2, QuietMuted DEF Tracks
<1> QED
    BY <1>2, <1>3, <1>4, <1>5 DEF Setup

\* The answer to a toggle: what is enabled is what will be shown.
LEMMA TurnedMuted ==
    ASSUME KTypeOK, Muted, NEW t \in Slots, Turned(t)
    PROVE  Muted'
<1>1. /\ task[t].op \in Tracks /\ task[t].at = "turn" /\ Closes(t) /\ task'[t] = Idle
      /\ store'.stream = store.stream /\ store'.enabled = store.enabled
      /\ store'.shown = [store.shown EXCEPT ![task[t].op] = task[t].flag]
      /\ UNCHANGED <<media, strayed, hasty>>
    BY TurnedDoes, LeavesCloses
<1>2. task[t].flag \in BOOLEAN /\ store.shown \in [Tracks -> BOOLEAN]
    BY FitsIs, TaskFields DEF KTypeOK, Types, StoreType
<1>3. PICK x \in Tracks : x = task[t].op
    BY <1>1
<1>4. /\ store'.shown[x] = task[t].flag
      /\ \A j \in Tracks \ {x} : store'.shown[j] = store.shown[j]
    BY <1>1, <1>2, <1>3
<1>5. task'[t].op \notin Tracks
    BY <1>1, IdleFits DEF Tracks
<1>6. ASSUME NEW j \in Tracks \ hasty', j = x
      PROVE  ~Heard(j)'
    <2>1. ~task[t].flag => ~store.enabled[j]
        BY <1>1, <1>3, <1>6 DEF Muted, Silent, At
    <2> QED
        BY <1>1, <1>2, <1>4, <1>6, <2>1 DEF Heard
<1>7. ASSUME NEW j \in Tracks \ hasty', j # x
      PROVE  (Heard(j)' => Heard(j)) /\ ~Sounds(task[t], j)
    BY <1>1, <1>3, <1>4, <1>7 DEF Heard, Sounds, Tracks
<1> QED
    BY <1>1, <1>5, <1>6, <1>7, MutedKept DEF Turns

\* The other answers leave the tracks, but for those that end the call.
LEMMA ResumeMuted ==
    ASSUME KTypeOK, Muted, NEW t \in Slots, Resume(t)
    PROVE  Muted'
<1>1. CASE Turned(t)
    BY <1>1, TurnedMuted
<1>2. CASE EndAnswered(t)
    BY <1>2, EndAnsweredDoes, EndsMuted
<1>3. CASE MatchAnswered(t) \/ NothingDone(t) \/ Accepted(t) \/ Existing(t)
           \/ ScreenChosen(t) \/ ScreenProduced(t) \/ Shared(t) \/ Consumed(t)
    <2>1. /\ Closes(t) /\ UNCHANGED hasty /\ strayed \subseteq strayed'
          /\ store'.stream = store.stream /\ store'.enabled = store.enabled
          /\ store'.shown = store.shown
        <3>1. CASE MatchAnswered(t)
            BY <3>1, MatchAnsweredDoes, LeavesCloses
        <3>2. CASE NothingDone(t)
            BY <3>2, NothingDoneDoes, LeavesCloses
        <3>3. CASE Accepted(t)
            BY <3>3, AcceptedDoes, LeavesCloses
        <3>4. CASE Existing(t)
            BY <3>4, ExistingDoes, LeavesCloses
        <3>5. CASE ScreenChosen(t)
            BY <3>5, ScreenChosenDoes, LeavesCloses
        <3>6. CASE ScreenProduced(t)
            BY <3>6, ScreenProducedDoes, LeavesCloses
        <3>7. CASE Shared(t)
            BY <3>7, SharedDoes, LeavesCloses
        <3>8. CASE Consumed(t)
            BY <3>8, ConsumedDoes, LeavesCloses
        <3> QED
            BY <1>3, <3>1, <3>2, <3>3, <3>4, <3>5, <3>6, <3>7, <3>8
    <2>2. /\ task[t].op \in {"match", "reject", "end", "ring", "accept", "share", "consume"}
          /\ task'[t].op \in {"idle", task[t].op}
        <3>1. CASE Consumed(t)
            BY <3>1, ConsumedDoes, IdleFits DEF Continued
        <3>2. CASE ScreenProduced(t) \/ ScreenChosen(t)
            BY <3>2, ScreenProducedDoes, ScreenChosenDoes, IdleFits DEF Continued
        <3>3. CASE Accepted(t)
            BY <3>3, AcceptedDoes DEF Continued
        <3>4. CASE MatchAnswered(t) \/ NothingDone(t) \/ Existing(t) \/ Shared(t)
            <4>1. CASE MatchAnswered(t)
                BY <4>1, MatchAnsweredDoes, IdleFits
            <4>2. CASE NothingDone(t)
                BY <4>2, NothingDoneDoes, IdleFits
            <4>3. CASE Existing(t)
                BY <4>3, ExistingDoes, IdleFits
            <4>4. CASE Shared(t)
                BY <4>4, SharedDoes, IdleFits
            <4> QED
                BY <3>4, <4>1, <4>2, <4>3, <4>4
        <3> QED
            BY <1>3, <3>1, <3>2, <3>3, <3>4
    <2>3. media' = media \/ media'.producers = media.producers
          \/ media'.producers = [media.producers EXCEPT !["screen"] = "on"]
        <3>1. CASE Consumed(t)
            BY <3>1, ConsumedDoes
        <3>2. CASE ScreenProduced(t)
            BY <3>2, ScreenProducedDoes
        <3>3. CASE MatchAnswered(t) \/ NothingDone(t) \/ Accepted(t) \/ Existing(t)
                   \/ ScreenChosen(t) \/ Shared(t)
            <4>1. CASE MatchAnswered(t)
                BY <4>1, MatchAnsweredDoes
            <4>2. CASE NothingDone(t)
                BY <4>2, NothingDoneDoes
            <4>3. CASE Accepted(t)
                BY <4>3, AcceptedDoes
            <4>4. CASE Existing(t)
                BY <4>4, ExistingDoes
            <4>5. CASE ScreenChosen(t)
                BY <4>5, ScreenChosenDoes
            <4>6. CASE Shared(t)
                BY <4>6, SharedDoes
            <4> QED
                BY <3>3, <4>1, <4>2, <4>3, <4>4, <4>5, <4>6
        <3> QED
            BY <1>3, <3>1, <3>2, <3>3
    <2>4. \A j \in Tracks : media'.producers[j] = media.producers[j]
        BY <2>3 DEF Tracks, KTypeOK, Types, MediaType, Produced
    <2>5. task'[t].op \notin Tracks /\ \A j \in Tracks : ~Sounds(task[t], j)
        BY <2>2 DEF Tracks, Sounds
    <2> QED
        BY <2>1, <2>4, <2>5, QuietMuted
<1> QED
    BY <1>1, <1>2, <1>3 DEF Resume

LEMMA EventMuted ==
    ASSUME KTypeOK, Muted, Events
    PROVE  Muted'
<1>1. CASE Success
    <2>1. PICK k : Fresh(k) /\ k.op = "setup" /\ Begin(k)
        BY <1>1, SuccessDoes
    <2>2. hasty' = hasty /\ "setup" \notin Tracks
        BY <1>1, SuccessDoes DEF Tracks
    <2> QED
        BY <2>1, <2>2, BeginMuted
<1>2. CASE NewProducer
    <2>1. UNCHANGED <<store, media, strayed, hasty>>
        BY <1>2, NewProducerDoes
    <2>2. CASE UNCHANGED task
        BY <2>1, <2>2, MutedStays
    <2>3. CASE \E t \in Slots : task[t] = Idle /\ Leaves(t) /\ task'[t].op = "consume"
        BY <2>1, <2>3, IdleSounds, LeavesCloses, QuietMuted DEF Tracks
    <2> QED
        BY <1>2, <2>2, <2>3, NewProducerDoes
<1>3. CASE Over
    BY <1>3, OverDoes, EndsMuted
<1>4. CASE Rings \/ UserJoined \/ UserLeft
    <2>1. /\ UNCHANGED <<media, task, hasty>> /\ strayed \subseteq strayed'
          /\ store'.stream = store.stream /\ store'.enabled = store.enabled
          /\ store'.shown = store.shown
        BY <1>4, RingsDoes, ComesDoes
    <2> QED
        BY <2>1, MutedStays
<1> QED
    BY <1>1, <1>2, <1>3, <1>4 DEF Events

LEMMA ClickMuted ==
    ASSUME KTypeOK, Muted, Clicks
    PROVE  Muted'
<1>1. CASE ClickMatch \/ (\E c \in Chats : ClickRing(c)) \/ \E kind \in Tracks : ClickToggle(kind)
    <2>1. PICK k : /\ Fresh(k) /\ Begin(k)
                   /\ \A t \in Slots : k.op \in Tracks /\ task[t].op = k.op => k.op \in hasty'
        BY <1>1, ClicksBegin
    <2>2. hasty \subseteq hasty'
        BY <1>1, ClicksBegin
    <2>3. \A j \in Tracks \ hasty', u \in Slots : k.op = j => task[u].op # j
        BY <2>1
    <2> QED
        BY <2>1, <2>2, <2>3, BeginMuted
<1>2. CASE ClickCancel \/ ClickAccept \/ ClickReject \/ ClickEndCall
    <2>1. PICK op, at, room : op \in {"cancel", "accept", "reject", "end"} /\ Requests(op, at, room)
        BY <1>2, RequestsDo
    <2>2. PICK t \in Slots : task[t] = Idle /\ Leaves(t) /\ task'[t].op = op
        BY <2>1 DEF Requests
    <2>3. UNCHANGED <<store, media, strayed, hasty>>
        BY <1>2, <2>1, RequestsDo DEF Requests
    <2> QED
        BY <2>1, <2>2, <2>3, IdleSounds, LeavesCloses, QuietMuted DEF Tracks
<1>3. CASE ClickHangUp
    BY <1>3, HangUpDoes, EndsMuted
<1>4. CASE StartShare \/ StopShare
    <2>1. UNCHANGED <<store, strayed, hasty>>
        BY <1>4, ShareDoes
    <2>2. PICK t \in Slots :
              /\ task[t] = Idle /\ Leaves(t) /\ task'[t].op = "share"
              /\ \/ media' = media
                 \/ media'.producers = [media.producers EXCEPT !["screen"] = "none"]
        BY <1>4, ShareDoes
    <2>3. \A j \in Tracks : media'.producers[j] = media.producers[j]
        BY <2>2 DEF Tracks, KTypeOK, Types, MediaType, Produced
    <2> QED
        BY <2>1, <2>2, <2>3, IdleSounds, LeavesCloses, QuietMuted DEF Tracks
<1> QED
    BY <1>1, <1>2, <1>3, <1>4 DEF Clicks

LEMMA ServeMuted ==
    ASSUME KTypeOK, Muted, NEW t \in Slots, Serve(t)
    PROVE  Muted'
<1>1. CASE Served(t)
    <2>1. /\ Leaves(t) /\ UNCHANGED <<store, media, hasty, strayed>>
          /\ task'[t].op = task[t].op /\ task'[t].at = task[t].at /\ task'[t].flag = task[t].flag
        BY <1>1 DEF Served
    <2>2. \A j \in Tracks \ hasty' :
              /\ task'[t].op = j => Only(t, j)
              /\ Turns(task'[t], j) /\ ~task'[t].flag => ~store'.enabled[j]
              /\ Heard(j)' => Heard(j) /\ (Sounds(task[t], j) => Sounds(task'[t], j))
        <3> TAKE j \in Tracks \ hasty'
        <3>1. Alone(j) /\ Silent(j)
            BY <2>1 DEF Muted
        <3>2. task'[t].op = j => Only(t, j)
            BY <2>1, <3>1 DEF Alone, Only
        <3>3. Turns(task'[t], j) /\ ~task'[t].flag => ~store'.enabled[j]
            BY <2>1, <3>1 DEF Silent, At, Turns
        <3>4. Heard(j)' => Heard(j) /\ (Sounds(task[t], j) => Sounds(task'[t], j))
            BY <2>1 DEF Heard, Sounds
        <3> QED
            BY <3>2, <3>3, <3>4
    <2> QED
        BY <2>1, <2>2, LeavesCloses, MutedKept
<1>2. CASE NoAnswer(t)
    <2>1. /\ task[t].at \in {"video", "audio", "screen", "consume"} /\ task'[t] = Idle
          /\ Leaves(t) /\ UNCHANGED <<store, media, hasty>> /\ strayed \subseteq strayed'
        BY <1>2, NoAnswerDoes
    <2>2. task'[t].op \notin Tracks /\ \A j \in Tracks : ~Sounds(task[t], j)
        BY <2>1, IdleFits DEF Tracks, Sounds
    <2> QED
        BY <2>1, <2>2, LeavesCloses, QuietMuted
<1> QED
    BY <1>1, <1>2, ServeIsServed

LEMMA EmissionsStray ==
    ASSUME KTypeOK, Emissions \/ Others
    PROVE  strayed \subseteq strayed'
<1>1. ASSUME NEW r \in Rooms, TakeLeave(r) \/ TakeFeeds(r) \/ (r \in Chats /\ TakeEnd(r))
      PROVE  strayed \subseteq strayed'
    BY <1>1, TakeLeaveDoes, TakeFeedsDoes, TakeEndDoes
<1>2. ASSUME NEW r \in Rooms, NEW p \in Members[r], MateLeft(r, p) \/ MateEnds(r, p)
      PROVE  strayed \subseteq strayed'
    BY <1>2 DEF MateLeft, MateEnds
<1>3. ASSUME Others
      PROVE  strayed \subseteq strayed'
    BY <1>3 DEF Others, Act, Match, MateHangsUp, MateProduces, RingOver, FriendCalls, FriendAccepts
<1> QED
    BY <1>1, <1>2, <1>3 DEF Emissions

LEMMA LostMuted ==
    ASSUME KTypeOK, Muted, ConnectionLost
    PROVE  Muted'
<1>1. /\ Breaks /\ UNCHANGED <<store, media>>
      /\ strayed \subseteq strayed' /\ hasty \subseteq hasty'
    BY ConnectionLostDoes
<1> SUFFICES ASSUME NEW j \in Tracks \ hasty'
             PROVE  Alone(j)' /\ Silent(j)' /\ Owed(j)'
    BY DEF Muted
<1>2. Alone(j) /\ Silent(j) /\ Owed(j)
    BY <1>1 DEF Muted
<1>3. j # "idle" /\ Idle.op = "idle"
    BY IdleFits DEF Tracks
<1>4. \A t \in Slots : task'[t].op = j => task'[t] = task[t]
    BY <1>1, <1>3 DEF Breaks
<1>5. Alone(j)'
    BY <1>2, <1>4 DEF Alone
<1>6. Silent(j)'
    BY <1>1, <1>2, <1>4 DEF Silent, At
<1>7. Owed(j)'
    <2>1. ASSUME strayed' = {}, Heard(j)'
          PROVE  \E t \in Slots : Sounds(task'[t], j)
        <3>1. strayed = {} /\ Heard(j)
            BY <1>1, <2>1 DEF Heard
        <3>2. PICK t \in Slots : Sounds(task[t], j)
            BY <1>2, <3>1 DEF Owed
        <3>3. task[t].op # "setup"
            <4>1. task[t].op = "setup" => task[t].room \in Rooms
                BY FitsIs DEF Sited
            <4> QED
                BY <2>1, <4>1 DEF ConnectionLost
        <3>4. At(t, j, "turn")
            BY <3>2, <3>3 DEF Sounds, At
        <3>5. j \in hasty'
            BY <3>4 DEF ConnectionLost
        <3> QED
            BY <3>5
    <2> QED
        BY <2>1 DEF Owed
<1> QED
    BY <1>5, <1>6, <1>7

LEMMA NextMuted ==
    ASSUME KTypeOK, Muted, KNext
    PROVE  Muted'
<1>1. ASSUME NEW t \in Slots,
             CameraOpens(t) \/ CameraFails(t) \/ Setup(t) \/ Resume(t) \/ Serve(t)
      PROVE  Muted'
    BY <1>1, CameraMuted, SetupMuted, ResumeMuted, ServeMuted
<1>2. CASE Events \/ Clicks
    BY <1>2, EventMuted, ClickMuted
<1>3. CASE Emissions \/ Others
    BY <1>3, EmissionsAre, EmissionsStray, MutedStays DEF Apart
<1>4. CASE ConnectionLost
    BY <1>4, LostMuted
<1> QED
    BY <1>1, <1>2, <1>3, <1>4 DEF KNext

LEMMA MutedShows == KTypeOK /\ Muted => MutedIsSilent
<1> SUFFICES ASSUME KTypeOK, Muted, strayed = {}, ~Running({"setup"}), NEW j \in Tracks \ hasty,
                    Heard(j)
             PROVE  Running({j})
    BY DEF MutedIsSilent, Heard
<1>1. PICK t \in Slots : Sounds(task[t], j)
    BY DEF Muted, Owed
<1> QED
    BY <1>1 DEF Sounds, Running

\* A microphone or a camera that is shown off sends nothing, unless it is being turned, a
\* call is being set up, or it was turned again before the answer (useCallControls.ts:17-128).
THEOREM PageMutesSilent == KSpec => []MutedIsSilent
<1>1. KInit => Muted
    BY InitMuted
<1>2. KTypeOK /\ Muted /\ [KNext]_kvars => Muted'
    <2>1. ASSUME Muted, KTypeOK, UNCHANGED kvars
          PROVE  Muted'
        BY <2>1, MutedStays DEF kvars
    <2> QED
        BY <2>1, NextMuted
<1> QED
    BY <1>1, <1>2, MutedShows, PageTypeCorrect, PTL DEF KSpec

=============================================================================
