----------------------- MODULE CallPageSessionProofs -----------------------
(***************************************************************************)
(* Theorems that relate the page of CallPage to the server, for every set  *)
(* of rooms and people, every number of functions under way and every      *)
(* bound, whatever answers, events and clicks cross: what the page shows   *)
(* the server holds the user in, what it holds him in is shown, and who    *)
(* produces there is consumed.                                             *)
(*                                                                         *)
(* Each needs what is on its way: the news still in inbox, read in order,  *)
(* the answers not yet given and the requests not yet carried out.         *)
(***************************************************************************)
EXTENDS CallPageProofs

-----------------------------------------------------------------------------
(* What the page shows, the server holds the user in, or says that it is over. *)

Says(i, ev, r) == inbox[i].ev = ev /\ inbox[i].room = r
Sure(r) == r \in srv.seats \union strayed \/ <<"leave", r>> \in sent
Later(i, ev, r) == \E j \in 1..Len(inbox) : j > i /\ Says(j, ev, r)
Vouched(i, r) == Sure(r) \/ Later(i, "over", r)

\* Who takes part in the session of r, and what is about to make them.
Accepts(k, r) == k.op = "accept" /\ k.at = "accept" /\ ~k.crossed /\ k.room = r
Joins(k, r) ==
    (k.op = "setup" \/ (k.op = "accept" /\ k.at = "existing")) /\ ~k.crossed /\ k.room = r
Claims(r) ==
    \/ \E t \in Slots : Joins(task[t], r)
    \/ store.state \in Live /\ ~touched /\ store.room = r
Brings(i, r) ==
    \/ Says(i, "success", r)
    \/ inbox[i].ev = "answer" /\ inbox[i].who = TRUE /\ Accepts(task[inbox[i].room], r)
Seated ==
    /\ \A i \in 1..Len(inbox), r \in Rooms : Brings(i, r) => Vouched(i, r)
    /\ \A r \in Rooms : Claims(r) => Vouched(0, r)

\* The page takes what comes first, or nothing.
Shift(d) ==
    \/ d = 0 /\ inbox' = inbox
    \/ d = 1 /\ inbox # <<>> /\ Take

LEMMA ShiftIs ==
    ASSUME KTypeOK, NEW d \in {0, 1}, Shift(d)
    PROVE  /\ Len(inbox) \in Nat /\ Len(inbox') = Len(inbox) - d
           /\ \A i \in 1..Len(inbox') : i + d \in 1..Len(inbox) /\ inbox'[i] = inbox[i + d]
           /\ \A i \in 1..Len(inbox) : i > d => i - d \in 1..Len(inbox')
                                                /\ inbox'[i - d] = inbox[i]
<1>1. inbox \in Seq(Message)
    BY DEF KTypeOK, Types
<1>2. CASE d = 0 /\ inbox' = inbox
    BY <1>1, <1>2, LenProperties
<1>3. CASE d = 1 /\ inbox # <<>> /\ Take
    <2>1. /\ Len(inbox) \in Nat \ {0} /\ Len(inbox') = Len(inbox) - 1
          /\ \A i \in 1..Len(inbox') : i + 1 \in 1..Len(inbox) /\ inbox'[i] = inbox[i + 1]
        BY <1>1, <1>3, TakeIs
    <2>2. ASSUME NEW i \in 1..Len(inbox), i > 1
          PROVE  i - 1 \in 1..Len(inbox') /\ inbox'[i - 1] = inbox[i]
        <3>1. i - 1 \in 1..Len(inbox') /\ (i - 1) + 1 = i
            BY <2>1, <2>2
        <3> QED
            BY <2>1, <3>1
    <2> QED
        BY <1>3, <2>1, <2>2
<1> QED
    BY <1>2, <1>3 DEF Shift

\* The page takes a step: the server, the emissions and what strayed stay or grow.
Calm == srv' = srv /\ sent \subseteq sent' /\ strayed \subseteq strayed'

LEMMA VouchedShifts ==
    ASSUME KTypeOK, NEW d \in {0, 1}, Shift(d), Calm, NEW r, NEW i \in Nat, Vouched(i + d, r)
    PROVE  Vouched(i, r)'
<1>1. CASE Sure(r)
    BY <1>1 DEF Sure, Calm, Vouched, Later
<1>2. CASE \E j \in 1..Len(inbox) : j > i + d /\ Says(j, "over", r)
    <2>1. PICK j \in 1..Len(inbox) : j > i + d /\ Says(j, "over", r)
        BY <1>2
    <2>2. j - d \in 1..Len(inbox') /\ inbox'[j - d] = inbox[j] /\ j - d > i
        BY <2>1, ShiftIs
    <2> QED
        BY <2>1, <2>2 DEF Vouched, Later, Says
<1> QED
    BY <1>1, <1>2 DEF Vouched, Later

LEMMA SeatedKept ==
    ASSUME KTypeOK, Seated, NEW d \in {0, 1}, Shift(d), Calm,
           \A r \in Rooms : Claims(r)' => Vouched(d, r),
           \A u \in Slots, r \in Rooms : Accepts(task'[u], r) => Accepts(task[u], r) \/ task[u] = Idle
    PROVE  Seated'
<1>1. ASSUME NEW i \in 1..Len(inbox'), NEW r \in Rooms, Brings(i, r)'
      PROVE  Vouched(i, r)'
    <2>1. i + d \in 1..Len(inbox) /\ inbox'[i] = inbox[i + d] /\ i \in Nat
        BY ShiftIs
    <2>2. Brings(i + d, r)
        <3>1. CASE Says(i, "success", r)'
            BY <2>1, <3>1 DEF Brings, Says
        <3>2. CASE /\ inbox'[i].ev = "answer" /\ inbox'[i].who = TRUE
                   /\ Accepts(task'[inbox'[i].room], r)
            <4>1. PICK u : u = inbox'[i].room
                OBVIOUS
            <4>2. inbox[i + d] \in Message
                BY <2>1, ElementOfSeq DEF KTypeOK, Types
            <4>3. u \in Slots
                BY <2>1, <3>2, <4>1, <4>2, MessageFields
            <4>4. task[u].request = "none" /\ Awaits(task[u].at)
                BY <2>1, <3>2, <4>1 DEF KTypeOK, Answering
            <4>5. task[u] # Idle
                BY <4>4, IdleFits DEF Awaits
            <4> QED
                BY <2>1, <3>2, <4>1, <4>3, <4>5 DEF Brings
        <3> QED
            BY <1>1, <3>1, <3>2 DEF Brings
    <2> QED
        BY <2>1, <2>2, VouchedShifts DEF Seated
<1>2. ASSUME NEW r \in Rooms, Claims(r)'
      PROVE  Vouched(0, r)'
    <2>1. Vouched(0 + d, r)
        BY <1>2
    <2> QED
        BY <2>1, VouchedShifts
<1> QED
    BY <1>1, <1>2 DEF Seated

\* What is claimed stays vouched for, unless the end of it is what is taken.
LEMMA ClaimsVouched ==
    ASSUME KTypeOK, Seated, NEW d \in {0, 1}, Shift(d), d = 1 => Head(inbox).ev # "over",
           NEW r \in Rooms, Claims(r)
    PROVE  Vouched(d, r)
<1>1. Vouched(0, r)
    BY DEF Seated
<1>2. CASE d = 1
    <2>1. inbox[1].ev # "over"
        BY <1>2, HeadIs DEF Shift
    <2>2. ASSUME NEW j \in 1..Len(inbox), Says(j, "over", r)
          PROVE  j > 1
        BY <2>1, <2>2 DEF Says
    <2> QED
        BY <1>1, <1>2, <2>2 DEF Vouched, Later
<1> QED
    BY <1>1, <1>2

LEMMA SeatedSteps ==
    ASSUME KTypeOK, Seated, NEW d \in {0, 1}, Shift(d), Calm, d = 1 => Head(inbox).ev # "over",
           NEW t \in Slots, Closes(t), \A r \in Rooms : Accepts(task'[t], r) => task[t] = Idle,
           \A r \in Rooms : Joins(task'[t], r) => Vouched(d, r) \/ Claims(r),
           \A r \in Rooms : store'.state \in Live /\ ~touched' /\ store'.room = r
                                => Vouched(d, r) \/ Claims(r)
    PROVE  Seated'
<1>1. ASSUME NEW u \in Slots \ {t}, NEW r \in Rooms
      PROVE  /\ Accepts(task'[u], r) => Accepts(task[u], r)
             /\ Joins(task'[u], r) => Joins(task[u], r)
    BY DEF Closes, Accepts, Joins
<1>2. ASSUME NEW r \in Rooms, Claims(r)'
      PROVE  Vouched(d, r)
    <2>1. Vouched(d, r) \/ Claims(r)
        BY <1>1, <1>2 DEF Claims
    <2> QED
        BY <2>1, ClaimsVouched
<1>3. \A u \in Slots, r \in Rooms : Accepts(task'[u], r) => Accepts(task[u], r) \/ task[u] = Idle
    BY <1>1
<1> QED
    BY <1>2, <1>3, SeatedKept

LEMMA SeatedStays ==
    ASSUME KTypeOK, Seated, NEW d \in {0, 1}, Shift(d), Calm, d = 1 => Head(inbox).ev # "over",
           task' = task,
           store'.state \in Live /\ ~touched' =>
               store.state \in Live /\ ~touched /\ store'.room = store.room
    PROVE  Seated'
<1>1. \A r \in Rooms : Claims(r)' => Claims(r)
    BY DEF Claims
<1>2. \A r \in Rooms : Claims(r)' => Vouched(d, r)
    BY <1>1, ClaimsVouched
<1> QED
    BY <1>2, SeatedKept

LEMMA InitSeated ==
    ASSUME KInit
    PROVE  Seated
<1>1. \A t \in Slots : task[t].op = "idle"
    BY IdleFits DEF KInit
<1>2. inbox = <<>> /\ store.state = "ended"
    BY DEF KInit, FreshStore
<1> QED
    BY <1>1, <1>2 DEF Seated, Claims, Joins, Live

\* Every end of the page crosses what is under way.
LEMMA EndsSeated ==
    ASSUME KTypeOK, Seated, NEW d \in {0, 1}, Shift(d), Calm, NEW over, Ends(over), EndsPage
    PROVE  Seated'
<1>1. \A u \in Slots : task'[u].op = "idle" \/ task'[u].crossed
    BY IdleFits DEF Ends
<1>2. \A r \in Rooms : ~Claims(r)'
    BY <1>1 DEF Claims, Joins, EndsPage, Live
<1>3. \A u \in Slots, r \in Rooms : ~Accepts(task'[u], r)
    BY <1>1 DEF Accepts
<1> QED
    BY <1>2, <1>3, SeatedKept

LEMMA ContinueSeated ==
    ASSUME KTypeOK, Seated, NEW d \in {0, 1}, Shift(d), srv' = srv, sent \subseteq sent',
           d = 1 => Head(inbox).ev # "over",
           NEW t \in Slots, NEW k, NEW s, Starts(t, k, s), k.request = "none", Continue(t, k, s),
           touched => touched', k.op = "setup" /\ k.crossed => touched',
           \A r \in Rooms : k.op = "setup" /\ k.room = r /\ ~k.crossed => Vouched(d, r) \/ Claims(r)
    PROVE  Seated'
<1>1. Closes(t) /\ Calm
    BY ContinueDoes, LeavesCloses DEF Calm
<1>2. s.state = store.state /\ s.room = store.room
    BY DEF Starts
<1>3. CASE AskMatch(t, k, s) \/ AskRing(t, k, s) \/ Turn(t, k, s)
    <2>1. task'[t].op \notin {"accept", "setup"}
        <3>1. CASE AskMatch(t, k, s) \/ AskRing(t, k, s)
            BY <3>1, AskMatchDoes, AskRingDoes DEF Asks
        <3>2. CASE Turn(t, k, s)
            BY <3>2, TurnDoes, IdleFits DEF Tracks
        <3> QED
            BY <1>3, <3>1, <3>2
    <2>2. store'.state \in Live => store.state \in Live /\ store'.room = store.room
        BY <1>2, <1>3, AskMatchDoes, AskRingDoes, TurnDoes DEF Live
    <2>3. \A r \in Rooms : ~Accepts(task'[t], r) /\ ~Joins(task'[t], r)
        BY <2>1 DEF Accepts, Joins
    <2>4. \A r \in Rooms : store'.state \in Live /\ ~touched' /\ store'.room = r => Claims(r)
        BY <2>2 DEF Claims
    <2> QED
        BY <1>1, <2>3, <2>4, SeatedSteps
<1>4. CASE StartSetup(t, k, s)
    <2>1. /\ k.op = "setup" /\ k.room \in Rooms
          /\ task'[t].op = "setup" /\ task'[t].room = k.room /\ task'[t].crossed = k.crossed
          /\ store'.state = (IF k.room \in MatchRooms THEN "inMatch" ELSE store.state)
          /\ store'.room = (IF k.room \in MatchRooms THEN k.room ELSE store.room)
        BY <1>4, StartSetupDoes
    <2>2. \A r \in Rooms : ~Accepts(task'[t], r)
        BY <2>1 DEF Accepts
    <2>3. \A r \in Rooms : Joins(task'[t], r) => Vouched(d, r) \/ Claims(r)
        BY <2>1 DEF Joins
    <2>4. \A r \in Rooms : store'.state \in Live /\ ~touched' /\ store'.room = r
                               => Vouched(d, r) \/ Claims(r)
        BY <2>1 DEF Claims
    <2> QED
        BY <1>1, <2>2, <2>3, <2>4, SeatedSteps
<1> QED
    BY <1>3, <1>4 DEF Continue

LEMMA IdleJoins == \A r : ~Accepts(Idle, r) /\ ~Joins(Idle, r)
    BY DEF Accepts, Joins, Idle

LEMMA BeginSeated ==
    ASSUME KTypeOK, Seated, NEW d \in {0, 1}, Shift(d), srv' = srv, sent \subseteq sent',
           d = 1 => Head(inbox).ev # "over", NEW k, Fresh(k), Begin(k), ~k.crossed,
           touched' = touched, \A r \in Rooms : k.op = "setup" /\ k.room = r => Vouched(d, r)
    PROVE  Seated'
<1>1. PICK t \in Slots :
          /\ task[t] = Idle /\ Leaves(t)
          /\ \/ Starts(t, k, store) /\ Continue(t, k, store)
             \/ /\ task'[t] = k /\ store.stream # "live"
                /\ UNCHANGED <<store, media, strayed>>
    BY BeginDoes
<1>2. k.request = "none" /\ k.op \in {"match", "ring", "setup"} \union Tracks
    BY DEF Fresh
<1>3. CASE Starts(t, k, store) /\ Continue(t, k, store)
    BY <1>2, <1>3, ContinueSeated
<1>4. CASE task'[t] = k /\ UNCHANGED <<store, media, strayed>>
    <2>1. \A r \in Rooms : ~Accepts(task'[t], r) /\ (Joins(task'[t], r) => Vouched(d, r))
        BY <1>2, <1>4 DEF Accepts, Joins, Tracks
    <2>2. \A r \in Rooms : store'.state \in Live /\ ~touched' /\ store'.room = r => Claims(r)
        BY <1>4 DEF Claims
    <2> QED
        BY <1>1, <1>4, <2>1, <2>2, LeavesCloses, SeatedSteps DEF Calm
<1> QED
    BY <1>1, <1>3, <1>4

LEMMA CameraSeated ==
    ASSUME KTypeOK, Seated, NEW t \in Slots, CameraOpens(t) \/ CameraFails(t)
    PROVE  Seated'
<1>1. CASE CameraOpens(t)
    <2>1. PICK k, s : Opens(t, k, s)
        BY <1>1, CameraOpensDoes
    <2>2. /\ Starts(t, k, s) /\ Continue(t, k, s) /\ k.request = "none"
          /\ k.op = task[t].op /\ k.room = task[t].room /\ k.crossed = task[t].crossed
        BY <2>1 DEF Opens
    <2>3. /\ UNCHANGED <<inbox, sent, srv>>
          /\ touched' = (touched \/ task[t].crossed \/ (task[t].op \in Tracks /\ store.state = "ended"))
        BY <1>1 DEF CameraOpens
    <2>4. \A r \in Rooms : k.op = "setup" /\ k.room = r /\ ~k.crossed => Claims(r)
        BY <2>2 DEF Claims, Joins
    <2>5. /\ Shift(0) /\ 0 \in {0, 1} /\ srv' = srv /\ sent \subseteq sent'
          /\ (touched => touched') /\ (k.crossed => touched')
        BY <2>2, <2>3 DEF Shift
    <2> QED
        BY <2>2, <2>4, <2>5, ContinueSeated
<1>2. CASE CameraFails(t)
    <2>1. /\ task'[t] = Idle /\ UNCHANGED <<inbox, sent, srv>>
          /\ \/ Ends({t}) /\ EndsPage
             \/ Leaves(t) /\ UNCHANGED <<store, touched>> /\ strayed \subseteq strayed'
        BY <1>2, CameraFailsDoes
    <2>2. CASE Ends({t}) /\ EndsPage
        BY <2>1, <2>2, EndsSeated DEF Shift, Calm, EndsPage
    <2>3. CASE Leaves(t) /\ UNCHANGED <<store, touched>> /\ strayed \subseteq strayed'
        <3>1. \A r \in Rooms : store'.state \in Live /\ ~touched' /\ store'.room = r => Claims(r)
            BY <2>3 DEF Claims
        <3> QED
            BY <2>1, <2>3, <3>1, IdleJoins, LeavesCloses, SeatedSteps DEF Shift, Calm
    <2> QED
        BY <2>1, <2>2, <2>3
<1> QED
    BY <1>1, <1>2

\* A set-up comes to its end, and the call is shown.
LEMMA SetupSeated ==
    ASSUME KTypeOK, Seated, NEW t \in Slots, Setup(t)
    PROVE  Seated'
<1>1. task[t].op = "setup" /\ task[t].room \in Rooms
    BY DeviceDoes, SendDoes, RecvDoes, ProduceDoes DEF Setup
<1>2. PICK r \in Rooms : r = task[t].room
    BY <1>1
<1>3. ~task[t].crossed => Claims(r)
    BY <1>1, <1>2 DEF Claims, Joins
<1>4. PICK d \in {0, 1} : Shift(d) /\ (d = 1 => Head(inbox).ev # "over")
    <2>1. CASE InitializeDevice(t) \/ LoadDevice(t)
        <3>1. Shift(0)
            BY <2>1, DeviceDoes DEF Shift
        <3> QED
            BY <3>1
    <2>2. CASE SendTransport(t) \/ RecvTransport(t) \/ ProduceVideo(t) \/ ProduceAudio(t)
        <3>1. Hears(t, TRUE)
            BY <2>2, SendDoes, RecvDoes, ProduceDoes
        <3>2. Shift(1) /\ Head(inbox).ev # "over"
            BY <3>1 DEF Hears, Shift
        <3> QED
            BY <3>2
    <2> QED
        BY <2>1, <2>2 DEF Setup
<1>5. srv' = srv /\ Closes(t)
    BY DeviceDoes, SendDoes, RecvDoes, ProduceDoes, LeavesCloses DEF Setup
<1>6. task'[t] = Idle \/ Continued(t)
    BY DeviceDoes, SendDoes, RecvDoes, ProduceDoes DEF Setup, Finishes
<1>7. \/ store' = store /\ (touched => touched') /\ strayed \subseteq strayed' /\ sent' = sent
      \/ Finishes(t)
    <2>1. CASE InitializeDevice(t) \/ LoadDevice(t)
        BY <2>1, DeviceDoes
    <2>2. CASE SendTransport(t)
        BY <2>2, SendDoes
    <2>3. CASE RecvTransport(t)
        BY <2>3, RecvDoes
    <2>4. CASE ProduceVideo(t) \/ ProduceAudio(t)
        BY <2>4, ProduceDoes
    <2> QED
        BY <2>1, <2>2, <2>3, <2>4 DEF Setup
<1>8. Calm
    BY <1>5, <1>7 DEF Finishes, Calm
<1>9. ASSUME NEW q \in Rooms
      PROVE  ~Accepts(task'[t], q) /\ (Joins(task'[t], q) => Claims(q))
    <2>1. CASE task'[t] = Idle
        BY <2>1, IdleJoins
    <2>2. CASE Continued(t)
        BY <1>1, <2>2 DEF Continued, Accepts, Joins, Claims
    <2> QED
        BY <1>6, <2>1, <2>2
<1>10. ASSUME NEW q \in Rooms, store'.state \in Live, ~touched', store'.room = q
       PROVE  Claims(q)
    <2>1. CASE store' = store /\ (touched => touched')
        BY <1>10, <2>1 DEF Claims
    <2>2. CASE Finishes(t)
        BY <1>2, <1>3, <1>10, <2>2 DEF Claims, Finishes
    <2> QED
        BY <1>7, <2>1, <2>2
<1> QED
    BY <1>4, <1>5, <1>8, <1>9, <1>10, SeatedSteps

\* A call that is accepted is shown in the room that is shown.
LEMMA AcceptedSeated ==
    ASSUME KTypeOK, Seated, NEW t \in Slots, Accepted(t)
    PROVE  Seated'
<1>1. /\ task[t].op = "accept" /\ task[t].at = "accept" /\ Hears(t, TRUE) /\ Leaves(t)
      /\ task[t].room \in Chats /\ Continued(t) /\ task'[t].at = "existing"
      /\ store'.room = store.room
      /\ touched' = (touched \/ task[t].crossed \/ store.room # task[t].room)
      /\ UNCHANGED <<sent, srv>> /\ strayed \subseteq strayed'
    BY AcceptedDoes
<1>2. PICK r \in Rooms : r = task[t].room
    BY <1>1 DEF Rooms
<1>3. Shift(1) /\ Calm /\ Head(inbox).ev # "over"
    BY <1>1 DEF Hears, Shift, Calm
<1>4. ~task[t].crossed => Vouched(1, r)
    <2>1. 1 \in 1..Len(inbox) /\ Head(inbox) = inbox[1]
        BY <1>1, HeadIs DEF Hears
    <2>2. ~task[t].crossed => Brings(1, r)
        BY <1>1, <1>2, <2>1 DEF Brings, Hears, Accepts
    <2> QED
        BY <2>1, <2>2 DEF Seated
<1>5. \A q \in Rooms : ~Accepts(task'[t], q) /\ (Joins(task'[t], q) => Vouched(1, q))
    BY <1>1, <1>2, <1>4 DEF Accepts, Joins, Continued
<1>6. \A q \in Rooms : store'.state \in Live /\ ~touched' /\ store'.room = q => Vouched(1, q)
    BY <1>1, <1>2, <1>4
<1> QED
    BY <1>1, <1>3, <1>5, <1>6, LeavesCloses, SeatedSteps

LEMMA ResumeSeated ==
    ASSUME KTypeOK, Seated, NEW t \in Slots, Resume(t)
    PROVE  Seated'
<1>1. CASE Accepted(t)
    BY <1>1, AcceptedSeated
<1>2. CASE EndAnswered(t)
    <2>1. Hears(t, TRUE) \/ Hears(t, FALSE)
        BY <1>2, EndAnsweredDoes
    <2>2. Shift(1) /\ Calm /\ Ends({t}) /\ EndsPage
        BY <1>2, <2>1, EndAnsweredDoes DEF Shift, Hears, Calm, EndsPage
    <2> QED
        BY <2>2, EndsSeated
<1>3. CASE MatchAnswered(t) \/ NothingDone(t) \/ Existing(t) \/ Turned(t)
           \/ ScreenChosen(t) \/ ScreenProduced(t) \/ Shared(t) \/ Consumed(t)
    <2>1. Leaves(t) /\ Calm
        <3>1. CASE MatchAnswered(t)
            BY <3>1, MatchAnsweredDoes DEF Calm
        <3>2. CASE NothingDone(t)
            BY <3>2, NothingDoneDoes DEF Calm
        <3>3. CASE Existing(t)
            BY <3>3, ExistingDoes DEF Calm
        <3>4. CASE Turned(t)
            BY <3>4, TurnedDoes DEF Calm
        <3>5. CASE ScreenChosen(t)
            BY <3>5, ScreenChosenDoes DEF Calm
        <3>6. CASE ScreenProduced(t)
            BY <3>6, ScreenProducedDoes DEF Calm
        <3>7. CASE Shared(t)
            BY <3>7, SharedDoes DEF Calm
        <3>8. CASE Consumed(t)
            BY <3>8, ConsumedDoes DEF Calm
        <3> QED
            BY <1>3, <3>1, <3>2, <3>3, <3>4, <3>5, <3>6, <3>7, <3>8
    <2>2. PICK d \in {0, 1} : Shift(d) /\ (d = 1 => Head(inbox).ev # "over")
        <3>1. CASE ScreenChosen(t)
            <4>1. Shift(0)
                BY <3>1, ScreenChosenDoes DEF Shift
            <4> QED
                BY <4>1
        <3>2. CASE Consumed(t) \/ NothingDone(t)
            BY <3>2, ConsumedDoes, NothingDoneDoes DEF Shift, Hears
        <3>3. CASE MatchAnswered(t) \/ Existing(t) \/ Turned(t) \/ ScreenProduced(t) \/ Shared(t)
            <4>1. CASE MatchAnswered(t)
                BY <4>1, MatchAnsweredDoes DEF Shift, Hears
            <4>2. CASE Existing(t)
                BY <4>2, ExistingDoes DEF Shift, Hears
            <4>3. CASE Turned(t)
                BY <4>3, TurnedDoes DEF Shift, Hears
            <4>4. CASE ScreenProduced(t)
                BY <4>4, ScreenProducedDoes DEF Shift, Hears
            <4>5. CASE Shared(t)
                BY <4>5, SharedDoes DEF Shift, Hears
            <4> QED
                BY <3>3, <4>1, <4>2, <4>3, <4>4, <4>5
        <3> QED
            BY <1>3, <3>1, <3>2, <3>3
    <2>3. task'[t].op \in {"idle", "share", "consume"}
        <3>1. CASE Consumed(t)
            BY <3>1, ConsumedDoes, IdleFits DEF Continued
        <3>2. CASE ScreenChosen(t)
            BY <3>2, ScreenChosenDoes, IdleFits DEF Continued
        <3>3. CASE MatchAnswered(t) \/ NothingDone(t) \/ Existing(t) \/ Turned(t) \/ Shared(t)
            <4>1. CASE MatchAnswered(t)
                BY <4>1, MatchAnsweredDoes, IdleFits
            <4>2. CASE NothingDone(t)
                BY <4>2, NothingDoneDoes, IdleFits
            <4>3. CASE Existing(t)
                BY <4>3, ExistingDoes, IdleFits
            <4>4. CASE Turned(t)
                BY <4>4, TurnedDoes, IdleFits
            <4>5. CASE Shared(t)
                BY <4>5, SharedDoes, IdleFits
            <4> QED
                BY <3>3, <4>1, <4>2, <4>3, <4>4, <4>5
        <3>4. CASE ScreenProduced(t)
            <4>1. task[t].op = "share" /\ (task'[t] = Idle \/ Continued(t))
                BY <3>4, ScreenProducedDoes
            <4> QED
                BY <4>1, IdleFits DEF Continued
        <3> QED
            BY <1>3, <3>1, <3>2, <3>3, <3>4
    <2>4. store'.state \in Live => store.state \in Live /\ store'.room = store.room
        <3>1. CASE MatchAnswered(t)
            BY <3>1, MatchAnsweredDoes DEF Live
        <3>2. CASE NothingDone(t)
            BY <3>2, NothingDoneDoes DEF Live
        <3>3. CASE Existing(t)
            BY <3>3, ExistingDoes DEF Live
        <3>4. CASE Turned(t)
            BY <3>4, TurnedDoes DEF Live
        <3>5. CASE ScreenChosen(t)
            BY <3>5, ScreenChosenDoes DEF Live
        <3>6. CASE ScreenProduced(t)
            BY <3>6, ScreenProducedDoes DEF Live
        <3>7. CASE Shared(t)
            BY <3>7, SharedDoes DEF Live
        <3>8. CASE Consumed(t)
            BY <3>8, ConsumedDoes DEF Live
        <3> QED
            BY <1>3, <3>1, <3>2, <3>3, <3>4, <3>5, <3>6, <3>7, <3>8
    <2>5. touched => touched'
        <3>1. CASE MatchAnswered(t)
            BY <3>1, MatchAnsweredDoes
        <3>2. CASE NothingDone(t)
            BY <3>2, NothingDoneDoes
        <3>3. CASE Existing(t)
            BY <3>3, ExistingDoes
        <3>4. CASE Turned(t)
            BY <3>4, TurnedDoes
        <3>5. CASE ScreenChosen(t)
            BY <3>5, ScreenChosenDoes
        <3>6. CASE ScreenProduced(t)
            BY <3>6, ScreenProducedDoes
        <3>7. CASE Shared(t)
            BY <3>7, SharedDoes
        <3>8. CASE Consumed(t)
            BY <3>8, ConsumedDoes
        <3> QED
            BY <1>3, <3>1, <3>2, <3>3, <3>4, <3>5, <3>6, <3>7, <3>8
    <2>6. \A r \in Rooms : ~Accepts(task'[t], r) /\ ~Joins(task'[t], r)
        BY <2>3 DEF Accepts, Joins
    <2>7. \A r \in Rooms : store'.state \in Live /\ ~touched' /\ store'.room = r => Claims(r)
        BY <2>4, <2>5 DEF Claims
    <2> QED
        BY <2>1, <2>2, <2>6, <2>7, LeavesCloses, SeatedSteps
<1> QED
    BY <1>1, <1>2, <1>3 DEF Resume

LEMMA EventSeated ==
    ASSUME KTypeOK, Seated, Events
    PROVE  Seated'
<1>1. inbox # <<>> /\ Take /\ Shift(1) /\ UNCHANGED <<sent, srv>>
    BY SuccessDoes, NewProducerDoes, OverDoes, RingsDoes, ComesDoes DEF Events, Takes, Shift
<1>2. CASE Success
    <2>1. PICK k : /\ Fresh(k) /\ k.room = Head(inbox).room /\ ~k.crossed /\ Begin(k)
        BY <1>2, SuccessDoes
    <2>2. Head(inbox).ev = "success" /\ touched' = touched
        BY <1>2, SuccessDoes DEF Takes
    <2>3. \A r \in Rooms : k.room = r => Vouched(1, r)
        <3>1. 1 \in 1..Len(inbox) /\ Head(inbox) = inbox[1]
            BY <1>1, HeadIs
        <3> QED
            BY <2>1, <2>2, <3>1 DEF Seated, Brings, Says
    <2> QED
        BY <1>1, <2>1, <2>2, <2>3, BeginSeated
<1>3. CASE NewProducer
    <2>1. /\ Head(inbox).ev = "new" /\ UNCHANGED <<store, strayed, touched>>
          /\ \/ task' = task
             \/ \E t \in Slots : Leaves(t) /\ task'[t].op = "consume"
        BY <1>3, NewProducerDoes DEF Takes
    <2>2. Calm /\ Head(inbox).ev # "over"
        BY <1>1, <2>1 DEF Calm
    <2>3. CASE task' = task
        BY <1>1, <2>1, <2>2, <2>3, SeatedStays
    <2>4. ASSUME NEW t \in Slots, Leaves(t), task'[t].op = "consume"
          PROVE  Seated'
        <3>1. \A r \in Rooms : ~Accepts(task'[t], r) /\ ~Joins(task'[t], r)
            BY <2>4 DEF Accepts, Joins
        <3>2. \A r \in Rooms : store'.state \in Live /\ ~touched' /\ store'.room = r => Claims(r)
            BY <2>1 DEF Claims
        <3> QED
            BY <1>1, <2>2, <2>4, <3>1, <3>2, LeavesCloses, SeatedSteps
    <2> QED
        BY <2>1, <2>3, <2>4
<1>4. CASE Over
    BY <1>1, <1>4, OverDoes, EndsSeated DEF Calm, EndsPage
<1>5. CASE Rings \/ UserJoined \/ UserLeft
    <2>1. /\ task' = task /\ touched' = touched /\ strayed \subseteq strayed'
          /\ store'.state \in Live => store.state \in Live /\ store'.room = store.room
        BY <1>5, RingsDoes, ComesDoes DEF Live
    <2>2. Head(inbox).ev # "over" /\ Calm
        BY <1>1, <1>5, <2>1, RingsDoes, ComesDoes DEF Takes, Calm
    <2> QED
        BY <1>1, <2>1, <2>2, SeatedStays
<1> QED
    BY <1>2, <1>3, <1>4, <1>5 DEF Events

LEMMA ClickSeated ==
    ASSUME KTypeOK, Seated, Clicks
    PROVE  Seated'
<1>1. Shift(0) /\ srv' = srv
    BY ClicksBegin, RequestsDo, HangUpDoes, ShareDoes DEF Clicks, Shift, Clicked
<1>2. CASE ClickMatch \/ (\E c \in Chats : ClickRing(c)) \/ \E kind \in Tracks : ClickToggle(kind)
    <2>1. PICK k : Fresh(k) /\ Begin(k) /\ k.crossed = FALSE /\ k.op \in {"match", "ring"} \union Tracks
        BY <1>2, ClicksBegin
    <2>2. sent \subseteq sent' /\ touched' = touched /\ k.op # "setup"
        BY <1>2, <2>1, ClicksBegin DEF Clicked, Tracks
    <2>3. ~k.crossed
        BY <2>1
    <2> QED
        BY <1>1, <2>1, <2>2, <2>3, BeginSeated
<1>3. CASE ClickCancel \/ ClickAccept \/ ClickReject \/ ClickEndCall
    <2>1. PICK op, at, room : Requests(op, at, room) /\ <<op, at>> \in
              {<<"cancel", "cancel">>, <<"accept", "accept">>, <<"reject", "reject">>, <<"end", "end">>}
        BY <1>3, RequestsDo
    <2>2. PICK t \in Slots : task[t] = Idle /\ Leaves(t) /\ task'[t].op = op /\ task'[t].at = at
        BY <2>1 DEF Requests
    <2>3. UNCHANGED <<store, sent, strayed, touched>>
        BY <1>3, <2>1, RequestsDo DEF Requests, Clicked
    <2>4. \A r \in Rooms : ~Joins(task'[t], r)
        BY <2>1, <2>2 DEF Joins
    <2>5. \A r \in Rooms : store'.state \in Live /\ ~touched' /\ store'.room = r => Claims(r)
        BY <2>3 DEF Claims
    <2> QED
        BY <1>1, <2>2, <2>3, <2>4, <2>5, LeavesCloses, SeatedSteps DEF Calm
<1>4. CASE ClickHangUp
    BY <1>1, <1>4, HangUpDoes, EndsSeated DEF Calm, EndsPage
<1>5. CASE StartShare \/ StopShare
    <2>1. UNCHANGED <<store, sent, strayed, touched>>
        BY <1>5, ShareDoes
    <2>2. PICK t \in Slots : task[t] = Idle /\ Leaves(t) /\ task'[t].op = "share"
        BY <1>5, ShareDoes
    <2>3. \A r \in Rooms : ~Joins(task'[t], r)
        BY <2>2 DEF Joins
    <2>4. \A r \in Rooms : store'.state \in Live /\ ~touched' /\ store'.room = r => Claims(r)
        BY <2>1 DEF Claims
    <2> QED
        BY <1>1, <2>1, <2>2, <2>3, <2>4, LeavesCloses, SeatedSteps DEF Calm
<1> QED
    BY <1>2, <1>3, <1>4, <1>5 DEF Clicks

\* What the server sends comes last.
Grows ==
    /\ Len(inbox) \in Nat /\ Len(inbox') \in Nat
    /\ \A i \in 1..Len(inbox) : i \in 1..Len(inbox') /\ inbox'[i] = inbox[i]
News(i) == i \in 1..Len(inbox') /\ i > Len(inbox)

LEMMA GrowsIs ==
    ASSUME KTypeOK
    PROVE  /\ inbox' = inbox => Grows /\ \A i : ~News(i)
           /\ \A m : Adds(m) => /\ Grows /\ \A i : News(i) => inbox'[i] = m
                                /\ \E i : News(i) /\ inbox'[i] = m
           /\ \A m, n : AddsTwo(m, n) => /\ Grows
                                         /\ \A i : News(i) => inbox'[i] = m \/ inbox'[i] = n
<1>1. Len(inbox) \in Nat
    BY LenProperties DEF KTypeOK, Types
<1>2. ASSUME inbox' = inbox
      PROVE  Grows /\ \A i : ~News(i)
    BY <1>1, <1>2 DEF Grows, News
<1>3. ASSUME NEW m, Adds(m)
      PROVE  /\ Grows /\ \A i : News(i) => inbox'[i] = m
             /\ \E i : News(i) /\ inbox'[i] = m
    <2>1. Len(inbox') = Len(inbox) + 1
        BY <1>3 DEF Adds
    <2>2. \A i : News(i) => i = Len(inbox) + 1
        BY <1>1, <2>1 DEF News
    <2>3. News(Len(inbox) + 1)
        BY <1>1, <2>1 DEF News
    <2> QED
        BY <1>1, <1>3, <2>1, <2>2, <2>3 DEF Grows, Adds
<1>4. ASSUME NEW m, NEW n, AddsTwo(m, n)
      PROVE  Grows /\ \A i : News(i) => inbox'[i] = m \/ inbox'[i] = n
    <2>1. Len(inbox') = Len(inbox) + 2
        BY <1>4 DEF AddsTwo
    <2>2. \A i : News(i) => i = Len(inbox) + 1 \/ i = Len(inbox) + 2
        BY <1>1, <2>1 DEF News
    <2> QED
        BY <1>1, <1>4, <2>1, <2>2 DEF Grows, AddsTwo
<1> QED
    BY <1>2, <1>3, <1>4

LEMMA AnswerFields ==
    ASSUME NEW t, NEW w
    PROVE  Answer(t, w).ev = "answer" /\ Answer(t, w).room = t /\ Answer(t, w).who = w
    BY DEF Answer

\* The page and its functions stay, but for what they have asked and still have to.
Keeping ==
    /\ \A u \in Slots : /\ task'[u].op = task[u].op /\ task'[u].at = task[u].at
                        /\ task'[u].room = task[u].room /\ task'[u].crossed = task[u].crossed
    /\ UNCHANGED <<store, touched>>

LEMMA VouchedGrows ==
    ASSUME Grows, NEW r \in Rooms, NEW i \in 0..Len(inbox), Vouched(i, r),
           Sure(r) => Sure(r)' \/ \E j : News(j) /\ Says(j, "over", r)'
    PROVE  Vouched(i, r)'
<1>1. CASE Sure(r)
    <2>1. CASE Sure(r)'
        BY <2>1 DEF Vouched, Later
    <2>2. CASE \E j : News(j) /\ Says(j, "over", r)'
        <3>1. PICK j : News(j) /\ Says(j, "over", r)'
            BY <2>2
        <3>2. j \in 1..Len(inbox') /\ j > i
            BY <3>1 DEF News, Grows
        <3> QED
            BY <3>1, <3>2 DEF Vouched, Later
    <2> QED
        BY <1>1, <2>1, <2>2
<1>2. CASE \E j \in 1..Len(inbox) : j > i /\ Says(j, "over", r)
    <2>1. PICK j \in 1..Len(inbox) : j > i /\ Says(j, "over", r)
        BY <1>2
    <2>2. j \in 1..Len(inbox') /\ Says(j, "over", r)'
        BY <2>1 DEF Grows, Says
    <2> QED
        BY <2>1, <2>2 DEF Vouched, Later
<1> QED
    BY <1>1, <1>2 DEF Vouched, Later

LEMMA ClaimsAgain ==
    ASSUME KTypeOK, NEW r \in Rooms
    PROVE  /\ Claims(r) => Again(r)
           /\ \A i \in 1..Len(inbox) : Brings(i, r) => Again(r)
<1>1. ASSUME Claims(r)
      PROVE  Again(r)
    BY <1>1 DEF Claims, Joins, Again, In, TaskOf, Shows
<1>2. ASSUME NEW i \in 1..Len(inbox), Brings(i, r)
      PROVE  Again(r)
    <2>1. CASE Says(i, "success", r)
        BY <2>1 DEF Says, Again
    <2>2. CASE inbox[i].ev = "answer" /\ Accepts(task[inbox[i].room], r)
        <3>1. inbox[i] \in Message
            BY ElementOfSeq DEF KTypeOK, Types
        <3>2. inbox[i].room \in Slots
            BY <2>2, <3>1, MessageFields
        <3> QED
            BY <2>2, <3>2 DEF Accepts, Again, TaskOf
    <2> QED
        BY <1>2, <2>1, <2>2 DEF Brings
<1> QED
    BY <1>1, <1>2

LEMMA SeatedGrows ==
    ASSUME KTypeOK, Seated, Grows, Keeping,
           \A r \in Rooms : Again(r) /\ Sure(r) => Sure(r)' \/ \E j : News(j) /\ Says(j, "over", r)',
           \A r \in Rooms : \A i : News(i) /\ Brings(i, r)' => Sure(r)'
    PROVE  Seated'
<1>0. 0 \in 0..Len(inbox) /\ 1..Len(inbox) \subseteq 0..Len(inbox)
    BY DEF Grows
<1>1. ASSUME NEW i \in 1..Len(inbox'), NEW r \in Rooms, Brings(i, r)'
      PROVE  Vouched(i, r)'
    <2>1. CASE i > Len(inbox)
        BY <1>1, <2>1 DEF News, Vouched, Later
    <2>2. CASE ~(i > Len(inbox))
        <3>1. i \in 1..Len(inbox) /\ inbox'[i] = inbox[i]
            BY <2>2 DEF Grows
        <3>2. inbox[i].ev = "answer" => inbox[i].room \in Slots
            <4>1. inbox[i] \in Message
                BY <3>1, ElementOfSeq DEF KTypeOK, Types
            <4> QED
                BY <4>1, MessageFields
        <3>3. Brings(i, r)
            BY <1>1, <3>1, <3>2 DEF Brings, Says, Accepts, Keeping
        <3>4. Again(r) /\ Vouched(i, r)
            BY <3>1, <3>3, ClaimsAgain DEF Seated
        <3> QED
            BY <1>0, <3>1, <3>4, VouchedGrows
    <2> QED
        BY <2>1, <2>2
<1>2. ASSUME NEW r \in Rooms, Claims(r)'
      PROVE  Vouched(0, r)'
    <2>1. Claims(r)
        BY <1>2 DEF Claims, Joins, Keeping
    <2>2. Again(r) /\ Vouched(0, r)
        BY <2>1, ClaimsAgain DEF Seated
    <2> QED
        BY <1>0, <2>2, VouchedGrows
<1> QED
    BY <1>1, <1>2 DEF Seated

\* What is sent vouches, and nothing is taken from who is in.
LEMMA SureGrows ==
    ASSUME srv.seats \subseteq srv'.seats, strayed \subseteq strayed',
           \A r \in Rooms : <<"leave", r>> \in sent => <<"leave", r>> \in sent'
    PROVE  \A r \in Rooms : Sure(r) => Sure(r)'
    BY DEF Sure

LEMMA ServeSeated ==
    ASSUME KTypeOK, Seated, NEW t \in Slots, Serve(t)
    PROVE  Seated'
<1>1. CASE NoAnswer(t)
    <2>1. /\ task'[t] = Idle /\ Leaves(t) /\ UNCHANGED <<store, srv, inbox, sent>>
          /\ strayed \subseteq strayed' /\ (touched => touched')
        BY <1>1, NoAnswerDoes
    <2>2. \A r \in Rooms : store'.state \in Live /\ ~touched' /\ store'.room = r => Claims(r)
        BY <2>1 DEF Claims
    <2>3. Shift(0) /\ Calm /\ Closes(t)
        BY <2>1, LeavesCloses DEF Shift, Calm
    <2> QED
        BY <2>1, <2>2, <2>3, IdleJoins, SeatedSteps
<1>2. CASE Served(t)
    <2>1. Keeping /\ sent' = sent /\ strayed' = strayed
        BY <1>2 DEF Served, Keeping, Leaves
    <2>2. srv.seats \subseteq srv'.seats => \A r \in Rooms : Sure(r) => Sure(r)'
        BY <2>1, SureGrows
    <2>3. ASSUME NEW w, Adds(Answer(t, w)), task[t].at # "accept" \/ w = FALSE,
                 srv.seats \subseteq srv'.seats
          PROVE  Seated'
        <3>1. Grows /\ \A i : News(i) => inbox'[i] = Answer(t, w)
            BY <2>3, GrowsIs
        <3>2. \A r \in Rooms : \A i : News(i) => ~Brings(i, r)'
            BY <2>1, <2>3, <3>1, AnswerFields DEF Brings, Says, Accepts, Keeping
        <3> QED
            BY <2>1, <2>2, <2>3, <3>1, <3>2, SeatedGrows
    <2>4. CASE ServeMatch(t)
        <3>1. inbox' = inbox /\ srv'.seats = srv.seats
            BY <2>4, ServeMatchDoes
        <3> QED
            BY <2>1, <2>2, <3>1, GrowsIs, SeatedGrows
    <2>5. CASE ServeRing(t)
        <3>1. task[t].at = "ring" /\ srv'.seats = srv.seats
            <4>1. PICK c \in Chats : c = task[t].room
                BY <2>5, ServeRingDoes
            <4>2. srv' = srv \/ srv' = Ring(c, "mine")
                BY <2>5, <4>1, ServeRingDoes
            <4>3. Ring(c, "mine").seats = srv.seats
                BY RingIs DEF Rings4
            <4> QED
                BY <2>5, <4>2, <4>3, ServeRingDoes
        <3>2. \E ok \in BOOLEAN : Adds(Answer(t, ok))
            BY <2>5, ServeRingDoes
        <3> QED
            BY <2>3, <3>1, <3>2
    <2>6. CASE ServeAccept(t)
        <3>1. CASE Adds(Answer(t, FALSE)) /\ srv' = srv
            BY <2>3, <3>1
        <3>2. ASSUME NEW c \in Chats, c = task[t].room,
                     AddsTwo(Event("success", c, {}), Answer(t, TRUE)),
                     srv'.seats = srv.seats \union {c}
              PROVE  Seated'
            <4>1. /\ Grows
                  /\ \A i : News(i) => inbox'[i] \in {Event("success", c, {}), Answer(t, TRUE)}
                BY <3>2, GrowsIs
            <4>2. \A r \in Rooms : \A i : News(i) /\ Brings(i, r)' => r = c
                <5> SUFFICES ASSUME NEW r \in Rooms, NEW i, News(i), Brings(i, r)'
                             PROVE  r = c
                    OBVIOUS
                <5>1. CASE inbox'[i] = Event("success", c, {})
                    BY <5>1, EventFields DEF Brings, Says
                <5>2. CASE inbox'[i] = Answer(t, TRUE)
                    <6>1. inbox'[i].ev = "answer" /\ inbox'[i].room = t
                        BY <5>2 DEF Answer
                    <6>2. Accepts(task'[t], r)
                        BY <6>1 DEF Brings, Says
                    <6> QED
                        BY <2>1, <3>2, <6>2 DEF Accepts, Keeping
                <5> QED
                    BY <4>1, <5>1, <5>2
            <4>3. Sure(c)'
                BY <3>2 DEF Sure
            <4> QED
                BY <2>1, <2>2, <3>2, <4>1, <4>2, <4>3, SeatedGrows
        <3> QED
            BY <2>6, <3>1, <3>2, ServeAcceptDoes
    <2>7. CASE ServeReject(t) \/ ServeExisting(t) \/ Reply(t) \/ ServeMedia(t) \/ ServeConsume(t)
        <3>1. srv' = srv /\ task[t].at # "accept"
            <4>1. CASE ServeReject(t)
                BY <4>1, ServeRejectDoes, FitsIs DEF WellFormed, Route
            <4>2. CASE ServeExisting(t)
                BY <4>2, ServeExistingDoes, FitsIs DEF WellFormed, Route
            <4>3. CASE Reply(t)
                BY <4>3, ReplyDoes, FitsIs DEF WellFormed, Route
            <4>4. CASE ServeMedia(t)
                BY <4>4, ServeMediaDoes, FitsIs DEF WellFormed, Route
            <4>5. CASE ServeConsume(t)
                BY <4>5, ServeConsumeDoes, FitsIs DEF WellFormed, Route
            <4> QED
                BY <2>7, <4>1, <4>2, <4>3, <4>4, <4>5
        <3>2. \E w : Adds(Answer(t, w))
            <4>1. CASE ServeReject(t)
                BY <4>1, ServeRejectDoes
            <4>2. CASE ServeExisting(t)
                BY <4>2, ServeExistingDoes
            <4>3. CASE Reply(t)
                BY <4>3, ReplyDoes
            <4>4. CASE ServeMedia(t)
                BY <4>4, ServeMediaDoes
            <4>5. CASE ServeConsume(t)
                BY <4>5, ServeConsumeDoes
            <4> QED
                BY <2>7, <4>1, <4>2, <4>3, <4>4, <4>5
        <3> QED
            BY <2>3, <3>1, <3>2
    <2>8. CASE ServeEnd(t)
        <3>1. srv'.seats = srv.seats
            BY <2>8, ServeEndDoes DEF EndsCall, Emptied
        <3>2. Grows /\ \A r \in Rooms : \A i : News(i) => ~Brings(i, r)'
            BY <2>8, ServeEndDoes, GrowsIs, EventFields DEF Brings, Says
        <3> QED
            BY <2>1, <2>2, <3>1, <3>2, SeatedGrows
    <2> QED
        BY <1>2, <2>4, <2>5, <2>6, <2>7, <2>8, NoAnswerDoes, <1>1 DEF Serve
<1> QED
    BY <1>1, <1>2, ServeIsServed

\* An event that brings nobody in.
LEMMA TellsSeated ==
    ASSUME KTypeOK, Seated, Keeping, srv.seats \subseteq srv'.seats, strayed' = strayed,
           \A r \in Rooms : <<"leave", r>> \in sent => <<"leave", r>> \in sent',
           inbox' = inbox \/ \E ev \in {"over", "left", "joined", "new", "incoming"} : \E r, who :
                                 Adds(Event(ev, r, who))
    PROVE  Seated'
<1>1. Grows /\ \A r \in Rooms : \A i : News(i) => ~Brings(i, r)'
    <2>1. CASE inbox' = inbox
        BY <2>1, GrowsIs
    <2>2. ASSUME NEW ev \in {"over", "left", "joined", "new", "incoming"}, NEW q, NEW who,
                 Adds(Event(ev, q, who))
          PROVE  Grows /\ \A r \in Rooms : \A i : News(i) => ~Brings(i, r)'
        BY <2>2, GrowsIs, EventFields DEF Brings, Says
    <2> QED
        BY <2>1, <2>2
<1>2. \A r \in Rooms : Sure(r) => Sure(r)'
    BY SureGrows
<1> QED
    BY <1>1, <1>2, SeatedGrows

\* An event that brings the user into r, who is in.
LEMMA BringsSeated ==
    ASSUME KTypeOK, Seated, Keeping, NEW c \in Rooms, srv'.seats = srv.seats \union {c},
           strayed' = strayed, sent' = sent,
           \/ Adds(Event("success", c, {}))
           \/ \E p : AddsTwo(Event("success", c, {}), Event("joined", c, p))
    PROVE  Seated'
<1>1. Grows /\ \A i : News(i) => inbox'[i].ev \in {"success", "joined"} /\ inbox'[i].room = c
    BY GrowsIs, EventFields
<1>2. \A r \in Rooms : \A i : News(i) /\ Brings(i, r)' => r = c
    BY <1>1 DEF Brings, Says
<1>3. (\A r \in Rooms : Sure(r) => Sure(r)') /\ Sure(c)'
    BY SureGrows DEF Sure
<1> QED
    BY <1>1, <1>2, <1>3, SeatedGrows

LEMMA LeaveSeated ==
    ASSUME KTypeOK, Seated, NEW r \in Rooms, TakeLeave(r)
    PROVE  Seated'
<1>1. /\ Apart /\ inbox' = inbox /\ sent' = sent \ {<<"leave", r>>}
      /\ srv'.seats = srv.seats \ {r}
      /\ strayed' = (IF Again(r) THEN strayed \union {r} ELSE strayed)
    BY TakeLeaveDoes
<1>2. Keeping /\ Grows /\ \A i : ~News(i)
    BY <1>1, GrowsIs DEF Apart, Keeping
<1>3. ASSUME NEW q \in Rooms, Again(q), Sure(q)
      PROVE  Sure(q)'
    <2>1. CASE q = r
        BY <1>1, <1>3, <2>1 DEF Sure
    <2>2. CASE q # r
        <3>1. <<"leave", q>> # <<"leave", r>>
            BY <2>2
        <3> QED
            BY <1>1, <1>3, <2>2, <3>1 DEF Sure
    <2> QED
        BY <2>1, <2>2
<1> QED
    BY <1>2, <1>3, SeatedGrows

LEMMA LeftSeated ==
    ASSUME KTypeOK, Seated, NEW r \in Rooms, NEW p \in Members[r], MateLeft(r, p)
    PROVE  Seated'
<1>1. Apart /\ strayed' = strayed /\ sent' = sent \ {<<"left", r, p>>}
    BY MateLeftDoes
<1>2. Keeping /\ \A q \in Rooms : <<"leave", q>> \in sent => <<"leave", q>> \in sent'
    BY <1>1, EmissionsDiffer DEF Apart, Keeping
<1>3. \/ /\ srv'.seats = srv.seats
         /\ inbox' = inbox \/ Adds(Event("left", r, p)) \/ Adds(Event("over", r, {}))
      \/ srv'.seats = srv.seats \ {r} /\ Adds(Event("over", r, {}))
    BY MateLeftDoes
<1>4. CASE /\ srv'.seats = srv.seats
           /\ inbox' = inbox \/ Adds(Event("left", r, p)) \/ Adds(Event("over", r, {}))
    BY <1>1, <1>2, <1>4, TellsSeated
<1>5. CASE srv'.seats = srv.seats \ {r} /\ Adds(Event("over", r, {}))
    <2>1. /\ Grows /\ \A q \in Rooms : \A i : News(i) => ~Brings(i, q)'
          /\ \E i : News(i) /\ Says(i, "over", r)'
        BY <1>5, GrowsIs, EventFields DEF Brings, Says
    <2>2. \A q \in Rooms : Sure(q) => Sure(q)' \/ q = r
        BY <1>1, <1>2, <1>5 DEF Sure
    <2> QED
        BY <1>2, <2>1, <2>2, SeatedGrows
<1> QED
    BY <1>3, <1>4, <1>5

LEMMA ApartSeated ==
    ASSUME KTypeOK, Seated, Emissions \/ Others
    PROVE  Seated'
<1>1. Keeping
    BY EmissionsAre DEF Apart, Keeping
<1>2. ASSUME NEW c \in Chats, TakeEnd(c)
      PROVE  Seated'
    <2>1. /\ srv'.seats = srv.seats /\ strayed' = strayed /\ sent' = sent \ {<<"end", c>>}
          /\ inbox' = inbox \/ Adds(Event("over", c, {}))
        BY <1>2, TakeEndDoes DEF EndsCall, Emptied
    <2>2. \A q \in Rooms : <<"leave", q>> \in sent => <<"leave", q>> \in sent'
        BY <2>1, EmissionsDiffer
    <2> QED
        BY <1>1, <2>1, <2>2, TellsSeated
<1>3. ASSUME NEW r \in Rooms, TakeFeeds(r)
      PROVE  Seated'
    <2>1. /\ srv' = srv /\ strayed' = strayed /\ sent' = sent \ {<<"feeds", r>>}
          /\ inbox' = inbox \/ \E who : Adds(Event("new", r, who))
        BY <1>3, TakeFeedsDoes
    <2>2. \A q \in Rooms : <<"leave", q>> \in sent => <<"leave", q>> \in sent'
        BY <2>1, EmissionsDiffer
    <2> QED
        BY <1>1, <2>1, <2>2, TellsSeated
<1>4. ASSUME NEW c \in Chats, NEW p \in Members[c], MateEnds(c, p)
      PROVE  Seated'
    <2>1. /\ srv'.seats = srv.seats /\ strayed' = strayed /\ sent' = sent \ {<<"ends", c, p>>}
          /\ inbox' = inbox \/ Adds(Event("over", c, {})) \/ Adds(Event("left", c, p))
        BY <1>4, MateEndsDoes DEF Emptied
    <2>2. \A q \in Rooms : <<"leave", q>> \in sent => <<"leave", q>> \in sent'
        BY <2>1, EmissionsDiffer
    <2> QED
        BY <1>1, <2>1, <2>2, TellsSeated
<1>5. ASSUME NEW r \in MatchRooms, Match(r)
      PROVE  Seated'
    BY <1>1, <1>5, MatchDoes, BringsSeated DEF Rooms
<1>6. ASSUME NEW r \in Rooms, NEW p \in Members[r], MateHangsUp(r, p) \/ MateProduces(r, p)
      PROVE  Seated'
    <2>1. /\ srv'.seats = srv.seats /\ strayed' = strayed /\ sent \subseteq sent'
          /\ inbox' = inbox \/ Adds(Event("new", r, {p}))
        BY <1>6, MateHangsUpDoes, MateProducesDoes
    <2> QED
        BY <1>1, <2>1, TellsSeated
<1>7. ASSUME NEW c \in Chats, NEW p \in Members[c], FriendCalls(c, p)
      PROVE  Seated'
    BY <1>1, <1>7, FriendCallsDoes, TellsSeated
<1>8. ASSUME NEW c \in Chats, RingOver(c)
      PROVE  Seated'
    BY <1>1, <1>8, RingOverDoes, TellsSeated DEF Emptied
<1>9. ASSUME NEW c \in Chats, NEW p \in Members[c], FriendAccepts(c, p)
      PROVE  Seated'
    <2>1. strayed' = strayed /\ sent' = sent /\ c \in Rooms
        BY <1>9, FriendAcceptsDoes DEF Rooms
    <2>2. CASE /\ srv'.seats = srv.seats \union {c}
               /\ AddsTwo(Event("success", c, {}), Event("joined", c, p))
        BY <1>1, <2>1, <2>2, BringsSeated
    <2>3. CASE srv'.seats = srv.seats /\ Adds(Event("joined", c, p))
        BY <1>1, <2>1, <2>3, TellsSeated
    <2> QED
        BY <1>9, <2>2, <2>3, FriendAcceptsDoes
<1> QED
    BY <1>2, <1>3, <1>4, <1>5, <1>6, <1>7, <1>8, <1>9, LeaveSeated, LeftSeated
    DEF Emissions, Others

\* A function that goes on after the connection was lost awaits no answer.
LEMMA LostTask ==
    ASSUME KTypeOK, ConnectionLost, NEW t \in Slots, task'[t].op # "idle"
    PROVE  task'[t] = task[t] /\ ~Awaits(task[t].at)
BY ConnectionLostDoes, IdleFits DEF Breaks

\* What the page takes part in when the connection is lost is given up.
LEMMA LostStrays ==
    ASSUME KTypeOK, ConnectionLost
    PROVE  /\ \A r \in Rooms : Shows(r) => r \in strayed'
           /\ \A t \in Slots : task[t].op = "setup" => task[t].room \in strayed'
<1>1. \A t \in Slots : task[t].op = "setup" => task[t].room \in Rooms
    BY FitsIs DEF Sited
<1> QED
    BY <1>1 DEF ConnectionLost

LEMMA LostSeated ==
    ASSUME KTypeOK, Seated, ConnectionLost
    PROVE  Seated'
<1>1. inbox' = <<>> /\ Len(inbox') = 0 /\ UNCHANGED store /\ (touched => touched')
    BY ConnectionLostDoes
<1>2. ASSUME NEW r \in Rooms, Claims(r)'
      PROVE  Vouched(0, r)'
    <2>1. CASE \E t \in Slots : Joins(task'[t], r)
        <3>1. PICK t \in Slots : Joins(task'[t], r)
            BY <2>1
        <3>2. task'[t] = task[t] /\ ~Awaits(task[t].at)
            BY <3>1, LostTask DEF Joins
        <3>3. task[t].op = "setup" /\ task[t].room = r
            BY <3>1, <3>2 DEF Joins, Awaits
        <3> QED
            BY <3>3, LostStrays DEF Vouched, Sure
    <2>2. CASE store'.state \in Live /\ store'.room = r
        BY <1>1, <2>2, LostStrays DEF Shows, Vouched, Sure
    <2> QED
        BY <1>2, <2>1, <2>2 DEF Claims
<1>3. \A i \in 1..Len(inbox'), r \in Rooms : Brings(i, r)' => Vouched(i, r)'
    BY <1>1
<1> QED
    BY <1>2, <1>3 DEF Seated

LEMMA NextSeated ==
    ASSUME KTypeOK, Seated, KNext
    PROVE  Seated'
<1>1. ASSUME NEW t \in Slots,
             CameraOpens(t) \/ CameraFails(t) \/ Setup(t) \/ Resume(t) \/ Serve(t)
      PROVE  Seated'
    BY <1>1, CameraSeated, SetupSeated, ResumeSeated, ServeSeated
<1> QED
    BY <1>1, EventSeated, ClickSeated, ApartSeated, LostSeated DEF KNext

LEMMA SeatedShows == KTypeOK /\ Seated => ShownIsSeated
<1> SUFFICES ASSUME KTypeOK, Seated, store.state \in Live, ~touched
             PROVE  store.room \in srv.seats \union strayed \/ Underway(store.room)
    BY DEF ShownIsSeated
<1>1. PICK r \in Rooms : r = store.room
    BY DEF KTypeOK, Placed
<1>2. Vouched(0, r)
    BY <1>1 DEF Seated, Claims
<1> QED
    BY <1>1, <1>2 DEF Vouched, Later, Sure, Says, Underway

\* What the page shows, the server holds the user in, or says that it is over
\* (useMatch.ts, useCallManagement.ts), unless a function crossed an end.
THEOREM PageShowsSeated == KSpec => []ShownIsSeated
<1>1. KInit => Seated
    BY InitSeated
<1>2. KTypeOK /\ Seated /\ [KNext]_kvars => Seated'
    <2>1. ASSUME Seated, KTypeOK, UNCHANGED kvars
          PROVE  Seated'
        BY <2>1, SeatedStays DEF kvars, Shift, Calm
    <2> QED
        BY <2>1, NextSeated
<1> QED
    BY <1>1, <1>2, SeatedShows, PageTypeCorrect, PTL DEF KSpec

-----------------------------------------------------------------------------
(* Whom the server holds in a match or a call, the page shows it.          *)

\* What was over before the user was taken in again, or rang, was so before the news of it.
Stale(i, r) == Says(i, "over", r) \/ Says(i, "incoming", r)
Renewed ==
    \A r \in Rooms : Holds(r) => \A i \in 1..Len(inbox) : Stale(i, r) => Later(i, "success", r)

\* The room r is shown, or will be.
Sets(k, r) == k.op = "setup" /\ k.room = r /\ (r \in Chats \/ k.at = "camera")
Due(r) ==
    \/ Shows(r) \/ <<"leave", r>> \in sent \/ Later(0, "success", r)
    \/ \E t \in Slots : Sets(task[t], r)
Shown == \A r \in Rooms \ strayed : Holds(r) => Due(r)

\* Who ends a call that rang out is out of it when the answer is taken, or in another one.
EndsOf(k, c) == k.op = "end" /\ ~k.crossed /\ k.room = c
EndedAt(i, t) == inbox[i].ev = "answer" /\ inbox[i].room = t /\ inbox[i].who = TRUE
Past(i, c) == \E j \in 1..Len(inbox) : j < i /\ Says(j, "over", c)
Hanging ==
    \A t \in Slots, c \in Chats : EndsOf(task[t], c) =>
        /\ task[t].request = "ok" => srv.ring[c] = "left" \/ Later(0, "over", c)
        /\ \A i \in 1..Len(inbox) : EndedAt(i, t) =>
              srv.ring[c] # "active" \/ Past(i, c) \/ Later(i, "success", c)

Hold == Renewed /\ Shown /\ Hanging

LEMMA InitHold ==
    ASSUME KInit
    PROVE  Hold
<1>1. \A t \in Slots : task[t].op = "idle"
    BY IdleFits DEF KInit
<1>2. inbox = <<>> /\ srv.seats = {}
    BY DEF KInit
<1> QED
    BY <1>1, <1>2 DEF Hold, Renewed, Shown, Hanging, Holds, EndsOf

LEMMA LaterShifts ==
    ASSUME KTypeOK, NEW d \in {0, 1}, Shift(d), NEW ev, NEW r, NEW i \in Nat, Later(i + d, ev, r)
    PROVE  Later(i, ev, r)'
<1>1. PICK j \in 1..Len(inbox) : j > i + d /\ Says(j, ev, r)
    BY DEF Later
<1>2. j - d \in 1..Len(inbox') /\ inbox'[j - d] = inbox[j] /\ j - d > i
    BY <1>1, ShiftIs
<1> QED
    BY <1>1, <1>2 DEF Later, Says

LEMMA RenewedShifts ==
    ASSUME KTypeOK, Renewed, NEW d \in {0, 1}, Shift(d), srv' = srv
    PROVE  Renewed'
<1> SUFFICES ASSUME NEW r \in Rooms, Holds(r), NEW i \in 1..Len(inbox'), Stale(i, r)'
             PROVE  Later(i, "success", r)'
    BY DEF Renewed, Holds
<1>1. i + d \in 1..Len(inbox) /\ inbox'[i] = inbox[i + d] /\ i \in Nat
    BY ShiftIs
<1>2. Later(i + d, "success", r)
    BY <1>1 DEF Renewed, Stale, Says
<1> QED
    BY <1>1, <1>2, LaterShifts

LEMMA HangingShifts ==
    ASSUME KTypeOK, Hanging, NEW d \in {0, 1}, Shift(d), srv' = srv,
           d = 1 => Head(inbox).ev # "over",
           \A u \in Slots, c \in Chats : EndsOf(task'[u], c) =>
               \/ EndsOf(task[u], c) /\ task'[u].request = task[u].request
               \/ task[u] = Idle /\ task'[u].request = "sent"
    PROVE  Hanging'
<1> SUFFICES ASSUME NEW u \in Slots, NEW c \in Chats, EndsOf(task'[u], c)
             PROVE  /\ task'[u].request = "ok" => srv.ring[c] = "left" \/ Later(0, "over", c)'
                    /\ \A i \in 1..Len(inbox') : EndedAt(i, u)' =>
                          srv.ring[c] # "active" \/ Past(i, c)' \/ Later(i, "success", c)'
    BY DEF Hanging
<1>1. d = 1 => inbox[1].ev # "over"
    BY HeadIs DEF Shift
<1>2. \A j \in 1..Len(inbox) : Says(j, "over", c) => j > d
    BY <1>1 DEF Says
<1>3. ASSUME task'[u].request = "ok"
      PROVE  srv.ring[c] = "left" \/ Later(0, "over", c)'
    <2>1. srv.ring[c] = "left" \/ Later(0, "over", c)
        BY <1>3 DEF Hanging
    <2>2. Later(0, "over", c) => Later(0 + d, "over", c)
        BY <1>2 DEF Later
    <2> QED
        BY <2>1, <2>2, LaterShifts
<1>4. ASSUME NEW i \in 1..Len(inbox'), EndedAt(i, u)'
      PROVE  srv.ring[c] # "active" \/ Past(i, c)' \/ Later(i, "success", c)'
    <2>1. i + d \in 1..Len(inbox) /\ inbox'[i] = inbox[i + d] /\ i \in Nat
        BY ShiftIs
    <2>2. EndedAt(i + d, u)
        BY <1>4, <2>1 DEF EndedAt
    <2>3. task[u] # Idle
        <3>1. Awaits(task[u].at)
            BY <2>1, <2>2 DEF EndedAt, KTypeOK, Answering
        <3> QED
            BY <3>1, IdleFits DEF Awaits
    <2>4. EndsOf(task[u], c)
        BY <2>3
    <2>5. srv.ring[c] # "active" \/ Past(i + d, c) \/ Later(i + d, "success", c)
        BY <2>1, <2>2, <2>4 DEF Hanging
    <2>6. Past(i + d, c) => Past(i, c)'
        <3> SUFFICES ASSUME NEW j \in 1..Len(inbox), j < i + d, Says(j, "over", c)
                     PROVE  Past(i, c)'
            BY DEF Past
        <3>1. j - d \in 1..Len(inbox') /\ inbox'[j - d] = inbox[j] /\ j - d < i
            BY <1>2, ShiftIs
        <3> QED
            BY <3>1 DEF Past, Says
    <2> QED
        BY <2>1, <2>5, <2>6, LaterShifts
<1> QED
    BY <1>3, <1>4

\* A step of the page: nothing that was shown or is about to be is lost but by straying.
LEMMA HoldKept ==
    ASSUME KTypeOK, Hold, NEW d \in {0, 1}, Shift(d), Calm, Hanging',
           \A r \in Rooms \ strayed' : Holds(r) /\ Shows(r) => Due(r)',
           \A r \in Rooms \ strayed' : d = 1 /\ Says(1, "success", r) => Due(r)',
           \A u \in Slots, r \in Rooms \ strayed' : Sets(task[u], r) => Due(r)'
    PROVE  Hold'
<1>1. Renewed'
    BY RenewedShifts DEF Hold, Calm
<1>2. ASSUME NEW r \in Rooms \ strayed', Holds(r)
      PROVE  Due(r)'
    <2>1. Due(r)
        BY <1>2 DEF Hold, Shown, Calm
    <2>2. CASE <<"leave", r>> \in sent
        BY <2>2 DEF Due, Calm
    <2>3. CASE Later(0, "success", r)
        <3>1. PICK j \in 1..Len(inbox) : Says(j, "success", r)
            BY <2>3 DEF Later
        <3>2. CASE d = 1 /\ j = 1
            BY <3>1, <3>2
        <3>3. CASE ~(d = 1 /\ j = 1)
            <4>1. Later(0 + d, "success", r)
                BY <3>1, <3>3 DEF Later
            <4>2. Later(0, "success", r)'
                BY <4>1, LaterShifts
            <4> QED
                BY <4>2 DEF Due
        <3> QED
            BY <3>2, <3>3
    <2> QED
        BY <1>2, <2>1, <2>2, <2>3 DEF Due
<1>3. Shown'
    BY <1>2 DEF Shown, Holds, Calm
<1> QED
    BY <1>1, <1>3 DEF Hold

\* One function goes on, and what it was setting up is shown, is due or has strayed.
LEMMA HoldSteps ==
    ASSUME KTypeOK, Hold, NEW d \in {0, 1}, Shift(d), Calm, d = 1 => Head(inbox).ev # "over",
           NEW t \in Slots, Closes(t),
           task'[t].op = "end" => task[t] = Idle /\ task'[t].request = "sent",
           \A r \in Rooms \ strayed' : Holds(r) /\ Shows(r) => Due(r)',
           \A r \in Rooms \ strayed' : d = 1 /\ Says(1, "success", r) => Due(r)',
           \A r \in Rooms \ strayed' : Sets(task[t], r) => Due(r)'
    PROVE  Hold'
<1>1. \A u \in Slots, c \in Chats : EndsOf(task'[u], c) =>
          \/ EndsOf(task[u], c) /\ task'[u].request = task[u].request
          \/ task[u] = Idle /\ task'[u].request = "sent"
    BY DEF Closes, EndsOf
<1>2. Hanging'
    BY <1>1, HangingShifts DEF Hold, Calm
<1>3. \A u \in Slots \ {t}, r \in Rooms : Sets(task[u], r) => Due(r)'
    BY DEF Closes, Sets, Due
<1>4. \A u \in Slots, r \in Rooms \ strayed' : Sets(task[u], r) => Due(r)'
    BY <1>3
<1> QED
    BY <1>2, <1>4, HoldKept

\* The tasks stay.
LEMMA HoldStays ==
    ASSUME KTypeOK, Hold, NEW d \in {0, 1}, Shift(d), Calm, d = 1 => Head(inbox).ev # "over",
           task' = task,
           \A r \in Rooms \ strayed' : Holds(r) /\ Shows(r) => Due(r)',
           d = 1 => Head(inbox).ev # "success"
    PROVE  Hold'
<1>1. Hanging'
    BY HangingShifts DEF Hold, Calm
<1>2. \A u \in Slots, r \in Rooms : Sets(task[u], r) => Due(r)'
    BY DEF Due
<1>3. \A r : ~(d = 1 /\ Says(1, "success", r))
    BY HeadIs DEF Shift, Says
<1> QED
    BY <1>1, <1>2, <1>3, HoldKept

\* Every end of the page: the session that is shown is what is over, or has strayed.
LEMMA EndsHold ==
    ASSUME KTypeOK, Hold, NEW d \in {0, 1}, Shift(d), Calm, NEW over, Ends(over), EndsPage,
           d = 1 => Head(inbox).ev # "success",
           \A u \in over : task[u].op # "setup", NEW about, Witness(about),
           \A r \in Rooms \ strayed' : Holds(r) /\ Shows(r) /\ r \in about => Due(r)'
    PROVE  Hold'
<1>1. \A u \in Slots : task'[u].op = "idle" \/ task'[u].crossed
    BY IdleFits DEF Ends
<1>2. Hanging'
    BY <1>1 DEF Hanging, EndsOf
<1>3. \A u \in Slots, r \in Rooms : Sets(task[u], r) => Due(r)'
    <2> SUFFICES ASSUME NEW u \in Slots, NEW r \in Rooms, Sets(task[u], r)
                 PROVE  Sets(task'[u], r)
        BY DEF Due
    <2>1. u \notin over /\ task[u] # Idle
        BY IdleFits DEF Sets
    <2> QED
        BY <2>1 DEF Ends, Sets
<1>4. \A r : ~(d = 1 /\ Says(1, "success", r))
    BY HeadIs DEF Shift, Says
<1>5. ASSUME NEW r \in Rooms \ strayed', Holds(r), Shows(r)
      PROVE  Due(r)'
    <2>1. Held(store) = r
        BY <1>5 DEF Shows, Held, Live
    <2>2. Held(store') = NoRoom
        BY DEF EndsPage, Held, Live
    <2>3. r # NoRoom
        BY MediaClientAssumption
    <2>4. r \in about
        BY <2>1, <2>2, <2>3 DEF Witness
    <2> QED
        BY <1>5, <2>4
<1> QED
    BY <1>2, <1>3, <1>4, <1>5, HoldKept

LEMMA ContinueHold ==
    ASSUME KTypeOK, Hold, NEW d \in {0, 1}, Shift(d), srv' = srv, sent' = sent,
           d = 1 => Head(inbox).ev # "over", NEW t \in Slots, NEW k, NEW s, Starts(t, k, s),
           k.request = "none", Continue(t, k, s),
           \A r \in Rooms : Sets(task[t], r) => k.op = "setup" /\ k.room = r,
           \A r \in Rooms : d = 1 /\ Says(1, "success", r) => k.op = "setup" /\ k.room = r
    PROVE  Hold'
<1>1. Leaves(t) /\ strayed \subseteq strayed'
    BY ContinueDoes
<1>2. Closes(t) /\ Calm
    BY <1>1, LeavesCloses DEF Calm
<1>3. s.state = store.state /\ s.room = store.room /\ k.at = "camera"
    BY DEF Starts
<1>4. CASE AskMatch(t, k, s)
    <2>1. k.op = "match" /\ Asks(t, k, "match") /\ store' = s
        BY <1>4, AskMatchDoes
    <2>2. task'[t].op # "end"
        BY <2>1 DEF Asks
    <2>3. \A r \in Rooms : Shows(r) => Due(r)'
        BY <2>1, <1>3 DEF Due, Shows
    <2> QED
        BY <1>2, <2>1, <2>2, <2>3, HoldSteps
<1>5. CASE AskRing(t, k, s) /\ Witness(About(k))
    <2>1. k.op = "ring" /\ Asks(t, k, "ring") /\ store'.state = "outGoing"
        BY <1>5, AskRingDoes
    <2>2. task'[t].op # "end"
        BY <2>1 DEF Asks
    <2>3. \A r \in Rooms \ strayed' : ~Shows(r)
        <3>1. About(k) = {}
            BY <2>1 DEF About
        <3>3. Held(store') = NoRoom
            BY <2>1 DEF Held, Live
        <3>2. \A r \in Rooms : Shows(r) => Held(store) = r /\ r # NoRoom
            BY MediaClientAssumption DEF Shows, Held, Live
        <3> QED
            BY <1>5, <3>1, <3>2, <3>3 DEF Witness
    <2> QED
        BY <1>2, <2>1, <2>2, <2>3, HoldSteps
<1>6. CASE StartSetup(t, k, s) /\ Witness(About(k))
    <2>1. /\ k.op = "setup" /\ k.room \in Rooms
          /\ task'[t].op = "setup" /\ task'[t].room = k.room
          /\ store'.state = (IF k.room \in MatchRooms THEN "inMatch" ELSE store.state)
          /\ store'.room = (IF k.room \in MatchRooms THEN k.room ELSE store.room)
        BY <1>6, StartSetupDoes
    <2>2. Due(k.room)'
        <3>1. CASE k.room \in MatchRooms
            BY <2>1, <3>1 DEF Due, Shows, Live
        <3>2. CASE k.room \notin MatchRooms
            <4>1. k.room \in Chats
                BY <2>1, <3>2 DEF Rooms
            <4>2. Sets(task'[t], k.room)
                BY <2>1, <4>1 DEF Sets
            <4> QED
                BY <4>2 DEF Due
        <3> QED
            BY <3>1, <3>2
    <2>3. \A r \in Rooms \ strayed' : Shows(r) => Due(r)'
        <3> SUFFICES ASSUME NEW r \in Rooms \ strayed', Shows(r), r # k.room
                     PROVE  Due(r)'
            BY <2>2
        <3>1. CASE k.room \in MatchRooms
            <4>1. Held(store) = r /\ r # NoRoom
                BY MediaClientAssumption DEF Shows, Held, Live
            <4>2. Held(store') = k.room
                BY <2>1, <3>1 DEF Held, Live
            <4>3. r \notin About(k)
                BY <2>1, WaitingAssumption DEF About
            <4> QED
                BY <1>6, <4>1, <4>2, <4>3 DEF Witness
        <3>2. CASE k.room \notin MatchRooms
            BY <2>1, <3>2 DEF Due, Shows
        <3> QED
            BY <3>1, <3>2
    <2> QED
        BY <1>2, <2>1, <2>2, <2>3, HoldSteps
<1>7. CASE Turn(t, k, s) /\ Witness(About(k))
    <2>1. /\ k.op \in Tracks /\ store'.state = store.state /\ store'.room = store.room
          /\ task'[t] = Idle \/ task'[t].op \in Tracks
        BY <1>7, TurnDoes
    <2>2. task'[t].op # "end"
        BY <2>1, IdleFits DEF Tracks
    <2>3. \A r \in Rooms : Shows(r) => Due(r)'
        BY <2>1 DEF Due, Shows
    <2>4. k.op # "setup"
        BY <2>1 DEF Tracks
    <2> QED
        BY <1>2, <2>2, <2>3, <2>4, HoldSteps
<1> QED
    BY <1>4, <1>5, <1>6, <1>7 DEF Continue

LEMMA IdleSets == \A r : ~Sets(Idle, r)
    BY IdleFits DEF Sets

LEMMA BeginHold ==
    ASSUME KTypeOK, Hold, NEW d \in {0, 1}, Shift(d), srv' = srv, sent' = sent,
           d = 1 => Head(inbox).ev # "over", NEW k, Fresh(k), Begin(k),
           \A r \in Rooms : d = 1 /\ Says(1, "success", r) => k.op = "setup" /\ k.room = r
    PROVE  Hold'
<1>1. PICK t \in Slots :
          /\ task[t] = Idle /\ Leaves(t)
          /\ \/ Starts(t, k, store) /\ Continue(t, k, store)
             \/ /\ task'[t] = k /\ store.stream # "live"
                /\ UNCHANGED <<store, media, strayed>>
    BY BeginDoes
<1>2. \A r : ~Sets(task[t], r)
    BY <1>1, IdleSets
<1>3. CASE Starts(t, k, store) /\ Continue(t, k, store)
    BY <1>2, <1>3, ContinueHold DEF Fresh
<1>4. CASE task'[t] = k /\ UNCHANGED <<store, media, strayed>>
    <2>1. Closes(t) /\ Calm
        BY <1>1, <1>4, LeavesCloses DEF Calm
    <2>2. task'[t].op # "end" /\ k.at = "camera"
        BY <1>4 DEF Fresh, Tracks
    <2>3. \A r \in Rooms : Shows(r) => Due(r)'
        BY <1>4 DEF Due, Shows
    <2>4. \A r \in Rooms : k.op = "setup" /\ k.room = r => Due(r)'
        BY <1>4, <2>2 DEF Due, Sets
    <2> QED
        BY <1>2, <2>1, <2>2, <2>3, <2>4, HoldSteps
<1> QED
    BY <1>1, <1>3, <1>4

LEMMA CameraHold ==
    ASSUME KTypeOK, Hold, NEW t \in Slots, CameraOpens(t) \/ CameraFails(t)
    PROVE  Hold'
<1>1. CASE CameraOpens(t)
    <2>1. UNCHANGED <<inbox, sent, srv>>
        BY <1>1 DEF CameraOpens
    <2>2. PICK k, s : Opens(t, k, s)
        BY <1>1, CameraOpensDoes
    <2>3. Shift(0)
        BY <2>1 DEF Shift
    <2>4. \A r \in Rooms : Sets(task[t], r) => k.op = "setup" /\ k.room = r
        BY <2>2 DEF Opens, Sets
    <2>5. Starts(t, k, s) /\ Continue(t, k, s) /\ k.request = "none"
        BY <2>2 DEF Opens
    <2>6. 0 \in {0, 1}
        OBVIOUS
    <2> QED
        BY <2>1, <2>3, <2>4, <2>5, <2>6, ContinueHold
<1>2. CASE CameraFails(t)
    <2>1. /\ task[t].at = "camera" /\ task'[t] = Idle
          /\ UNCHANGED <<inbox, sent, srv, gone, uninvited, hasty>>
          /\ \/ task[t].op = "ring" /\ Ends({t}) /\ EndsPage /\ Witness({})
             \/ /\ task[t].op # "ring" /\ Leaves(t) /\ UNCHANGED <<store, media, touched>>
                /\ strayed \subseteq strayed'
                /\ task[t].op = "setup" => strayed' = strayed \union {task[t].room}
        BY <1>2, CameraFailsDoes
    <2>2. Shift(0) /\ 0 \in {0, 1}
        BY <2>1 DEF Shift
    <2>3. CASE task[t].op = "ring" /\ Ends({t}) /\ EndsPage /\ Witness({})
        <3>1. Calm
            BY <2>1, <2>3 DEF Calm, EndsPage
        <3>2. \A u \in {t} : task[u].op # "setup"
            BY <2>3
        <3> QED
            BY <2>2, <2>3, <3>1, <3>2, EndsHold
    <2>4. CASE /\ task[t].op # "ring" /\ Leaves(t) /\ UNCHANGED <<store, media, touched>>
               /\ strayed \subseteq strayed'
               /\ task[t].op = "setup" => strayed' = strayed \union {task[t].room}
        <3>1. Calm /\ Closes(t)
            BY <2>1, <2>4, LeavesCloses DEF Calm
        <3>2. task'[t].op # "end"
            BY <2>1, IdleFits
        <3>3. \A r \in Rooms : Shows(r) => Due(r)'
            BY <2>4 DEF Due, Shows
        <3>4. \A r \in Rooms \ strayed' : ~Sets(task[t], r)
            BY <2>4 DEF Sets
        <3> QED
            BY <2>2, <3>1, <3>2, <3>3, <3>4, HoldSteps
    <2> QED
        BY <2>1, <2>3, <2>4
<1> QED
    BY <1>1, <1>2

\* An answer is taken, which is no news.
LEMMA HearsShift ==
    ASSUME KTypeOK, inbox # <<>>, Take, Head(inbox).ev = "answer"
    PROVE  /\ Shift(1) /\ 1 \in {0, 1} /\ Head(inbox).ev # "over" /\ Head(inbox).ev # "success"
           /\ \A r : ~Says(1, "success", r) /\ ~Says(1, "over", r)
    BY HeadIs DEF Shift, Says

LEMMA SetupHold ==
    ASSUME KTypeOK, Hold, NEW t \in Slots, Setup(t)
    PROVE  Hold'
<1>1. CASE InitializeDevice(t) \/ LoadDevice(t)
    <2>1. /\ task[t].op = "setup" /\ Leaves(t) /\ Continued(t)
          /\ task[t].at \in {"device", "load"}
          /\ UNCHANGED <<store, inbox, sent, srv, strayed>>
        BY <1>1, DeviceDoes
    <2>2. Shift(0) /\ 0 \in {0, 1} /\ Calm /\ Closes(t)
        BY <2>1, LeavesCloses DEF Shift, Calm
    <2>3. task'[t].op = "setup" /\ task'[t].room = task[t].room
        BY <2>1 DEF Continued
    <2>4. \A r \in Rooms : Shows(r) => Due(r)'
        BY <2>1 DEF Due, Shows
    <2>5. \A r \in Rooms : Sets(task[t], r) => Due(r)'
        BY <2>1, <2>3 DEF Due, Sets
    <2> QED
        BY <2>2, <2>3, <2>4, <2>5, HoldSteps
<1>2. CASE SendTransport(t)
    <2>1. /\ task[t].op = "setup" /\ task[t].at = "send" /\ Hears(t, TRUE) /\ Closes(t)
          /\ UNCHANGED <<store, sent, srv>>
          /\ \/ task'[t] = Idle /\ strayed' = strayed \union {task[t].room}
             \/ Continued(t) /\ UNCHANGED strayed
        BY <1>2, SendDoes
    <2>2. Shift(1) /\ 1 \in {0, 1} /\ Head(inbox).ev # "over" /\ \A r : ~Says(1, "success", r)
        BY <2>1, HearsShift DEF Hears
    <2>3. Calm
        BY <2>1 DEF Calm
    <2>4. task'[t].op # "end"
        BY <2>1, IdleFits DEF Continued
    <2>5. \A r \in Rooms : Shows(r) => Due(r)'
        BY <2>1 DEF Due, Shows
    <2>6. \A r \in Rooms \ strayed' : Sets(task[t], r) => Due(r)'
        BY <2>1 DEF Due, Sets, Continued
    <2> QED
        BY <2>1, <2>2, <2>3, <2>4, <2>5, <2>6, HoldSteps
<1>3. ASSUME Finishes(t), Hears(t, TRUE), Closes(t), srv' = srv, task[t].op = "setup",
             task[t].room \in Rooms, task[t].at # "camera"
      PROVE  Hold'
    <2>1. Shift(1) /\ 1 \in {0, 1} /\ Head(inbox).ev # "over" /\ \A r : ~Says(1, "success", r)
        BY <1>3, HearsShift DEF Hears
    <2>2. Calm
        BY <1>3 DEF Calm, Finishes
    <2>3. task'[t].op # "end"
        BY <1>3, IdleFits DEF Finishes
    <2>4. \A r \in Rooms : Sets(task[t], r) => Due(r)'
        BY <1>3 DEF Due, Sets, Finishes, Shows, Live
    <2>5. \A r \in Rooms \ strayed' : Shows(r) => Due(r)'
        <3> SUFFICES ASSUME NEW r \in Rooms \ strayed', Shows(r)
                     PROVE  Due(r)'
            OBVIOUS
        <3>1. CASE task[t].room \notin Chats
            BY <1>3, <3>1 DEF Due, Finishes, Shows
        <3>2. CASE task[t].room \in Chats
            <4>1. Held(store) = r /\ r # NoRoom
                BY MediaClientAssumption DEF Shows, Held, Live
            <4>2. Held(store') = task[t].room
                BY <1>3, <3>2 DEF Held, Live, Finishes
            <4>3. r = task[t].room
                BY <1>3, <4>1, <4>2 DEF Witness, Finishes
            <4> QED
                BY <1>3, <3>2, <4>3 DEF Due, Shows, Live, Finishes
        <3> QED
            BY <3>1, <3>2
    <2> QED
        BY <1>3, <2>1, <2>2, <2>3, <2>4, <2>5, HoldSteps
<1>4. ASSUME Hears(t, TRUE), Closes(t), Continued(t), UNCHANGED <<store, sent, srv, strayed>>,
             task[t].op = "setup", task[t].at # "camera"
      PROVE  Hold'
    <2>1. Shift(1) /\ 1 \in {0, 1} /\ Head(inbox).ev # "over" /\ \A r : ~Says(1, "success", r)
        BY <1>4, HearsShift DEF Hears
    <2>2. Calm
        BY <1>4 DEF Calm
    <2>3. task'[t].op # "end"
        BY <1>4 DEF Continued
    <2>4. \A r \in Rooms : Shows(r) => Due(r)'
        BY <1>4 DEF Due, Shows
    <2>5. \A r \in Rooms : Sets(task[t], r) => Due(r)'
        BY <1>4 DEF Due, Sets, Continued
    <2> QED
        BY <1>4, <2>1, <2>2, <2>3, <2>4, <2>5, HoldSteps
<1>5. CASE RecvTransport(t)
    <2>1. /\ task[t].op = "setup" /\ task[t].at = "recv" /\ Hears(t, TRUE) /\ Closes(t)
          /\ srv' = srv /\ task[t].room \in Rooms
          /\ \/ Continued(t) /\ UNCHANGED <<store, sent, strayed>>
             \/ Finishes(t)
        BY <1>5, RecvDoes
    <2> QED
        BY <2>1, <1>3, <1>4
<1>6. CASE ProduceVideo(t) \/ ProduceAudio(t)
    <2>1. /\ task[t].op = "setup" /\ task[t].at \in {"video", "audio"} /\ Hears(t, TRUE)
          /\ Leaves(t) /\ srv' = srv /\ task[t].room \in Rooms
          /\ \/ Continued(t) /\ UNCHANGED <<store, sent, strayed>>
             \/ Finishes(t)
        BY <1>6, ProduceDoes
    <2>2. Closes(t)
        BY <2>1, LeavesCloses
    <2> QED
        BY <2>1, <2>2, <1>3, <1>4
<1> QED
    BY <1>1, <1>2, <1>5, <1>6 DEF Setup

\* A function that sets up nothing goes on, and what is shown stays.
LEMMA LightHold ==
    ASSUME KTypeOK, Hold, NEW d \in {0, 1}, Shift(d), Calm, d = 1 => Head(inbox).ev # "over",
           d = 1 => Head(inbox).ev # "success", NEW t \in Slots, Leaves(t), task[t].op # "setup",
           task'[t].op = "end" => task[t] = Idle /\ task'[t].request = "sent",
           store.state \in Live => store'.state \in Live /\ store'.room = store.room
    PROVE  Hold'
<1>1. Closes(t)
    BY LeavesCloses
<1>2. \A r \in Rooms : Shows(r) => Due(r)'
    BY DEF Due, Shows
<1>3. \A r : ~(d = 1 /\ Says(1, "success", r))
    BY HeadIs DEF Shift, Says
<1>4. \A r \in Rooms : ~Sets(task[t], r)
    BY DEF Sets
<1> QED
    BY <1>1, <1>2, <1>3, <1>4, HoldSteps

LEMMA EndAnsweredHold ==
    ASSUME KTypeOK, Hold, NEW t \in Slots, EndAnswered(t)
    PROVE  Hold'
<1>1. /\ task[t].op \in {"cancel", "reject", "end", "ring"}
      /\ Ends({t}) /\ EndsPage /\ Witness(About(task[t])) /\ UNCHANGED <<sent, srv>>
    BY EndAnsweredDoes
<1>2. PICK ok \in BOOLEAN : Hears(t, ok) /\ ok = (task[t].op # "ring")
    BY EndAnsweredDoes
<1>3. /\ Shift(1) /\ 1 \in {0, 1} /\ Head(inbox).ev # "success"
      /\ \A r : ~Says(1, "over", r)
    BY <1>2, HearsShift DEF Hears
<1>4. Calm
    BY <1>1 DEF Calm, EndsPage
<1>5. ASSUME NEW r \in Rooms \ strayed', Holds(r), Shows(r), r \in About(task[t])
      PROVE  Due(r)'
    <2>1. /\ task[t].op = "end" /\ ~task[t].crossed /\ r = task[t].room
        <3>1. task[t].op \in {"cancel", "end"} /\ ~task[t].crossed
            BY <1>1, <1>5 DEF About
        <3>2. task[t].op # "cancel"
            BY <1>5, WaitingAssumption, <3>1 DEF About
        <3>3. task[t].op = "end" /\ task[t].room \in Chats
            BY <3>1, <3>2, FitsIs DEF Sited
        <3>4. task[t].room \notin MatchRooms
            BY <3>3, MediaClientAssumption
        <3> QED
            BY <1>5, <3>1, <3>3, <3>4 DEF About
    <2>2. r \in Chats /\ EndsOf(task[t], r)
        BY <2>1, FitsIs DEF Sited, EndsOf
    <2>3. EndedAt(1, t) /\ 1 \in 1..Len(inbox)
        BY <1>2, <2>1, HeadIs DEF EndedAt, Hears
    <2>4. srv.ring[r] # "active" \/ Past(1, r) \/ Later(1, "success", r)
        BY <2>2, <2>3 DEF Hold, Hanging
    <2>5. ~Past(1, r)
        BY DEF Past
    <2>6. srv.ring[r] = "active"
        BY <1>5, <2>2 DEF Holds
    <2>7. Later(0 + 1, "success", r)
        BY <2>4, <2>5, <2>6
    <2>8. Later(0, "success", r)'
        BY <2>7, <1>3, LaterShifts
    <2> QED
        BY <2>8 DEF Due
<1>6. \A u \in {t} : task[u].op # "setup"
    BY <1>1
<1> QED
    BY <1>1, <1>3, <1>4, <1>5, <1>6, EndsHold

LEMMA ResumeHold ==
    ASSUME KTypeOK, Hold, NEW t \in Slots, Resume(t)
    PROVE  Hold'
<1>1. CASE MatchAnswered(t)
    <2>1. /\ task[t].op = "match" /\ Hears(t, TRUE) /\ Leaves(t) /\ task'[t] = Idle
          /\ store'.state = "inMatchWait" /\ Witness({Waiting}) /\ strayed \subseteq strayed'
          /\ UNCHANGED <<sent, srv>>
        BY <1>1, MatchAnsweredDoes
    <2>2. Shift(1) /\ 1 \in {0, 1} /\ Head(inbox).ev # "over" /\ \A r : ~Says(1, "success", r)
        BY <2>1, HearsShift DEF Hears
    <2>3. Calm /\ Closes(t)
        BY <2>1, LeavesCloses DEF Calm
    <2>4. task'[t].op # "end"
        BY <2>1, IdleFits
    <2>5. \A r \in Rooms \ strayed' : ~Shows(r)
        <3>1. Held(store') = Waiting
            BY <2>1 DEF Held, Live
        <3>2. \A r \in Rooms : Shows(r) => Held(store) = r /\ r # NoRoom /\ r # Waiting
            BY MediaClientAssumption, WaitingAssumption DEF Shows, Held, Live
        <3> QED
            BY <2>1, <3>1, <3>2 DEF Witness
    <2>6. \A r \in Rooms : ~Sets(task[t], r)
        BY <2>1 DEF Sets
    <2> QED
        BY <2>2, <2>3, <2>4, <2>5, <2>6, HoldSteps
<1>2. CASE EndAnswered(t)
    BY <1>2, EndAnsweredHold
<1>3. CASE ScreenChosen(t)
    <2>1. /\ task[t].op = "share" /\ Leaves(t) /\ UNCHANGED <<store, inbox, sent, strayed, srv>>
          /\ task'[t] = Idle \/ Continued(t)
        BY <1>3, ScreenChosenDoes
    <2>2. Shift(0) /\ 0 \in {0, 1} /\ Calm
        BY <2>1 DEF Shift, Calm
    <2>3. task'[t].op # "end"
        BY <2>1, IdleFits DEF Continued
    <2> QED
        BY <2>1, <2>2, <2>3, LightHold
<1>4. ASSUME inbox # <<>>, Take, Head(inbox).ev = "answer", Leaves(t), task[t].op # "setup",
             task'[t] = Idle \/ (Continued(t) /\ task[t].op # "end"),
             strayed \subseteq strayed', UNCHANGED <<sent, srv>>,
             store.state \in Live => store'.state \in Live /\ store'.room = store.room
      PROVE  Hold'
    <2>1. Shift(1) /\ 1 \in {0, 1} /\ Head(inbox).ev # "over" /\ Head(inbox).ev # "success"
        BY <1>4, HearsShift
    <2>2. Calm
        BY <1>4 DEF Calm
    <2>3. task'[t].op # "end"
        BY <1>4, IdleFits DEF Continued
    <2> QED
        BY <1>4, <2>1, <2>2, <2>3, LightHold
<1>5. CASE NothingDone(t)
    <2>1. PICK ok \in BOOLEAN : Hears(t, ok)
        BY <1>5, NothingDoneDoes
    <2>2. /\ task[t].op \in {"reject", "end", "ring", "accept"} /\ Leaves(t) /\ task'[t] = Idle
          /\ UNCHANGED <<store, sent, strayed, srv>>
        BY <1>5, NothingDoneDoes
    <2> QED
        BY <2>1, <2>2, <1>4 DEF Hears
<1>6. CASE Accepted(t)
    <2>1. /\ task[t].op = "accept" /\ Hears(t, TRUE) /\ Leaves(t) /\ Continued(t)
          /\ store'.state = "inCall" /\ store'.room = store.room /\ strayed \subseteq strayed'
          /\ UNCHANGED <<sent, srv>>
        BY <1>6, AcceptedDoes
    <2> QED
        BY <2>1, <1>4 DEF Hears, Live
<1>7. CASE Existing(t)
    <2>1. /\ task[t].op = "accept" /\ Hears(t, TRUE) /\ Leaves(t) /\ task'[t] = Idle
          /\ store'.state = store.state /\ store'.room = store.room
          /\ UNCHANGED <<sent, strayed, srv>>
        BY <1>7, ExistingDoes
    <2> QED
        BY <2>1, <1>4 DEF Hears
<1>8. CASE Turned(t)
    <2>1. /\ task[t].op \in Tracks /\ Hears(t, TRUE) /\ Leaves(t) /\ task'[t] = Idle
          /\ store'.state = store.state /\ store'.room = store.room
          /\ UNCHANGED <<sent, strayed, srv>>
        BY <1>8, TurnedDoes
    <2>2. task[t].op # "setup"
        BY <2>1 DEF Tracks
    <2> QED
        BY <2>1, <2>2, <1>4 DEF Hears
<1>9. CASE ScreenProduced(t)
    <2>1. /\ task[t].op = "share" /\ Hears(t, TRUE) /\ Leaves(t)
          /\ task'[t] = Idle \/ Continued(t)
          /\ UNCHANGED <<store, sent, strayed, srv>>
        BY <1>9, ScreenProducedDoes
    <2> QED
        BY <2>1, <1>4 DEF Hears
<1>10. CASE Shared(t)
    <2>1. /\ task[t].op = "share" /\ Hears(t, TRUE) /\ Leaves(t) /\ task'[t] = Idle
          /\ store'.state = store.state /\ store'.room = store.room
          /\ UNCHANGED <<sent, strayed, srv>>
        BY <1>10, SharedDoes
    <2> QED
        BY <2>1, <1>4 DEF Hears
<1>11. CASE Consumed(t)
    <2>1. /\ task[t].op = "consume" /\ inbox # <<>> /\ Take /\ Head(inbox).ev = "answer"
          /\ Leaves(t)
          /\ task'[t] = Idle \/ Continued(t)
          /\ UNCHANGED <<store, sent, strayed, srv>>
        BY <1>11, ConsumedDoes
    <2> QED
        BY <2>1, <1>4
<1> QED
    BY <1>1, <1>2, <1>3, <1>5, <1>6, <1>7, <1>8, <1>9, <1>10, <1>11 DEF Resume

\* What is over, or rings, is told before the user is taken in again.
LEMMA StaleIsRenewed ==
    ASSUME KTypeOK, Hold, Shift(1), NEW r \in Rooms, Holds(r), Stale(1, r)
    PROVE  Due(r)'
<1>1. 1 \in 1..Len(inbox)
    BY HeadIs DEF Shift
<1>2. Later(0 + 1, "success", r)
    BY <1>1 DEF Hold, Renewed
<1>3. Later(0, "success", r)'
    BY <1>2, LaterShifts
<1> QED
    BY <1>3 DEF Due

LEMMA EventHold ==
    ASSUME KTypeOK, Hold, Events
    PROVE  Hold'
<1>1. ASSUME NEW ev, Takes(ev)
      PROVE  /\ Shift(1) /\ 1 \in {0, 1} /\ Head(inbox).ev = ev /\ UNCHANGED <<sent, srv>>
             /\ \A r, e : Says(1, e, r) <=> ev = e /\ Head(inbox).room = r
    <2>1. inbox # <<>> /\ Take /\ Head(inbox).ev = ev /\ UNCHANGED <<sent, srv>>
        BY <1>1 DEF Takes
    <2>2. Head(inbox) = inbox[1]
        BY <2>1, HeadIs
    <2> QED
        BY <2>1, <2>2 DEF Shift, Says
<1>2. CASE Success
    <2>1. Takes("success")
        BY <1>2, SuccessDoes
    <2>2. PICK k : /\ Fresh(k) /\ k.op = "setup" /\ k.room = Head(inbox).room /\ Begin(k)
        BY <1>2, SuccessDoes
    <2>3. /\ Shift(1) /\ 1 \in {0, 1} /\ Head(inbox).ev # "over" /\ UNCHANGED <<sent, srv>>
          /\ \A r : Says(1, "success", r) => Head(inbox).room = r
        BY <2>1, <1>1
    <2> QED
        BY <2>2, <2>3, BeginHold
<1>3. CASE NewProducer
    <2>1. /\ Takes("new") /\ UNCHANGED <<store, strayed>>
          /\ \/ UNCHANGED task
             \/ \E t \in Slots : task[t] = Idle /\ Leaves(t) /\ task'[t].op = "consume"
        BY <1>3, NewProducerDoes
    <2>2. /\ Shift(1) /\ 1 \in {0, 1} /\ Head(inbox).ev # "over" /\ Head(inbox).ev # "success"
          /\ UNCHANGED <<sent, srv>>
        BY <2>1, <1>1
    <2>3. Calm
        BY <2>1, <2>2 DEF Calm
    <2>4. CASE UNCHANGED task
        <3>1. \A r \in Rooms : Shows(r) => Due(r)'
            BY <2>1 DEF Due, Shows
        <3> QED
            BY <2>2, <2>3, <2>4, <3>1, HoldStays
    <2>5. CASE \E t \in Slots : task[t] = Idle /\ Leaves(t) /\ task'[t].op = "consume"
        <3>1. PICK t \in Slots : task[t] = Idle /\ Leaves(t) /\ task'[t].op = "consume"
            BY <2>5
        <3>2. task[t].op # "setup"
            BY <3>1, IdleFits
        <3> QED
            BY <2>1, <2>2, <2>3, <3>1, <3>2, LightHold
    <2> QED
        BY <2>1, <2>4, <2>5
<1>4. CASE Over
    <2>1. Takes("over") /\ Ends({}) /\ EndsPage /\ Witness({Head(inbox).room})
        BY <1>4, OverDoes
    <2>2. /\ Shift(1) /\ 1 \in {0, 1} /\ Head(inbox).ev # "success" /\ UNCHANGED <<sent, srv>>
          /\ \A r : Head(inbox).room = r => Stale(1, r)
        BY <2>1, <1>1 DEF Stale
    <2>3. Calm
        BY <2>1, <2>2 DEF Calm, EndsPage
    <2>4. \A r \in Rooms \ strayed' : Holds(r) /\ Shows(r) /\ r \in {Head(inbox).room} => Due(r)'
        BY <2>2, StaleIsRenewed
    <2>5. \A u \in {} : task[u].op # "setup"
        OBVIOUS
    <2> QED
        BY <2>1, <2>2, <2>3, <2>4, <2>5, EndsHold
<1>5. CASE Rings
    <2>1. /\ Takes("incoming") /\ Witness({Head(inbox).room}) /\ strayed \subseteq strayed'
          /\ store'.state = "inComing" /\ UNCHANGED task
        BY <1>5, RingsDoes
    <2>2. /\ Shift(1) /\ 1 \in {0, 1} /\ Head(inbox).ev # "success" /\ Head(inbox).ev # "over"
          /\ UNCHANGED <<sent, srv>>
          /\ \A r : Head(inbox).room = r => Stale(1, r)
        BY <2>1, <1>1 DEF Stale
    <2>3. Calm
        BY <2>1, <2>2 DEF Calm
    <2>4. \A r \in Rooms \ strayed' : Holds(r) /\ Shows(r) => Due(r)'
        <3>1. Held(store') = NoRoom
            BY <2>1 DEF Held, Live
        <3>2. \A r \in Rooms : Shows(r) => Held(store) = r /\ r # NoRoom
            BY MediaClientAssumption DEF Shows, Held, Live
        <3>3. \A r \in Rooms \ strayed' : Shows(r) => r = Head(inbox).room
            BY <2>1, <3>1, <3>2 DEF Witness
        <3> QED
            BY <2>2, <3>3, StaleIsRenewed
    <2> QED
        BY <2>1, <2>2, <2>3, <2>4, HoldStays
<1>6. CASE UserJoined \/ UserLeft
    <2>1. /\ Takes("joined") \/ Takes("left")
          /\ store'.state = store.state /\ store'.room = store.room
          /\ UNCHANGED <<task, strayed>>
        BY <1>6, ComesDoes
    <2>2. /\ Shift(1) /\ 1 \in {0, 1} /\ Head(inbox).ev # "success" /\ Head(inbox).ev # "over"
          /\ UNCHANGED <<sent, srv>>
        BY <2>1, <1>1
    <2>3. Calm
        BY <2>1, <2>2 DEF Calm
    <2>4. \A r \in Rooms : Shows(r) => Due(r)'
        BY <2>1 DEF Due, Shows
    <2> QED
        BY <2>1, <2>2, <2>3, <2>4, HoldStays
<1> QED
    BY <1>2, <1>3, <1>4, <1>5, <1>6 DEF Events

LEMMA ClickHold ==
    ASSUME KTypeOK, Hold, Clicks
    PROVE  Hold'
<1>1. CASE ClickCancel \/ ClickAccept \/ ClickReject \/ ClickEndCall
    <2>1. /\ Clicked
          /\ \E op, at, room : Requests(op, at, room)
        BY <1>1, RequestsDo
    <2>2. PICK op, at, room : Requests(op, at, room)
        BY <2>1
    <2>3. PICK t \in Slots : task[t] = Idle /\ Leaves(t) /\ task'[t].request = "sent"
        BY <2>2 DEF Requests
    <2>4. UNCHANGED <<store, sent, strayed, inbox, srv>>
        BY <2>1, <2>2 DEF Requests, Clicked
    <2>5. Shift(0) /\ 0 \in {0, 1} /\ Calm
        BY <2>4 DEF Shift, Calm
    <2>6. task[t].op # "setup"
        BY <2>3, IdleFits
    <2> QED
        BY <2>3, <2>4, <2>5, <2>6, LightHold
<1>2. CASE \/ ClickMatch \/ \E c \in Chats : ClickRing(c)
           \/ \E kind \in Tracks : ClickToggle(kind)
    <2>1. Clicked /\ UNCHANGED sent
        BY <1>2, ClicksBegin
    <2>2. PICK k : Fresh(k) /\ Begin(k)
        BY <1>2, ClicksBegin
    <2>3. Shift(0) /\ 0 \in {0, 1} /\ srv' = srv
        BY <2>1 DEF Shift, Clicked
    <2> QED
        BY <2>1, <2>2, <2>3, BeginHold
<1>3. CASE ClickHangUp
    <2>1. /\ <<"leave", store.room>> \in sent' /\ sent \subseteq sent'
          /\ Ends({}) /\ EndsPage /\ Witness({store.room}) /\ UNCHANGED <<inbox, srv>>
        BY <1>3, HangUpDoes
    <2>2. Shift(0) /\ 0 \in {0, 1} /\ Calm
        BY <2>1 DEF Shift, Calm, EndsPage
    <2>3. \A r \in Rooms \ strayed' : Holds(r) /\ Shows(r) /\ r \in {store.room} => Due(r)'
        BY <2>1 DEF Due
    <2>4. \A u \in {} : task[u].op # "setup"
        OBVIOUS
    <2> QED
        BY <2>1, <2>2, <2>3, <2>4, EndsHold
<1>4. CASE StartShare \/ StopShare
    <2>1. /\ \E t \in Slots : task[t] = Idle /\ Leaves(t) /\ task'[t].op = "share"
          /\ UNCHANGED <<store, inbox, sent, srv, strayed>>
        BY <1>4, ShareDoes
    <2>2. PICK t \in Slots : task[t] = Idle /\ Leaves(t) /\ task'[t].op = "share"
        BY <2>1
    <2>3. Shift(0) /\ 0 \in {0, 1} /\ Calm
        BY <2>1 DEF Shift, Calm
    <2>4. task[t].op # "setup"
        BY <2>2, IdleFits
    <2> QED
        BY <2>1, <2>2, <2>3, <2>4, LightHold
<1> QED
    BY <1>1, <1>2, <1>3, <1>4 DEF Clicks

\* The server has told of r.
Told(ev, r) == \E i : News(i) /\ Says(i, ev, r)'

LEMMA LaterGrows ==
    ASSUME Grows, NEW ev, NEW r, NEW i \in 0..Len(inbox)
    PROVE  Later(i, ev, r) \/ Told(ev, r) => Later(i, ev, r)'
<1>1. ASSUME NEW j \in 1..Len(inbox), j > i, Says(j, ev, r)
      PROVE  Later(i, ev, r)'
    BY <1>1 DEF Later, Says, Grows
<1>2. ASSUME NEW j, News(j), Says(j, ev, r)'
      PROVE  Later(i, ev, r)'
    BY <1>2 DEF Later, News, Grows
<1> QED
    BY <1>1, <1>2 DEF Later, Told

\* A step of the server or of others: whom it takes in it tells, and it tells nobody it
\* holds that anything is over.
LEMMA HoldGrows ==
    ASSUME KTypeOK, Hold, Grows, Keeping, strayed \subseteq strayed',
           \A r \in Rooms : Holds(r)' => Holds(r) \/ Told("success", r),
           \A r \in Rooms : Holds(r)' => ~Told("over", r) /\ ~Told("incoming", r),
           \A r \in Rooms : <<"leave", r>> \in sent /\ Holds(r)' => <<"leave", r>> \in sent',
           \A c \in Chats : srv.ring[c] = "left" => srv'.ring[c] = "left" \/ Told("over", c),
           \A c \in Chats : srv'.ring[c] = "active" => srv.ring[c] = "active" \/ Told("success", c),
           \A t \in Slots, c \in Chats : EndsOf(task[t], c) /\ task'[t].request = "ok" =>
               task[t].request = "ok" \/ srv'.ring[c] = "left" \/ Told("over", c),
           \A t \in Slots, c \in Chats : \A i : EndsOf(task[t], c) /\ News(i) /\ EndedAt(i, t)' =>
               task[t].request = "ok" /\ srv'.ring = srv.ring
    PROVE  Hold'
<1>1. ASSUME NEW i \in 1..Len(inbox'), ~News(i)
      PROVE  i \in 1..Len(inbox) /\ i \in 0..Len(inbox) /\ inbox'[i] = inbox[i]
    BY <1>1 DEF News, Grows
<1>2. Renewed'
    <2> SUFFICES ASSUME NEW r \in Rooms, Holds(r)', NEW i \in 1..Len(inbox'), Stale(i, r)'
                 PROVE  Later(i, "success", r)'
        BY DEF Renewed
    <2>1. ~News(i)
        BY DEF Told, Stale
    <2>2. i \in 1..Len(inbox) /\ i \in 0..Len(inbox) /\ Stale(i, r)
        BY <1>1, <2>1 DEF Stale, Says
    <2>3. Holds(r) => Later(i, "success", r)
        BY <2>2 DEF Hold, Renewed
    <2> QED
        BY <2>2, <2>3, LaterGrows
<1>3. Shown'
    <2> SUFFICES ASSUME NEW r \in Rooms \ strayed', Holds(r)'
                 PROVE  Due(r)'
        BY DEF Shown
    <2>1. 0 \in 0..Len(inbox)
        BY DEF Grows
    <2>2. CASE Told("success", r)
        BY <2>1, <2>2, LaterGrows DEF Due
    <2>3. CASE Holds(r)
        <3>1. Due(r)
            BY <2>3 DEF Hold, Shown
        <3>2. Shows(r) => Shows(r)'
            BY DEF Shows, Keeping
        <3>3. Later(0, "success", r) => Later(0, "success", r)'
            BY <2>1, LaterGrows
        <3>4. (\E t \in Slots : Sets(task[t], r)) => \E t \in Slots : Sets(task'[t], r)
            BY DEF Sets, Keeping
        <3> QED
            BY <3>1, <3>2, <3>3, <3>4 DEF Due
    <2> QED
        BY <2>2, <2>3
<1>4. ASSUME NEW t \in Slots, NEW c \in Chats, EndsOf(task'[t], c), task'[t].request = "ok"
      PROVE  srv'.ring[c] = "left" \/ Later(0, "over", c)'
    <2>1. EndsOf(task[t], c) /\ 0 \in 0..Len(inbox)
        BY <1>4 DEF EndsOf, Keeping, Grows
    <2>2. Told("over", c) \/ Later(0, "over", c) => Later(0, "over", c)'
        BY <2>1, LaterGrows
    <2>3. task[t].request = "ok" => srv.ring[c] = "left" \/ Later(0, "over", c)
        BY <2>1 DEF Hold, Hanging
    <2> QED
        BY <1>4, <2>1, <2>2, <2>3
<1>5. ASSUME NEW t \in Slots, NEW c \in Chats, EndsOf(task'[t], c), NEW i \in 1..Len(inbox'),
             EndedAt(i, t)'
      PROVE  srv'.ring[c] # "active" \/ Past(i, c)' \/ Later(i, "success", c)'
    <2>1. EndsOf(task[t], c)
        BY <1>5 DEF EndsOf, Keeping
    <2>2. CASE News(i)
        <3>1. task[t].request = "ok" /\ srv'.ring = srv.ring
            BY <1>5, <2>1, <2>2
        <3>2. srv.ring[c] = "left" \/ Later(0, "over", c)
            BY <2>1, <3>1 DEF Hold, Hanging
        <3>3. ASSUME Later(0, "over", c)
              PROVE  Past(i, c)'
            BY <2>2, <3>3 DEF Later, Past, Says, Grows, News
        <3> QED
            BY <3>1, <3>2, <3>3
    <2>3. CASE ~News(i)
        <3>1. i \in 1..Len(inbox) /\ i \in 0..Len(inbox) /\ EndedAt(i, t)
            BY <1>1, <1>5, <2>3 DEF EndedAt
        <3>2. srv.ring[c] # "active" \/ Past(i, c) \/ Later(i, "success", c)
            BY <2>1, <3>1 DEF Hold, Hanging
        <3>3. Past(i, c) => Past(i, c)'
            BY DEF Past, Says, Grows
        <3> QED
            BY <3>1, <3>2, <3>3, LaterGrows
    <2> QED
        BY <2>2, <2>3
<1>6. Hanging'
    BY <1>4, <1>5 DEF Hanging
<1> QED
    BY <1>2, <1>3, <1>6 DEF Hold

LEMMA ServedKeeps ==
    ASSUME KTypeOK, NEW t \in Slots, Served(t)
    PROVE  Keeping /\ UNCHANGED <<sent, strayed>> /\ \A u \in Slots \ {t} : task'[u] = task[u]
    BY DEF Served, Keeping, Leaves

\* An answer, and nothing else, is sent.
LEMMA AnswersHold ==
    ASSUME KTypeOK, Hold, NEW t \in Slots, Served(t), srv' = srv, task'[t].request = "none",
           NEW w, Adds(Answer(t, w)), task[t].op = "end" /\ w = TRUE => task[t].request = "ok"
    PROVE  Hold'
<1>1. Keeping /\ UNCHANGED <<sent, strayed>> /\ \A u \in Slots \ {t} : task'[u] = task[u]
    BY ServedKeeps
<1>2. Grows /\ \A i : News(i) => inbox'[i] = Answer(t, w)
    BY GrowsIs
<1>3. \A i : News(i) => inbox'[i].ev = "answer" /\ inbox'[i].room = t /\ inbox'[i].who = w
    BY <1>2, AnswerFields
<1>4. \A r : ~Told("over", r) /\ ~Told("incoming", r)
    BY <1>3 DEF Told, Says
<1>5. \A u \in Slots, c \in Chats : \A i : EndsOf(task[u], c) /\ News(i) /\ EndedAt(i, u)' =>
          task[u].request = "ok"
    BY <1>3 DEF EndedAt, EndsOf
<1>6. \A r : Holds(r)' <=> Holds(r)
    BY DEF Holds
<1>7. \A u \in Slots : task'[u].request = "ok" => task[u].request = "ok"
    BY <1>1
<1> QED
    BY <1>1, <1>2, <1>4, <1>5, <1>6, <1>7, HoldGrows
\* No function that ends a call learns of it.
Unheard ==
    /\ \A t \in Slots : task[t].op = "end" /\ task'[t].request = "ok" => task[t].request = "ok"
    /\ \A i : News(i) /\ inbox'[i].ev = "answer" => task[inbox'[i].room].op # "end"

LEMMA UnheardEnds ==
    ASSUME KTypeOK, Unheard
    PROVE  /\ \A t \in Slots, c \in Chats : EndsOf(task[t], c) /\ task'[t].request = "ok" =>
                  task[t].request = "ok"
           /\ \A t \in Slots, c \in Chats : \A i : ~(EndsOf(task[t], c) /\ News(i) /\ EndedAt(i, t)')
BY DEF Unheard, EndsOf, EndedAt

LEMMA SameUnheard ==
    ASSUME task' = task, \A i : News(i) => inbox'[i].ev # "answer"
    PROVE  Unheard
BY DEF Unheard

\* Nobody is taken in, and who is told that it is over is not held.
LEMMA TellsHold ==
    ASSUME KTypeOK, Hold, Grows, Keeping, Unheard, strayed \subseteq strayed',
           srv'.ring = srv.ring, srv'.seats \subseteq srv.seats,
           \A r \in Rooms : <<"leave", r>> \in sent /\ Holds(r)' => <<"leave", r>> \in sent',
           \A i : News(i) => /\ inbox'[i].ev # "incoming"
                             /\ inbox'[i].ev = "over" => inbox'[i].room \notin srv'.seats
    PROVE  Hold'
<1>1. \A r : ~Told("incoming", r)
    BY DEF Told, Says
<1>2. \A r \in Rooms : Holds(r)' => Holds(r) /\ ~Told("over", r)
    BY DEF Holds, Told, Says
<1> QED
    BY <1>1, <1>2, UnheardEnds, HoldGrows

\* The call of c is over, and so it is told.
LEMMA EmptiedHold ==
    ASSUME KTypeOK, Hold, Keeping, NEW c \in Chats, Emptied(c), Adds(Event("over", c, {})),
           strayed' = strayed,
           \A r \in Rooms : <<"leave", r>> \in sent => <<"leave", r>> \in sent',
           \A t \in Slots : task[t].op = "end" /\ task'[t].request = "ok" =>
               task[t].request = "ok" \/ task[t].room = c
    PROVE  Hold'
<1>1. /\ Grows /\ \A i : News(i) => inbox'[i] = Event("over", c, {})
      /\ \E i : News(i) /\ inbox'[i] = Event("over", c, {})
    BY GrowsIs
<1>2. /\ \A i : News(i) => inbox'[i].ev = "over" /\ inbox'[i].room = c
      /\ \E i : News(i) /\ inbox'[i].ev = "over" /\ inbox'[i].room = c
    BY <1>1, EventFields
<1>3. Told("over", c) /\ \A r : ~Told("incoming", r) /\ (Told("over", r) => r = c)
    BY <1>2 DEF Told, Says
<1>4. srv'.seats = srv.seats /\ srv'.ring = [srv.ring EXCEPT ![c] = "none"]
      /\ srv.ring \in [Chats -> Rings4]
    BY SrvFields DEF Emptied
<1>5. srv'.ring[c] = "none" /\ \A d \in Chats \ {c} : srv'.ring[d] = srv.ring[d]
    BY <1>4
<1>6. \A r \in Rooms : Holds(r)' => Holds(r) /\ r # c
    BY <1>4, <1>5 DEF Holds
<1>7. \A d \in Chats : /\ srv.ring[d] = "left" => srv'.ring[d] = "left" \/ Told("over", d)
                       /\ srv'.ring[d] = "active" => srv.ring[d] = "active"
    BY <1>3, <1>5
<1>8. \A t \in Slots, d \in Chats : EndsOf(task[t], d) /\ task'[t].request = "ok" =>
          task[t].request = "ok" \/ Told("over", d)
    BY <1>3 DEF EndsOf
<1>9. \A t \in Slots : \A i : ~(News(i) /\ EndedAt(i, t)')
    BY <1>2 DEF EndedAt
<1> QED
    BY <1>1, <1>3, <1>6, <1>7, <1>8, <1>9, HoldGrows

\* The user is taken in, and so it is told.
LEMMA TakenInHold ==
    ASSUME KTypeOK, Hold, Grows, Keeping, Unheard, strayed' = strayed, sent' = sent,
           NEW r \in Rooms, Told("success", r), srv'.seats = srv.seats \union {r},
           \/ srv'.ring = srv.ring
           \/ /\ r \in Chats /\ srv.ring[r] # "left"
              /\ srv'.ring = [srv.ring EXCEPT ![r] = "active"],
           \A i : News(i) => inbox'[i].ev \notin {"over", "incoming"}
    PROVE  Hold'
<1>1. \A q : ~Told("over", q) /\ ~Told("incoming", q)
    BY DEF Told, Says
<1>2. srv.ring \in [Chats -> Rings4]
    BY SrvFields
<1>3. \A c \in Chats \ {r} : srv'.ring[c] = srv.ring[c]
    BY <1>2
<1>4. \A q \in Rooms : Holds(q)' => Holds(q) \/ Told("success", q)
    BY <1>3 DEF Holds
<1>5. \A c \in Chats : /\ srv.ring[c] = "left" => srv'.ring[c] = "left"
                       /\ srv'.ring[c] = "active" => srv.ring[c] = "active" \/ Told("success", c)
    BY <1>3
<1> QED
    BY <1>1, <1>4, <1>5, UnheardEnds, HoldGrows

\* The call is left, and the others go on.
LEMMA LeftOnHold ==
    ASSUME KTypeOK, Hold, Keeping, NEW c \in Chats, inbox' = inbox, srv'.seats = srv.seats,
           srv'.ring = [srv.ring EXCEPT ![c] = "left"], strayed' = strayed,
           \A r \in Rooms : <<"leave", r>> \in sent => <<"leave", r>> \in sent',
           \A t \in Slots : task[t].op = "end" /\ task'[t].request = "ok" =>
               task[t].request = "ok" \/ task[t].room = c
    PROVE  Hold'
<1>1. Grows /\ \A i : ~News(i)
    BY GrowsIs
<1>2. \A q : ~Told("over", q) /\ ~Told("incoming", q)
    BY <1>1 DEF Told
<1>3. srv.ring \in [Chats -> Rings4]
    BY SrvFields
<1>4. srv'.ring[c] = "left" /\ \A d \in Chats \ {c} : srv'.ring[d] = srv.ring[d]
    BY <1>3
<1>5. \A q \in Rooms : Holds(q)' => Holds(q)
    BY <1>4 DEF Holds
<1>6. \A d \in Chats : /\ srv.ring[d] = "left" => srv'.ring[d] = "left"
                       /\ srv'.ring[d] = "active" => srv.ring[d] = "active"
    BY <1>4
<1>7. \A t \in Slots, d \in Chats : EndsOf(task[t], d) /\ task'[t].request = "ok" =>
          task[t].request = "ok" \/ srv'.ring[d] = "left"
    BY <1>4 DEF EndsOf
<1> QED
    BY <1>1, <1>2, <1>5, <1>6, <1>7, HoldGrows

LEMMA CallEndsHold ==
    ASSUME KTypeOK, Hold, Keeping, NEW c \in Chats, EndsCall(c), strayed' = strayed,
           task' \in [Slots -> TaskType],
           \A u \in Slots : SamePoint(task'[u], task[u]) \/ Unanswered(task[u]),
           \A r \in Rooms : <<"leave", r>> \in sent => <<"leave", r>> \in sent',
           \A t \in Slots : task[t].op = "end" /\ task'[t].request = "ok" =>
               \/ task[t].request = "ok"
               \/ task[t].room = c /\ srv.ring[c] \notin {"none", "others"}
    PROVE  Hold'
<1>1. CASE Emptied(c) /\ Sends("over", c, {})
    <2>1. Event("over", c, {}) \in Message
        BY EventsAre DEF Rooms
    <2>2. Adds(Event("over", c, {}))
        BY <1>1, <2>1, SendsAdd
    <2> QED
        BY <1>1, <2>2, EmptiedHold
<1>2. CASE srv'.seats = srv.seats /\ srv'.ring = [srv.ring EXCEPT ![c] = "left"] /\ inbox' = inbox
    BY <1>2, LeftOnHold
<1>3. CASE srv.ring[c] \notin {"active", "mine", "theirs"} /\ UNCHANGED <<srv, inbox>>
    <2>1. CASE srv.ring[c] = "left"
        <3>1. srv'.ring = [srv.ring EXCEPT ![c] = "left"] /\ srv'.seats = srv.seats
            BY <1>3, <2>1, SrvFields
        <3> QED
            BY <1>3, <3>1, LeftOnHold
    <2>2. CASE srv.ring[c] # "left"
        <3>1. srv.ring[c] \in {"none", "others"}
            BY <1>3, <2>2, SrvFields DEF Rings4
        <3>2. Grows /\ \A i : ~News(i)
            BY <1>3, GrowsIs
        <3>3. Unheard
            BY <3>1, <3>2 DEF Unheard
        <3> QED
            BY <1>3, <3>2, <3>3, TellsHold
    <2> QED
        BY <2>1, <2>2
<1> QED
    BY <1>1, <1>2, <1>3 DEF EndsCall
\* A call begins to ring, for a friend or for the user.
LEMMA RungHold ==
    ASSUME KTypeOK, Hold, Grows, Keeping, Unheard, strayed' = strayed, sent' = sent,
           NEW c \in Chats, NEW to \in {"mine", "theirs"}, srv.ring[c] = "none",
           srv'.ring = [srv.ring EXCEPT ![c] = to], srv'.seats = srv.seats,
           \A i : News(i) => \/ inbox'[i].ev = "answer"
                             \/ inbox'[i].ev = "incoming" /\ inbox'[i].room = c
    PROVE  Hold'
<1>1. srv.ring \in [Chats -> Rings4]
    BY SrvFields
<1>2. srv'.ring[c] = to /\ \A d \in Chats \ {c} : srv'.ring[d] = srv.ring[d]
    BY <1>1
<1>3. \A q \in Rooms : Holds(q)' => Holds(q) /\ q # c
    BY <1>2 DEF Holds
<1>4. \A q : ~Told("over", q) /\ (Told("incoming", q) => q = c)
    BY DEF Told, Says
<1>5. \A d \in Chats : /\ srv.ring[d] = "left" => srv'.ring[d] = "left"
                       /\ srv'.ring[d] = "active" => srv.ring[d] = "active"
    BY <1>2
<1> QED
    BY <1>3, <1>4, <1>5, UnheardEnds, HoldGrows

LEMMA ToldFirst ==
    ASSUME KTypeOK, NEW ev, NEW r, NEW who, NEW n, AddsTwo(Event(ev, r, who), n)
    PROVE  Grows /\ Told(ev, r) /\ \A i : News(i) => inbox'[i] = Event(ev, r, who) \/ inbox'[i] = n
<1>1. Grows /\ \A i : News(i) => inbox'[i] = Event(ev, r, who) \/ inbox'[i] = n
    BY GrowsIs
<1>2. News(Len(inbox) + 1) /\ inbox'[Len(inbox) + 1] = Event(ev, r, who)
    BY DEF AddsTwo, News
<1>3. Told(ev, r)
    BY <1>2, EventFields DEF Told, Says
<1> QED
    BY <1>1, <1>3

LEMMA ServeRingHold ==
    ASSUME KTypeOK, Hold, NEW t \in Slots, ServeRing(t)
    PROVE  Hold'
<1>1. /\ Served(t) /\ task[t].op = "ring" /\ task[t].room \in Chats /\ task'[t].request = "none"
    BY ServeRingDoes
<1>2. PICK ok \in BOOLEAN :
          /\ Adds(Answer(t, ok))
          /\ \/ srv' = srv
             \/ srv.ring[task[t].room] = "none" /\ srv' = Ring(task[t].room, "mine")
    BY ServeRingDoes
<1>3. CASE srv' = srv
    BY <1>1, <1>2, <1>3, AnswersHold
<1>4. CASE srv.ring[task[t].room] = "none" /\ srv' = Ring(task[t].room, "mine")
    <2>1. Keeping /\ UNCHANGED <<sent, strayed>> /\ \A u \in Slots \ {t} : task'[u] = task[u]
        BY <1>1, ServedKeeps
    <2>2. Grows /\ \A i : News(i) => inbox'[i] = Answer(t, ok)
        BY <1>2, GrowsIs
    <2>3. \A i : News(i) => inbox'[i].ev = "answer" /\ inbox'[i].room = t
        BY <2>2, AnswerFields
    <2>4. Unheard
        BY <1>1, <2>1, <2>3 DEF Unheard
    <2>5. "mine" \in Rings4
        BY DEF Rings4
    <2>6. srv'.ring = [srv.ring EXCEPT ![task[t].room] = "mine"] /\ srv'.seats = srv.seats
        BY <1>1, <1>4, <2>5, RingIs
    <2> QED
        BY <1>1, <1>4, <2>1, <2>2, <2>3, <2>4, <2>6, RungHold
<1> QED
    BY <1>2, <1>3, <1>4

LEMMA ServeAcceptHold ==
    ASSUME KTypeOK, Hold, NEW t \in Slots, ServeAccept(t)
    PROVE  Hold'
<1> DEFINE c == task[t].room
<1>1. /\ Served(t) /\ task[t].op = "accept" /\ c \in Chats /\ task'[t].request = "none"
      /\ \/ Adds(Answer(t, FALSE)) /\ srv' = srv
         \/ /\ srv.ring[c] \in {"theirs", "others"}
            /\ AddsTwo(Event("success", c, {}), Answer(t, TRUE))
            /\ srv'.ring = [srv.ring EXCEPT ![c] = "active"]
            /\ srv'.seats = srv.seats \union {c}
    BY ServeAcceptDoes
<1>2. CASE Adds(Answer(t, FALSE)) /\ srv' = srv
    BY <1>1, <1>2, AnswersHold
<1>3. CASE /\ srv.ring[c] \in {"theirs", "others"}
           /\ AddsTwo(Event("success", c, {}), Answer(t, TRUE))
           /\ srv'.ring = [srv.ring EXCEPT ![c] = "active"]
           /\ srv'.seats = srv.seats \union {c}
    <2>1. Keeping /\ UNCHANGED <<sent, strayed>> /\ \A u \in Slots \ {t} : task'[u] = task[u]
        BY <1>1, ServedKeeps
    <2> DEFINE m == Answer(t, TRUE)
    <2>7. m.ev = "answer" /\ m.room = t /\ AddsTwo(Event("success", c, {}), m)
        BY <1>3 DEF Answer
    <2> HIDE DEF c, m
    <2>2. /\ Grows /\ Told("success", c)
          /\ \A i : News(i) => inbox'[i] = Event("success", c, {}) \/ inbox'[i] = m
        BY <2>7, ToldFirst
    <2>3. Event("success", c, {}).ev = "success"
        BY EventFields
    <2>4. \A i : News(i) => \/ inbox'[i].ev = "success"
                            \/ inbox'[i].ev = "answer" /\ inbox'[i].room = t
        BY <2>2, <2>3, <2>7
    <2>5. Unheard
        BY <1>1, <2>1, <2>4 DEF Unheard
    <2>6. \A i : News(i) => inbox'[i].ev \notin {"over", "incoming"}
        BY <2>4
    <2>8. c \in Rooms
        BY <1>1 DEF Rooms
    <2> QED
        BY <1>1, <1>3, <2>1, <2>2, <2>5, <2>6, <2>8, TakenInHold
<1> QED
    BY <1>1, <1>2, <1>3

LEMMA ServeEndHold ==
    ASSUME KTypeOK, Hold, NEW t \in Slots, ServeEnd(t)
    PROVE  Hold'
<1>1. /\ task[t].op = "end" /\ task[t].request = "sent" /\ task[t].room \in Chats
      /\ Served(t) /\ EndsCall(task[t].room)
      /\ task'[t].request = IF srv.ring[task[t].room] \in {"none", "others"} THEN "no" ELSE "ok"
    BY ServeEndDoes
<1>2. Keeping /\ UNCHANGED <<sent, strayed>> /\ \A u \in Slots \ {t} : task'[u] = task[u]
    BY <1>1, ServedKeeps
<1>3. /\ task' \in [Slots -> TaskType]
      /\ \A u \in Slots : SamePoint(task'[u], task[u]) \/ Unanswered(task[u])
    BY <1>1, <1>2 DEF Served, Leaves, SamePoint, Unanswered
<1>4. \A u \in Slots : task[u].op = "end" /\ task'[u].request = "ok" =>
          \/ task[u].request = "ok"
          \/ task[u].room = task[t].room /\ srv.ring[task[t].room] \notin {"none", "others"}
    BY <1>1, <1>2
<1> QED
    BY <1>1, <1>2, <1>3, <1>4, CallEndsHold

LEMMA ServeHold ==
    ASSUME KTypeOK, Hold, NEW t \in Slots, Serve(t)
    PROVE  Hold'
<1>1. CASE ServeMatch(t)
    <2>1. /\ Served(t) /\ UNCHANGED inbox /\ task[t].op \in {"match", "cancel"}
          /\ srv'.seats = srv.seats /\ srv'.ring = srv.ring
        BY <1>1, ServeMatchDoes
    <2>2. Keeping /\ UNCHANGED <<sent, strayed>> /\ \A u \in Slots \ {t} : task'[u] = task[u]
        BY <2>1, ServedKeeps
    <2>3. Grows /\ \A i : ~News(i)
        BY <2>1, GrowsIs
    <2>4. Unheard
        BY <2>1, <2>2, <2>3 DEF Unheard
    <2> QED
        BY <2>1, <2>2, <2>3, <2>4, TellsHold
<1>2. CASE ServeRing(t)
    BY <1>2, ServeRingHold
<1>3. CASE ServeAccept(t)
    BY <1>3, ServeAcceptHold
<1>4. CASE ServeReject(t)
    <2>1. task[t].op = "reject" /\ Served(t) /\ srv' = srv /\ task'[t].request = "none"
        BY <1>4, ServeRejectDoes
    <2>2. PICK ok \in BOOLEAN : Adds(Answer(t, ok))
        BY <1>4, ServeRejectDoes
    <2> QED
        BY <2>1, <2>2, AnswersHold
<1>5. CASE ServeExisting(t)
    <2>1. /\ task[t].op = "accept" /\ Served(t) /\ srv' = srv /\ task'[t].request = "none"
          /\ Adds(Answer(t, TRUE))
        BY <1>5, ServeExistingDoes
    <2> QED
        BY <2>1, AnswersHold
<1>6. CASE ServeEnd(t)
    BY <1>6, ServeEndHold
<1>7. CASE Reply(t)
    <2>1. Served(t) /\ srv' = srv /\ task'[t].request = "none"
        BY <1>7, ReplyDoes
    <2>2. PICK ok \in BOOLEAN : Adds(Answer(t, ok)) /\ ok = (task[t].request = "ok")
        BY <1>7, ReplyDoes
    <2>3. ok = TRUE => task[t].request = "ok"
        BY <2>2
    <2> QED
        BY <2>1, <2>2, <2>3, AnswersHold
<1>8. CASE ServeMedia(t)
    <2>1. /\ task[t].at \in {"send", "recv", "video", "audio", "screen", "turn", "shared"}
          /\ Served(t) /\ srv' = srv /\ task'[t].request = "none" /\ Adds(Answer(t, TRUE))
        BY <1>8, ServeMediaDoes
    <2>2. Route(task[t].op, task[t].at)
        BY FitsIs DEF WellFormed
    <2>3. task[t].op # "end"
        BY <2>1, <2>2, PointOfOne DEF Route, Tracks
    <2> QED
        BY <2>1, <2>3, AnswersHold
<1>9. CASE ServeConsume(t)
    <2>1. task[t].op = "consume" /\ Served(t) /\ srv' = srv /\ task'[t].request = "none"
        BY <1>9, ServeConsumeDoes
    <2>2. PICK p \in task[t].left : Adds(Answer(t, IF p \in srv.feeds THEN p ELSE {}))
        BY <1>9, ServeConsumeDoes
    <2> QED
        BY <2>1, <2>2, AnswersHold
<1>10. CASE NoAnswer(t)
    <2>1. /\ task'[t] = Idle /\ Leaves(t)
          /\ IF task[t].op = "setup" THEN strayed' = strayed \union {task[t].room}
             ELSE strayed' = strayed
          /\ UNCHANGED <<store, srv, inbox, sent>>
        BY <1>10, NoAnswerDoes
    <2>2. Shift(0) /\ 0 \in {0, 1} /\ Calm /\ Closes(t)
        BY <2>1, LeavesCloses DEF Shift, Calm
    <2>3. task'[t].op # "end"
        BY <2>1, IdleFits
    <2>4. \A r \in Rooms : Shows(r) => Due(r)'
        BY <2>1 DEF Due, Shows
    <2>5. \A r \in Rooms \ strayed' : ~Sets(task[t], r)
        BY <2>1 DEF Sets
    <2> QED
        BY <2>2, <2>3, <2>4, <2>5, HoldSteps
<1> QED
    BY <1>1, <1>2, <1>3, <1>4, <1>5, <1>6, <1>7, <1>8, <1>9, <1>10 DEF Serve
LEMMA ApartKeeps ==
    ASSUME KTypeOK, Apart
    PROVE  /\ Keeping /\ task' = task /\ task' \in [Slots -> TaskType]
           /\ \A u \in Slots : SamePoint(task'[u], task[u]) \/ Unanswered(task[u])
BY ApartIs DEF Apart, Keeping

LEMMA EmissionsHold ==
    ASSUME KTypeOK, Hold, Emissions
    PROVE  Hold'
<1>1. ASSUME NEW r \in Rooms, TakeLeave(r)
      PROVE  Hold'
    <2>1. /\ Apart /\ inbox' = inbox /\ sent' = sent \ {<<"leave", r>>}
          /\ srv'.seats = srv.seats \ {r} /\ srv'.ring = srv.ring
          /\ strayed' = (IF Again(r) THEN strayed \union {r} ELSE strayed)
        BY <1>1, TakeLeaveDoes
    <2>2. Grows /\ \A i : ~News(i)
        BY <2>1, GrowsIs
    <2>3. Keeping /\ Unheard
        BY <2>1, <2>2, ApartKeeps, SameUnheard
    <2>4. \A q \in Rooms : <<"leave", q>> \in sent /\ Holds(q)' => <<"leave", q>> \in sent'
        <3> SUFFICES ASSUME NEW q \in Rooms, <<"leave", q>> \in sent, Holds(q)'
                     PROVE  <<"leave", q>> \in sent'
            OBVIOUS
        <3>1. q # r
            BY <2>1 DEF Holds
        <3>2. <<"leave", q>> # <<"leave", r>>
            BY <3>1, EmissionsDiffer
        <3> QED
            BY <2>1, <3>2
    <2>5. strayed \subseteq strayed'
        BY <2>1
    <2> QED
        BY <2>1, <2>2, <2>3, <2>4, <2>5, TellsHold
<1>2. ASSUME NEW c \in Chats, TakeEnd(c)
      PROVE  Hold'
    <2>1. /\ Apart /\ EndsCall(c) /\ UNCHANGED strayed /\ sent' = sent \ {<<"end", c>>}
        BY <1>2, TakeEndDoes
    <2>2. \A q \in Rooms : <<"leave", q>> \in sent => <<"leave", q>> \in sent'
        BY <2>1, EmissionsDiffer
    <2> QED
        BY <2>1, <2>2, ApartKeeps, CallEndsHold
<1>3. ASSUME NEW r \in Rooms, TakeFeeds(r)
      PROVE  Hold'
    <2>1. /\ Apart /\ UNCHANGED <<srv, strayed>> /\ sent' = sent \ {<<"feeds", r>>}
          /\ \/ inbox' = inbox
             \/ Adds(Event("new", r, srv.feeds \intersect srv.present[r]))
        BY <1>3, TakeFeedsDoes
    <2>2. Grows /\ \A i : News(i) => inbox'[i] = Event("new", r, srv.feeds \intersect srv.present[r])
        BY <2>1, GrowsIs
    <2>3. \A i : News(i) => inbox'[i].ev = "new"
        BY <2>2, EventFields
    <2>4. Keeping /\ Unheard
        BY <2>1, <2>3, ApartKeeps, SameUnheard
    <2>5. \A q \in Rooms : <<"leave", q>> \in sent => <<"leave", q>> \in sent'
        BY <2>1, EmissionsDiffer
    <2> QED
        BY <2>1, <2>2, <2>3, <2>4, <2>5, TellsHold
<1>4. ASSUME NEW r \in Rooms, NEW p \in Members[r], MateLeft(r, p)
      PROVE  Hold'
    <2>1. /\ Apart /\ UNCHANGED strayed /\ sent' = sent \ {<<"left", r, p>>}
          /\ srv'.ring = srv.ring
        BY <1>4, MateLeftDoes
    <2>2. /\ srv'.seats \subseteq srv.seats
          /\ \/ inbox' = inbox
             \/ srv'.seats = srv.seats \ {r} /\ Adds(Event("over", r, {}))
             \/ Adds(Event("left", r, p))
        BY <1>4, MateLeftDoes
    <2>3. /\ Grows
          /\ \A i : News(i) => \/ inbox'[i].ev = "over" /\ inbox'[i].room = r /\ r \notin srv'.seats
                               \/ inbox'[i].ev = "left"
        <3>1. CASE inbox' = inbox
            BY <3>1, GrowsIs
        <3>2. CASE srv'.seats = srv.seats \ {r} /\ Adds(Event("over", r, {}))
            <4>1. Grows /\ \A i : News(i) => inbox'[i] = Event("over", r, {})
                BY <3>2, GrowsIs
            <4> QED
                BY <3>2, <4>1, EventFields
        <3>3. CASE Adds(Event("left", r, p))
            <4>1. Grows /\ \A i : News(i) => inbox'[i] = Event("left", r, p)
                BY <3>3, GrowsIs
            <4> QED
                BY <4>1, EventFields
        <3> QED
            BY <2>2, <3>1, <3>2, <3>3
    <2>4. \A i : News(i) => inbox'[i].ev # "answer"
        BY <2>3
    <2>5. Keeping /\ Unheard
        BY <2>1, <2>4, ApartKeeps, SameUnheard
    <2>6. \A q \in Rooms : <<"leave", q>> \in sent => <<"leave", q>> \in sent'
        BY <2>1, EmissionsDiffer
    <2>7. \A i : News(i) => /\ inbox'[i].ev # "incoming"
                            /\ inbox'[i].ev = "over" => inbox'[i].room \notin srv'.seats
        BY <2>3
    <2> QED
        BY <2>1, <2>2, <2>3, <2>5, <2>6, <2>7, TellsHold
<1>5. ASSUME NEW c \in Chats, NEW p \in Members[c], MateEnds(c, p)
      PROVE  Hold'
    <2>1. /\ Apart /\ UNCHANGED strayed /\ sent' = sent \ {<<"ends", c, p>>}
          /\ \/ srv' = srv /\ inbox' = inbox
             \/ Emptied(c) /\ Adds(Event("over", c, {}))
             \/ srv' = srv /\ Adds(Event("left", c, p))
        BY <1>5, MateEndsDoes
    <2>2. \A q \in Rooms : <<"leave", q>> \in sent => <<"leave", q>> \in sent'
        BY <2>1, EmissionsDiffer
    <2>3. CASE Emptied(c) /\ Adds(Event("over", c, {}))
        <3>1. \A t \in Slots : task'[t].request = "ok" => task[t].request = "ok"
            BY <2>1, ApartKeeps
        <3> QED
            BY <2>1, <2>2, <2>3, <3>1, ApartKeeps, EmptiedHold
    <2>4. CASE srv' = srv /\ (inbox' = inbox \/ Adds(Event("left", c, p)))
        <3>1. Grows /\ \A i : News(i) => inbox'[i] = Event("left", c, p)
            BY <2>4, GrowsIs
        <3>2. \A i : News(i) => inbox'[i].ev = "left"
            BY <3>1, EventFields
        <3>3. Keeping /\ Unheard
            BY <2>1, <3>2, ApartKeeps, SameUnheard
        <3> QED
            BY <2>1, <2>2, <2>4, <3>1, <3>2, <3>3, TellsHold
    <2> QED
        BY <2>1, <2>3, <2>4
<1> QED
    BY <1>1, <1>2, <1>3, <1>4, <1>5 DEF Emissions

LEMMA OthersHold ==
    ASSUME KTypeOK, Hold, Others
    PROVE  Hold'
<1>1. ASSUME NEW r \in MatchRooms, Match(r)
      PROVE  Hold'
    <2>1. /\ Apart /\ UNCHANGED <<strayed, sent>> /\ srv'.seats = srv.seats \union {r}
          /\ srv'.ring = srv.ring /\ Adds(Event("success", r, {}))
        BY <1>1, MatchDoes
    <2>2. /\ Grows /\ \A i : News(i) => inbox'[i] = Event("success", r, {})
          /\ \E i : News(i) /\ inbox'[i] = Event("success", r, {})
        BY <2>1, GrowsIs
    <2>3. /\ \A i : News(i) => inbox'[i].ev = "success"
          /\ Told("success", r)
        BY <2>2, EventFields DEF Told, Says
    <2>4. Keeping /\ Unheard
        BY <2>1, <2>3, ApartKeeps, SameUnheard
    <2>5. r \in Rooms
        BY DEF Rooms
    <2> QED
        BY <2>1, <2>2, <2>3, <2>4, <2>5, TakenInHold
<1>2. ASSUME NEW r \in Rooms, NEW p \in Members[r], MateHangsUp(r, p)
      PROVE  Hold'
    <2>1. /\ Apart /\ UNCHANGED <<strayed, srv, inbox>> /\ sent \subseteq sent'
        BY <1>2, MateHangsUpDoes
    <2>2. Grows /\ \A i : ~News(i)
        BY <2>1, GrowsIs
    <2>3. Keeping /\ Unheard
        BY <2>1, <2>2, ApartKeeps, SameUnheard
    <2> QED
        BY <2>1, <2>2, <2>3, TellsHold
<1>3. ASSUME NEW r \in Rooms, NEW p \in Members[r], MateProduces(r, p)
      PROVE  Hold'
    <2>1. /\ Apart /\ UNCHANGED <<strayed, sent>> /\ srv'.seats = srv.seats
          /\ srv'.ring = srv.ring
          /\ inbox' = inbox \/ Adds(Event("new", r, {p}))
        BY <1>3, MateProducesDoes
    <2>2. Grows /\ \A i : News(i) => inbox'[i] = Event("new", r, {p})
        BY <2>1, GrowsIs
    <2>3. \A i : News(i) => inbox'[i].ev = "new"
        BY <2>2, EventFields
    <2>4. Keeping /\ Unheard
        BY <2>1, <2>3, ApartKeeps, SameUnheard
    <2> QED
        BY <2>1, <2>2, <2>3, <2>4, TellsHold
<1>4. ASSUME NEW c \in Chats, RingOver(c)
      PROVE  Hold'
    <2>1. /\ Apart /\ UNCHANGED <<strayed, sent>> /\ Emptied(c) /\ Adds(Event("over", c, {}))
        BY <1>4, RingOverDoes
    <2>2. \A t \in Slots : task'[t].request = "ok" => task[t].request = "ok"
        BY <2>1, ApartKeeps
    <2> QED
        BY <2>1, <2>2, ApartKeeps, EmptiedHold
<1>5. ASSUME NEW c \in Chats, NEW p \in Members[c], FriendCalls(c, p)
      PROVE  Hold'
    <2>1. /\ Apart /\ UNCHANGED <<strayed, sent>> /\ srv.ring[c] = "none"
          /\ srv'.seats = srv.seats /\ srv'.ring = [srv.ring EXCEPT ![c] = "theirs"]
          /\ Adds(Event("incoming", c, {}))
        BY <1>5, FriendCallsDoes
    <2>2. Grows /\ \A i : News(i) => inbox'[i] = Event("incoming", c, {})
        BY <2>1, GrowsIs
    <2>3. \A i : News(i) => inbox'[i].ev = "incoming" /\ inbox'[i].room = c
        BY <2>2, EventFields
    <2>4. Keeping /\ Unheard
        BY <2>1, <2>3, ApartKeeps, SameUnheard
    <2>5. "theirs" \in {"mine", "theirs"}
        OBVIOUS
    <2> QED
        BY <2>1, <2>2, <2>3, <2>4, <2>5, RungHold
<1>6. ASSUME NEW c \in Chats, NEW p \in Members[c], FriendAccepts(c, p)
      PROVE  Hold'
    <2>1. Apart /\ UNCHANGED <<strayed, sent>>
        BY <1>6, FriendAcceptsDoes
    <2>2. \/ /\ srv.ring[c] = "mine" /\ srv'.ring = [srv.ring EXCEPT ![c] = "active"]
             /\ srv'.seats = srv.seats \union {c}
             /\ AddsTwo(Event("success", c, {}), Event("joined", c, p))
          \/ /\ srv.ring[c] = "theirs" /\ srv'.ring = [srv.ring EXCEPT ![c] = "others"]
             /\ srv'.seats = srv.seats /\ Adds(Event("joined", c, p))
          \/ /\ srv'.ring = srv.ring /\ srv'.seats = srv.seats /\ Adds(Event("joined", c, p))
        BY <1>6, FriendAcceptsDoes
    <2>3. CASE /\ srv.ring[c] = "mine" /\ srv'.ring = [srv.ring EXCEPT ![c] = "active"]
               /\ srv'.seats = srv.seats \union {c}
               /\ AddsTwo(Event("success", c, {}), Event("joined", c, p))
        <3>1. /\ Grows /\ Told("success", c)
              /\ \A i : News(i) => \/ inbox'[i] = Event("success", c, {})
                                   \/ inbox'[i] = Event("joined", c, p)
            BY <2>3, ToldFirst
        <3>2. \A i : News(i) => inbox'[i].ev \in {"success", "joined"}
            BY <3>1, EventFields
        <3>3. Keeping /\ Unheard
            BY <2>1, <3>2, ApartKeeps, SameUnheard
        <3>4. c \in Rooms
            BY DEF Rooms
        <3> QED
            BY <2>1, <2>3, <3>1, <3>2, <3>3, <3>4, TakenInHold
    <2>4. CASE /\ Adds(Event("joined", c, p)) /\ srv'.seats = srv.seats
               /\ \/ srv'.ring = srv.ring
                  \/ srv.ring[c] = "theirs" /\ srv'.ring = [srv.ring EXCEPT ![c] = "others"]
        <3>1. Grows /\ \A i : News(i) => inbox'[i] = Event("joined", c, p)
            BY <2>4, GrowsIs
        <3>2. \A i : News(i) => inbox'[i].ev = "joined"
            BY <3>1, EventFields
        <3>3. Keeping /\ Unheard
            BY <2>1, <3>2, ApartKeeps, SameUnheard
        <3>4. CASE srv'.ring = srv.ring
            BY <2>1, <2>4, <3>1, <3>2, <3>3, <3>4, TellsHold
        <3>5. CASE srv.ring[c] = "theirs" /\ srv'.ring = [srv.ring EXCEPT ![c] = "others"]
            <4>1. srv.ring \in [Chats -> Rings4]
                BY SrvFields
            <4>2. srv'.ring[c] = "others" /\ \A d \in Chats \ {c} : srv'.ring[d] = srv.ring[d]
                BY <3>5, <4>1
            <4>3. \A q \in Rooms : Holds(q)' => Holds(q)
                BY <2>4, <4>2 DEF Holds
            <4>4. \A q : ~Told("over", q) /\ ~Told("incoming", q)
                BY <3>2 DEF Told, Says
            <4>5. \A d \in Chats : /\ srv.ring[d] = "left" => srv'.ring[d] = "left"
                                   /\ srv'.ring[d] = "active" => srv.ring[d] = "active"
                BY <3>5, <4>2
            <4> QED
                BY <2>1, <3>1, <3>3, <4>3, <4>4, <4>5, UnheardEnds, HoldGrows
        <3> QED
            BY <2>4, <3>4, <3>5
    <2> QED
        BY <2>2, <2>3, <2>4
<1> QED
    BY <1>1, <1>2, <1>3, <1>4, <1>5, <1>6 DEF Others

LEMMA LostHold ==
    ASSUME KTypeOK, ConnectionLost
    PROVE  Hold'
<1>1. inbox' = <<>> /\ Len(inbox') = 0 /\ srv'.seats = {}
    BY ConnectionLostDoes DEF Drops
<1>2. \A r \in Rooms : ~Holds(r)'
    BY <1>1 DEF Holds
<1>3. \A t \in Slots : task'[t].op # "end"
    <2> SUFFICES ASSUME NEW t \in Slots, task'[t].op = "end" PROVE FALSE
        OBVIOUS
    <2>1. task'[t] = task[t] /\ ~Awaits(task[t].at)
        BY LostTask
    <2>2. Route(task[t].op, task[t].at)
        BY FitsIs DEF WellFormed
    <2> QED
        BY <2>1, <2>2 DEF Route, Awaits, Tracks
<1>4. Renewed' /\ Shown'
    BY <1>2 DEF Renewed, Shown
<1>5. Hanging'
    BY <1>3 DEF Hanging, EndsOf
<1> QED
    BY <1>4, <1>5 DEF Hold

LEMMA StepHold ==
    ASSUME KTypeOK, Hold, [KNext]_kvars
    PROVE  Hold'
<1>1. CASE UNCHANGED kvars
    <2>1. /\ Shift(0) /\ 0 \in {0, 1} /\ Calm /\ task' = task
          /\ \A r : Shows(r) => Due(r)'
        BY <1>1 DEF kvars, Shift, Calm, Due, Shows
    <2> QED
        BY <2>1, HoldStays
<1>2. CASE KNext
    BY <1>2, CameraHold, SetupHold, ResumeHold, ServeHold, EventHold, ClickHold, EmissionsHold,
       OthersHold, LostHold DEF KNext
<1> QED
    BY <1>1, <1>2
-----------------------------------------------------------------------------
(* Whom the server has in the queue, the page shows it.                    *)

Seeks(k) == k.op = "match" /\ k.at = "match"
Withdraws(k) == k.op = "cancel"
Meets(k) == k.op = "setup" /\ k.at = "camera" /\ ~k.crossed /\ k.room \in MatchRooms
Matched(n) == \E i \in 1..Len(inbox) : i > n /\ inbox[i].ev = "success" /\ inbox[i].room \in MatchRooms
Waits == store.state = "inMatchWait"

\* One looks for a match, and nobody takes it back meanwhile.
Lone == \A t, u \in Slots : Seeks(task[t]) /\ (Seeks(task[u]) \/ Withdraws(task[u])) => t = u
Wanted == \A t \in Slots : Seeks(task[t]) => ~Waits /\ (task[t].request = "sent" => ~srv.queue)
Awaited == srv.queue \/ Matched(0) =>
               Waits \/ \E t \in Slots : Seeks(task[t]) \/ Withdraws(task[t])

\* Nobody has been found as long as one is looked for, and then only one has.
Searching == srv.queue \/ \E t \in Slots : Seeks(task[t]) /\ task[t].request = "sent"
Early == Searching => ~Matched(0) /\ \A t \in Slots : ~Meets(task[t])
Once ==
    /\ \A i, j \in 1..Len(inbox) :
          /\ inbox[i].ev = "success" /\ inbox[i].room \in MatchRooms
          /\ inbox[j].ev = "success" /\ inbox[j].room \in MatchRooms
          => i = j
    /\ Matched(0) => \A t \in Slots : ~Meets(task[t])
Withdrawn ==
    \A t \in Slots : Withdraws(task[t]) /\ task[t].request # "sent" =>
        /\ ~srv.queue
        /\ \A i \in 1..Len(inbox) : inbox[i].ev = "answer" /\ inbox[i].room = t => ~Matched(i)

Orderly == Lone /\ Wanted /\ Awaited /\ Early /\ Once /\ Withdrawn
Queue == Waiting \notin strayed => Orderly

LEMMA InitQueue ==
    ASSUME KInit
    PROVE  Queue
<1>1. \A t \in Slots : task[t].op = "idle"
    BY IdleFits DEF KInit
<1>2. inbox = <<>> /\ srv.queue = FALSE
    BY DEF KInit
<1>3. \A n : ~Matched(n)
    BY <1>2 DEF Matched
<1> QED
    BY <1>1, <1>2, <1>3 DEF Queue, Orderly, Lone, Wanted, Awaited, Early, Searching, Once, Withdrawn,
       Seeks, Withdraws, Meets

LEMMA MatchedShifts ==
    ASSUME KTypeOK, NEW d \in {0, 1}, Shift(d), NEW n \in Nat, Matched(n)'
    PROVE  Matched(n + d)
<1>1. PICK i \in 1..Len(inbox') : i > n /\ inbox'[i].ev = "success" /\ inbox'[i].room \in MatchRooms
    BY DEF Matched
<1>2. i + d \in 1..Len(inbox) /\ inbox'[i] = inbox[i + d] /\ i + d > n + d
    BY <1>1, ShiftIs
<1> QED
    BY <1>1, <1>2 DEF Matched

LEMMA MatchedFrom ==
    ASSUME NEW m \in Nat, NEW n \in Nat, m <= n, Matched(n)
    PROVE  Matched(m)
BY DEF Matched

\* The page meets whom the first event names.
Meeting(d) == d = 1 /\ inbox[1].ev = "success" /\ inbox[1].room \in MatchRooms

\* A step of the page that asks for no match: it lets go of the wait when it is over.
LEMMA QueueKept ==
    ASSUME KTypeOK, Queue, NEW d \in {0, 1}, Shift(d), Calm,
           Waiting \notin strayed' =>
               /\ \A u \in Slots : Seeks(task'[u]) =>
                      Seeks(task[u]) /\ task'[u].request = task[u].request
               /\ \A u \in Slots : Withdraws(task'[u]) =>
                      \/ Withdraws(task[u]) /\ task'[u].request = task[u].request
                      \/ task'[u].request = "sent" /\ Waits
               /\ \A u \in Slots : Meets(task'[u]) => Meets(task[u]) \/ Meeting(d)
               /\ Waits' => Waits \/ \A u \in Slots : ~Seeks(task'[u])
               /\ \/ ~srv.queue /\ ~Matched(d)
                  \/ /\ Waits => Waits'
                     /\ \A u \in Slots : Seeks(task[u]) \/ Withdraws(task[u]) =>
                            Waits' \/ Seeks(task'[u]) \/ Withdraws(task'[u])
    PROVE  Queue'
<1> SUFFICES ASSUME Waiting \notin strayed'
             PROVE  Orderly'
    BY DEF Queue
<1>1. Orderly /\ srv' = srv
    BY DEF Queue, Calm
<1>2. 0 \in Nat /\ Len(inbox) \in Nat
    BY ShiftIs
<1>3. Matched(0)' => Matched(d) /\ Matched(0)
    BY MatchedShifts, MatchedFrom
<1>4. Meeting(d) => 1 \in 1..Len(inbox) /\ Matched(0) /\ d = 1
    <2> SUFFICES ASSUME Meeting(d)
                 PROVE  1 \in 1..Len(inbox) /\ Matched(0) /\ d = 1
        OBVIOUS
    <2>1. 1 \in 1..Len(inbox)
        BY HeadIs DEF Shift, Meeting
    <2> QED
        BY <2>1 DEF Meeting, Matched
<1>5. Meeting(d) => ~Matched(d)
    BY <1>1, <1>4 DEF Orderly, Once, Meeting, Matched
<1>6. Lone'
    BY <1>1 DEF Orderly, Lone, Wanted
<1>7. Wanted'
    BY <1>1 DEF Orderly, Wanted
<1>8. Awaited'
    BY <1>1, <1>3 DEF Orderly, Awaited
<1>9. Early'
    <2>1. Searching' => Searching
        BY <1>1 DEF Searching
    <2> QED
        BY <1>1, <1>3, <1>4, <2>1 DEF Orderly, Early
<1>10. Once'
    <2>1. ASSUME NEW i \in 1..Len(inbox'), NEW j \in 1..Len(inbox'),
                 inbox'[i].ev = "success", inbox'[i].room \in MatchRooms,
                 inbox'[j].ev = "success", inbox'[j].room \in MatchRooms
          PROVE  i = j
        <3>1. /\ i + d \in 1..Len(inbox) /\ inbox'[i] = inbox[i + d]
              /\ j + d \in 1..Len(inbox) /\ inbox'[j] = inbox[j + d]
            BY ShiftIs
        <3>2. i + d = j + d
            BY <1>1, <2>1, <3>1 DEF Orderly, Once
        <3> QED
            BY <3>2
    <2>2. Matched(0)' => \A t \in Slots : ~Meets(task'[t])
        BY <1>1, <1>3, <1>5 DEF Orderly, Once
    <2> QED
        BY <2>1, <2>2 DEF Once
<1>11. Withdrawn'
    <2> SUFFICES ASSUME NEW t \in Slots, Withdraws(task'[t]), task'[t].request # "sent"
                 PROVE  /\ ~srv'.queue
                        /\ \A i \in 1..Len(inbox') : inbox'[i].ev = "answer" /\ inbox'[i].room = t
                               => ~Matched(i)'
        BY DEF Withdrawn
    <2>1. Withdraws(task[t]) /\ task[t].request # "sent"
        OBVIOUS
    <2>2. ASSUME NEW i \in 1..Len(inbox'), inbox'[i].ev = "answer", inbox'[i].room = t, Matched(i)'
          PROVE  FALSE
        <3>1. i + d \in 1..Len(inbox) /\ inbox'[i] = inbox[i + d] /\ i \in Nat
            BY ShiftIs
        <3>2. Matched(i + d)
            BY <2>2, <3>1, MatchedShifts
        <3> QED
            BY <1>1, <2>1, <2>2, <3>1, <3>2 DEF Orderly, Withdrawn
    <2> QED
        BY <1>1, <2>1, <2>2 DEF Orderly, Withdrawn
<1> QED
    BY <1>6, <1>7, <1>8, <1>9, <1>10, <1>11 DEF Orderly
\* Who waits strays from it, but for what is about it.
LEMMA WaitStrays ==
    ASSUME KTypeOK, Placed', Waits, ~Waits', NEW about, Witness(about), Waiting \notin about
    PROVE  Waiting \in strayed'
<1>1. Held(store) = Waiting
    BY DEF Waits, Held, Live
<1>2. Held(store') # Waiting
    <2>1. CASE store'.state \in Live
        <3>1. Held(store') = store'.room
            BY <2>1 DEF Held, Live
        <3> QED
            BY <2>1, <3>1, WaitingAssumption DEF Placed
    <2>2. CASE store'.state \notin Live
        <3>1. Held(store') = NoRoom
            BY <2>2 DEF Held, Waits
        <3> QED
            BY <3>1 DEF NoRoom, Waiting
    <2> QED
        BY <2>1, <2>2
<1>3. Waiting # NoRoom
    BY DEF NoRoom, Waiting
<1> QED
    BY <1>1, <1>2, <1>3 DEF Witness

Stranger(k) == ~Seeks(k) /\ ~Withdraws(k)

LEMMA IdleIsStranger == Stranger(Idle) /\ ~Meets(Idle)
    BY IdleFits DEF Stranger, Seeks, Withdraws, Meets

\* One function goes on that has nothing to do with the queue.
LEMMA QueueSteps ==
    ASSUME KTypeOK, Queue, NEW d \in {0, 1}, Shift(d), Calm, NEW t \in Slots, Closes(t),
           Stranger(task[t]), Stranger(task'[t]),
           Meets(task'[t]) => Meets(task[t]) \/ Meeting(d),
           Waits' => Waits \/ \A u \in Slots : ~Seeks(task'[u]),
           Waiting \notin strayed' /\ Waits /\ ~Waits' => ~srv.queue /\ ~Matched(d)
    PROVE  Queue'
<1>1. \A u \in Slots \ {t} : /\ Seeks(task'[u]) <=> Seeks(task[u])
                             /\ Withdraws(task'[u]) <=> Withdraws(task[u])
                             /\ Meets(task'[u]) <=> Meets(task[u])
                             /\ task'[u].request = task[u].request
    BY DEF Closes, Seeks, Withdraws, Meets
<1>2. ~Seeks(task[t]) /\ ~Withdraws(task[t]) /\ ~Seeks(task'[t]) /\ ~Withdraws(task'[t])
    BY DEF Stranger
<1> QED
    BY <1>1, <1>2, QueueKept

LEMMA QueueStays ==
    ASSUME KTypeOK, Queue, NEW d \in {0, 1}, Shift(d), Calm, task' = task,
           Waits' => Waits, Waiting \notin strayed' /\ Waits => Waits'
    PROVE  Queue'
BY QueueKept

\* Every end of the page: it is about the wait only if that was cancelled.
LEMMA EndsQueue ==
    ASSUME KTypeOK, Queue, NEW d \in {0, 1}, Shift(d), Calm, NEW over, Ends(over), EndsPage,
           NEW about, Witness(about),
           \/ Waiting \notin about /\ \A u \in over : Stranger(task[u])
           \/ Waiting \notin strayed' => ~srv.queue /\ ~Matched(d)
    PROVE  Queue'
<1>1. Placed' /\ ~Waits'
    BY DEF EndsPage, Waits
<1>2. \A u \in Slots : /\ Seeks(task'[u]) => Seeks(task[u]) /\ task'[u].request = task[u].request
                       /\ Withdraws(task'[u]) => /\ Withdraws(task[u])
                                                 /\ task'[u].request = task[u].request
                       /\ Meets(task'[u]) => Meets(task[u])
    <2> SUFFICES ASSUME NEW u \in Slots
                 PROVE  /\ Seeks(task'[u]) => Seeks(task[u]) /\ task'[u].request = task[u].request
                        /\ Withdraws(task'[u]) => /\ Withdraws(task[u])
                                                  /\ task'[u].request = task[u].request
                        /\ Meets(task'[u]) => Meets(task[u])
        OBVIOUS
    <2>1. CASE task'[u] = Idle
        BY <2>1, IdleIsStranger DEF Stranger
    <2>2. CASE task'[u] # Idle
        <3>1. /\ task'[u].op = task[u].op /\ task'[u].at = task[u].at
              /\ task'[u].request = task[u].request /\ task'[u].crossed
            BY <2>2 DEF Ends
        <3> QED
            BY <3>1 DEF Seeks, Withdraws, Meets
    <2> QED
        BY <2>1, <2>2
<1>3. CASE Waiting \notin about /\ \A u \in over : Stranger(task[u])
    <2>1. Waiting \notin strayed' => ~Waits
        BY <1>1, <1>3, WaitStrays
    <2>2. \A u \in Slots : Seeks(task[u]) \/ Withdraws(task[u]) =>
              Seeks(task'[u]) \/ Withdraws(task'[u])
        <3> SUFFICES ASSUME NEW u \in Slots, Seeks(task[u]) \/ Withdraws(task[u])
                     PROVE  Seeks(task'[u]) \/ Withdraws(task'[u])
            OBVIOUS
        <3>1. u \notin over /\ task[u] # Idle
            BY <1>3, IdleIsStranger DEF Stranger
        <3>2. task'[u].op = task[u].op /\ task'[u].at = task[u].at
            BY <3>1 DEF Ends
        <3> QED
            BY <3>2 DEF Seeks, Withdraws
    <2> QED
        BY <1>1, <1>2, <2>1, <2>2, QueueKept
<1>4. CASE Waiting \notin strayed' => ~srv.queue /\ ~Matched(d)
    BY <1>1, <1>2, <1>4, QueueKept
<1> QED
    BY <1>3, <1>4

\* A match is asked for.
LEMMA AskMatchQueue ==
    ASSUME KTypeOK, Queue, NEW d \in {0, 1}, Shift(d), srv' = srv,
           NEW t \in Slots, NEW k, NEW s, Starts(t, k, s), AskMatch(t, k, s), Stranger(task[t])
    PROVE  Queue'
<1> SUFFICES ASSUME Waiting \notin strayed'
             PROVE  Orderly'
    BY DEF Queue
<1>1. k.op = "match" /\ Leaves(t) /\ Asks(t, k, "match") /\ store' = s
    BY AskMatchDoes
<1>2. /\ task'[t].op = "match" /\ task'[t].at = "match" /\ task'[t].request = "sent"
      /\ s.state = store.state /\ \A u \in Slots \ {t} : task'[u] = task[u]
    BY <1>1 DEF Asks, Starts, Leaves
<1>3. /\ Waiting \notin strayed /\ Held(store) = NoRoom
      /\ \A u \in Slots \ {t} : task[u].op \notin {"match", "cancel", "setup"}
    <2>1. strayed' = IF \/ Held(s) # NoRoom
                        \/ \E u \in Slots \ {t} : task[u].op \in {"match", "cancel", "setup"}
                     THEN strayed \union {Waiting} ELSE strayed
        BY DEF AskMatch
    <2>2. Held(s) = Held(store)
        BY DEF Held, Starts
    <2> QED
        BY <2>1, <2>2
<1>4. ~Waits
    <2>1. Waits => Held(store) = Waiting
        BY DEF Waits, Held, Live
    <2> QED
        BY <1>3, <2>1 DEF Waiting, NoRoom
<1>5. \A u \in Slots : ~Seeks(task[u]) /\ ~Withdraws(task[u])
    BY <1>3 DEF Stranger, Seeks, Withdraws
<1>6. ~srv.queue /\ ~Matched(0)
    BY <1>3, <1>4, <1>5 DEF Queue, Orderly, Awaited
<1>7. 0 \in Nat
    OBVIOUS
<1>8. ~Matched(0)'
    <2>1. Matched(0)' => Matched(d)
        BY <1>7, MatchedShifts
    <2>2. d \in Nat /\ 0 <= d
        OBVIOUS
    <2> QED
        BY <1>6, <1>7, <2>1, <2>2, MatchedFrom
<1>9. \A u \in Slots : /\ Seeks(task'[u]) => u = t
                       /\ ~Withdraws(task'[u]) /\ ~Meets(task'[u])
    BY <1>2, <1>3 DEF Seeks, Withdraws, Meets
<1>10. Seeks(task'[t])
    BY <1>2 DEF Seeks
<1>11. ~Waits'
    BY <1>1, <1>2, <1>4 DEF Waits
<1>12. Lone' /\ Wanted' /\ Awaited' /\ Early' /\ Withdrawn'
    BY <1>6, <1>8, <1>9, <1>10, <1>11 DEF Lone, Wanted, Awaited, Early, Withdrawn
<1>13. Once'
    <2>1. \A i \in 1..Len(inbox') : ~(inbox'[i].ev = "success" /\ inbox'[i].room \in MatchRooms)
        BY <1>8 DEF Matched
    <2> QED
        BY <1>8, <2>1 DEF Once
<1> QED
    BY <1>12, <1>13 DEF Orderly
\* Who is met is no longer looked for.
LEMMA MeetingIs ==
    ASSUME KTypeOK, Queue, Waiting \notin strayed, NEW d \in {0, 1}, Shift(d),
           Meeting(d) \/ \E t \in Slots : Meets(task[t])
    PROVE  ~srv.queue /\ ~Matched(d)
<1>1. Orderly
    BY DEF Queue
<1>2. CASE Meeting(d)
    <2>1. 1 \in 1..Len(inbox) /\ d = 1
        BY <1>2, HeadIs DEF Shift, Meeting
    <2>2. Matched(0)
        BY <1>2, <2>1 DEF Meeting, Matched
    <2>3. ~Matched(d)
        BY <1>1, <1>2, <2>1 DEF Orderly, Once, Meeting, Matched
    <2> QED
        BY <1>1, <2>2, <2>3 DEF Orderly, Early, Searching
<1>3. CASE \E t \in Slots : Meets(task[t])
    <2>1. ~srv.queue /\ ~Matched(0)
        BY <1>1, <1>3 DEF Orderly, Early, Searching, Once
    <2>2. 0 \in Nat /\ d \in Nat /\ 0 <= d
        OBVIOUS
    <2> QED
        BY <2>1, <2>2, MatchedFrom
<1> QED
    BY <1>2, <1>3

LEMMA ContinueQueue ==
    ASSUME KTypeOK, Queue, NEW d \in {0, 1}, Shift(d), srv' = srv, sent' = sent,
           NEW t \in Slots, NEW k, NEW s, Starts(t, k, s), k.request = "none", Continue(t, k, s),
           Stranger(task[t]),
           k.op = "setup" /\ k.room \in MatchRooms /\ ~k.crossed => Meets(task[t]) \/ Meeting(d)
    PROVE  Queue'
<1>1. Leaves(t) /\ strayed \subseteq strayed' /\ Placed'
    BY ContinueDoes
<1>2. Closes(t) /\ Calm
    BY <1>1, LeavesCloses DEF Calm
<1>3. CASE AskMatch(t, k, s)
    BY <1>3, AskMatchQueue
<1>4. CASE AskRing(t, k, s) /\ Witness(About(k))
    <2>1. k.op = "ring" /\ Asks(t, k, "ring") /\ store'.state = "outGoing"
        BY <1>4, AskRingDoes
    <2>2. Stranger(task'[t]) /\ ~Meets(task'[t]) /\ ~Waits'
        BY <2>1 DEF Asks, Stranger, Seeks, Withdraws, Meets, Waits
    <2>3. About(k) = {}
        BY <2>1 DEF About
    <2>4. Waits => Waiting \in strayed'
        BY <1>1, <1>4, <2>2, <2>3, WaitStrays
    <2> QED
        BY <1>2, <2>2, <2>4, QueueSteps
<1>5. CASE StartSetup(t, k, s) /\ Witness(About(k))
    <2>1. /\ k.op = "setup" /\ k.room \in Rooms
          /\ task'[t].op = "setup" /\ task'[t].at = "device"
          /\ store'.state = (IF k.room \in MatchRooms THEN "inMatch" ELSE store.state)
        BY <1>5, StartSetupDoes
    <2>2. Stranger(task'[t]) /\ ~Meets(task'[t]) /\ (Waits' => Waits)
        BY <2>1 DEF Stranger, Seeks, Withdraws, Meets, Waits
    <2>3. ASSUME Waiting \notin strayed', Waits, ~Waits'
          PROVE  ~srv.queue /\ ~Matched(d)
        <3>1. k.room \in MatchRooms
            BY <2>1, <2>3 DEF Waits
        <3>2. Waiting \in About(k)
            BY <1>1, <1>5, <2>3, WaitStrays
        <3>3. ~k.crossed
            BY <3>2 DEF About
        <3>4. Meets(task[t]) \/ Meeting(d)
            BY <2>1, <3>1, <3>3
        <3>5. Waiting \notin strayed
            BY <1>1, <2>3
        <3> QED
            BY <3>4, <3>5, MeetingIs
    <2> QED
        BY <1>2, <2>2, <2>3, QueueSteps
<1>6. CASE Turn(t, k, s) /\ Witness(About(k))
    <2>1. /\ store'.state = store.state
          /\ task'[t] = Idle \/ task'[t].op \in Tracks
        BY <1>6, TurnDoes
    <2>2. Stranger(task'[t]) /\ ~Meets(task'[t]) /\ (Waits' <=> Waits)
        BY <2>1, IdleIsStranger DEF Stranger, Seeks, Withdraws, Meets, Waits, Tracks
    <2> QED
        BY <1>2, <2>2, QueueSteps
<1> QED
    BY <1>3, <1>4, <1>5, <1>6 DEF Continue

LEMMA BeginQueue ==
    ASSUME KTypeOK, Queue, NEW d \in {0, 1}, Shift(d), srv' = srv, sent' = sent,
           NEW k, Fresh(k), Begin(k),
           k.op = "setup" /\ k.room \in MatchRooms => Meeting(d)
    PROVE  Queue'
<1>1. PICK t \in Slots :
          /\ task[t] = Idle /\ Leaves(t)
          /\ \/ Starts(t, k, store) /\ Continue(t, k, store)
             \/ /\ task'[t] = k /\ store.stream # "live"
                /\ UNCHANGED <<store, media, strayed>>
    BY BeginDoes
<1>2. Stranger(task[t])
    BY <1>1, IdleIsStranger
<1>3. CASE Starts(t, k, store) /\ Continue(t, k, store)
    BY <1>2, <1>3, ContinueQueue DEF Fresh
<1>4. CASE task'[t] = k /\ UNCHANGED <<store, media, strayed>>
    <2>1. Closes(t) /\ Calm
        BY <1>1, <1>4, LeavesCloses DEF Calm
    <2>2. Stranger(task'[t]) /\ (Meets(task'[t]) => Meeting(d))
        BY <1>4 DEF Fresh, Tracks, Stranger, Seeks, Withdraws, Meets
    <2>3. Waits' <=> Waits
        BY <1>4 DEF Waits
    <2> QED
        BY <1>2, <2>1, <2>2, <2>3, QueueSteps
<1> QED
    BY <1>1, <1>3, <1>4

LEMMA CameraQueue ==
    ASSUME KTypeOK, Queue, NEW t \in Slots, CameraOpens(t) \/ CameraFails(t)
    PROVE  Queue'
<1>1. ASSUME task[t].at = "camera"
      PROVE  Stranger(task[t])
    <2>1. Route(task[t].op, "camera")
        BY <1>1, FitsIs DEF WellFormed
    <2> QED
        BY <1>1, <2>1 DEF Route, Stranger, Seeks, Withdraws, Tracks
<1>2. CASE CameraOpens(t)
    <2>1. UNCHANGED <<inbox, sent, srv>>
        BY <1>2 DEF CameraOpens
    <2>2. PICK k, s : Opens(t, k, s)
        BY <1>2, CameraOpensDoes
    <2>3. Shift(0) /\ 0 \in {0, 1}
        BY <2>1 DEF Shift
    <2>4. k.op = "setup" /\ k.room \in MatchRooms /\ ~k.crossed => Meets(task[t])
        BY <2>2 DEF Opens, Meets
    <2>5. Starts(t, k, s) /\ Continue(t, k, s) /\ k.request = "none" /\ Stranger(task[t])
        BY <2>2, <1>1 DEF Opens
    <2> QED
        BY <2>1, <2>3, <2>4, <2>5, ContinueQueue
<1>3. CASE CameraFails(t)
    <2>1. /\ task[t].at = "camera" /\ task'[t] = Idle
          /\ UNCHANGED <<inbox, sent, srv, gone, uninvited, hasty>>
          /\ \/ task[t].op = "ring" /\ Ends({t}) /\ EndsPage /\ Witness({})
             \/ /\ task[t].op # "ring" /\ Leaves(t) /\ UNCHANGED <<store, media, touched>>
                /\ strayed \subseteq strayed'
        BY <1>3, CameraFailsDoes
    <2>2. Shift(0) /\ 0 \in {0, 1} /\ Stranger(task[t])
        BY <2>1, <1>1 DEF Shift
    <2>3. CASE task[t].op = "ring" /\ Ends({t}) /\ EndsPage /\ Witness({})
        <3>1. Calm
            BY <2>1, <2>3 DEF Calm, EndsPage
        <3>2. Waiting \notin {} /\ \A u \in {t} : Stranger(task[u])
            BY <2>2
        <3> QED
            BY <2>2, <2>3, <3>1, <3>2, EndsQueue
    <2>4. CASE Leaves(t) /\ UNCHANGED <<store, media, touched>> /\ strayed \subseteq strayed'
        <3>1. Calm /\ Closes(t) /\ (Waits' <=> Waits)
            BY <2>1, <2>4, LeavesCloses DEF Calm, Waits
        <3>2. Stranger(task'[t]) /\ ~Meets(task'[t])
            BY <2>1, IdleIsStranger
        <3> QED
            BY <2>2, <3>1, <3>2, QueueSteps
    <2> QED
        BY <2>1, <2>3, <2>4
<1> QED
    BY <1>2, <1>3

LEMMA SetupQueue ==
    ASSUME KTypeOK, Queue, NEW t \in Slots, Setup(t)
    PROVE  Queue'
<1>1. ASSUME NEW d \in {0, 1}, Shift(d), Closes(t), task[t].op = "setup", task[t].at # "camera",
             task'[t] = Idle \/ (Continued(t) /\ task'[t].at # "camera"),
             Placed', srv' = srv, sent \subseteq sent', strayed \subseteq strayed',
             store'.state = store.state \/ (store'.state = "inCall" /\ Witness({task[t].room})),
             task[t].room \in Rooms
      PROVE  Queue'
    <2>1. Calm
        BY <1>1 DEF Calm
    <2>2. Stranger(task[t])
        BY <1>1 DEF Stranger, Seeks, Withdraws
    <2>3. CASE task'[t] = Idle
        <3>1. Stranger(task'[t]) /\ ~Meets(task'[t])
            BY <2>3, IdleIsStranger
        <3>2. Waits' => Waits
            BY <1>1 DEF Waits
        <3>3. Waits /\ ~Waits' => Waiting \in strayed'
            <4>1. Waits /\ ~Waits' => Witness({task[t].room})
                BY <1>1 DEF Waits
            <4>2. Waiting \notin {task[t].room}
                BY <1>1, WaitingAssumption
            <4> QED
                BY <1>1, <4>1, <4>2, WaitStrays
        <3> QED
            BY <1>1, <2>1, <2>2, <3>1, <3>2, <3>3, QueueSteps
    <2>4. CASE Continued(t) /\ task'[t].at # "camera"
        <3>1. Stranger(task'[t]) /\ ~Meets(task'[t])
            BY <1>1, <2>4 DEF Stranger, Seeks, Withdraws, Meets, Continued
        <3>2. Waits' => Waits
            BY <1>1 DEF Waits
        <3>3. Waits /\ ~Waits' => Waiting \in strayed'
            <4>1. Waits /\ ~Waits' => Witness({task[t].room})
                BY <1>1 DEF Waits
            <4>2. Waiting \notin {task[t].room}
                BY <1>1, WaitingAssumption
            <4> QED
                BY <1>1, <4>1, <4>2, WaitStrays
        <3> QED
            BY <1>1, <2>1, <2>2, <3>1, <3>2, <3>3, QueueSteps
    <2> QED
        BY <1>1, <2>3, <2>4
<1>2. CASE InitializeDevice(t) \/ LoadDevice(t)
    <2>1. /\ task[t].op = "setup" /\ Leaves(t) /\ Continued(t) /\ task[t].room \in Rooms
          /\ task[t].at \in {"device", "load"} /\ task'[t].at \in {"load", "send"}
          /\ UNCHANGED <<store, inbox, sent, srv, strayed>>
        BY <1>2, DeviceDoes
    <2>2. Shift(0) /\ 0 \in {0, 1} /\ Closes(t) /\ Placed'
        BY <2>1, LeavesCloses, PageStays DEF Shift
    <2> QED
        BY <1>1, <2>1, <2>2
<1>3. CASE SendTransport(t)
    <2>1. /\ task[t].op = "setup" /\ task[t].at = "send" /\ Hears(t, TRUE) /\ Closes(t)
          /\ task[t].room \in Rooms /\ UNCHANGED <<store, sent, srv>>
          /\ \/ task'[t] = Idle /\ strayed \subseteq strayed'
             \/ Continued(t) /\ task'[t].at = "recv" /\ UNCHANGED strayed
        BY <1>3, SendDoes
    <2>2. Shift(1) /\ 1 \in {0, 1} /\ Placed'
        BY <2>1, HearsShift, PageStays DEF Hears
    <2>3. task'[t] = Idle \/ (Continued(t) /\ task'[t].at # "camera")
        BY <2>1
    <2> QED
        BY <1>1, <2>1, <2>2, <2>3
<1>4. ASSUME Finishes(t), Placed', Hears(t, TRUE), Closes(t), srv' = srv, task[t].op = "setup",
             task[t].room \in Rooms, task[t].at # "camera"
      PROVE  Queue'
    <2>1. Shift(1) /\ 1 \in {0, 1}
        BY <1>4, HearsShift DEF Hears
    <2>2. /\ task'[t] = Idle /\ sent \subseteq sent' /\ strayed \subseteq strayed'
          /\ store'.state = store.state \/ (store'.state = "inCall" /\ Witness({task[t].room}))
        BY <1>4 DEF Finishes
    <2> QED
        BY <1>1, <1>4, <2>1, <2>2
<1>5. ASSUME Hears(t, TRUE), Closes(t), Continued(t), UNCHANGED <<store, sent, srv, strayed>>,
             task[t].op = "setup", task[t].at # "camera", task'[t].at # "camera",
             task[t].room \in Rooms
      PROVE  Queue'
    <2>1. Shift(1) /\ 1 \in {0, 1} /\ Placed'
        BY <1>5, HearsShift, PageStays DEF Hears
    <2> QED
        BY <1>1, <1>5, <2>1
<1>6. CASE RecvTransport(t)
    <2>1. /\ task[t].op = "setup" /\ task[t].at = "recv" /\ Hears(t, TRUE) /\ Closes(t)
          /\ srv' = srv /\ task[t].room \in Rooms
          /\ \/ Continued(t) /\ task'[t].at = "video" /\ UNCHANGED <<store, sent, strayed>>
             \/ Finishes(t) /\ Placed'
        BY <1>6, RecvDoes
    <2>2. task[t].at # "camera" /\ (task'[t].at = "video" => task'[t].at # "camera")
        BY <2>1
    <2> QED
        BY <2>1, <2>2, <1>4, <1>5
<1>7. CASE ProduceVideo(t) \/ ProduceAudio(t)
    <2>1. /\ task[t].op = "setup" /\ task[t].at \in {"video", "audio"} /\ Hears(t, TRUE)
          /\ Leaves(t) /\ srv' = srv /\ task[t].room \in Rooms
          /\ \/ Continued(t) /\ task'[t].at = "audio" /\ UNCHANGED <<store, sent, strayed>>
             \/ Finishes(t) /\ Placed'
        BY <1>7, ProduceDoes
    <2>2. Closes(t) /\ task[t].at # "camera" /\ (task'[t].at = "audio" => task'[t].at # "camera")
        BY <2>1, LeavesCloses
    <2> QED
        BY <2>1, <2>2, <1>4, <1>5
<1> QED
    BY <1>2, <1>3, <1>6, <1>7 DEF Setup
\* A function that has nothing to do with the queue goes on, and the page shows as much.
LEMMA LightQueue ==
    ASSUME KTypeOK, Queue, NEW d \in {0, 1}, Shift(d), Calm, NEW t \in Slots, Leaves(t),
           Stranger(task[t]), Stranger(task'[t]), ~Meets(task'[t]), store'.state = store.state
    PROVE  Queue'
<1>1. Closes(t) /\ (Waits' <=> Waits)
    BY LeavesCloses DEF Waits
<1> QED
    BY <1>1, QueueSteps

LEMMA EndAnsweredQueue ==
    ASSUME KTypeOK, Queue, NEW t \in Slots, EndAnswered(t)
    PROVE  Queue'
<1>1. /\ task[t].op \in {"cancel", "reject", "end", "ring"}
      /\ Ends({t}) /\ EndsPage /\ Witness(About(task[t])) /\ UNCHANGED <<sent, srv>>
    BY EndAnsweredDoes
<1>2. PICK ok \in BOOLEAN : Hears(t, ok)
    BY EndAnsweredDoes
<1>3. Shift(1) /\ 1 \in {0, 1} /\ 1 \in 1..Len(inbox) /\ inbox[1].ev = "answer" /\ inbox[1].room = t
    BY <1>2, HearsShift, HeadIs DEF Hears
<1>4. Calm
    BY <1>1 DEF Calm, EndsPage
<1>5. CASE task[t].op = "cancel"
    <2>1. task[t].request = "none"
        BY <1>3 DEF KTypeOK, Answering
    <2>2. Withdraws(task[t]) /\ task[t].request # "sent"
        BY <1>5, <2>1 DEF Withdraws
    <2>3. Waiting \notin strayed' => Withdrawn
        BY <1>4 DEF Calm, Queue, Orderly
    <2>4. Waiting \notin strayed' => ~srv.queue /\ ~Matched(1)
        BY <1>3, <2>2, <2>3 DEF Withdrawn
    <2> QED
        BY <1>1, <1>3, <1>4, <2>4, EndsQueue
<1>6. CASE task[t].op # "cancel"
    <2>1. Stranger(task[t])
        BY <1>1, <1>6 DEF Stranger, Seeks, Withdraws
    <2>2. Waiting \notin About(task[t])
        <3>1. task[t].op = "end" => task[t].room \in Chats
            BY FitsIs DEF Sited
        <3>2. task[t].op = "end" => task[t].room # Waiting /\ task[t].room \notin MatchRooms
            BY <3>1, WaitingAssumption, MediaClientAssumption DEF Rooms
        <3> QED
            BY <1>1, <1>6, <3>2 DEF About
    <2> QED
        BY <1>1, <1>3, <1>4, <2>1, <2>2, EndsQueue
<1> QED
    BY <1>5, <1>6

LEMMA MatchAnsweredQueue ==
    ASSUME KTypeOK, Queue, NEW t \in Slots, MatchAnswered(t)
    PROVE  Queue'
<1>1. /\ task[t].op = "match" /\ task[t].at = "match" /\ Hears(t, TRUE) /\ Leaves(t)
      /\ task'[t] = Idle /\ store'.state = "inMatchWait" /\ strayed \subseteq strayed'
      /\ UNCHANGED <<sent, srv>>
    BY MatchAnsweredDoes
<1>2. Shift(1) /\ 1 \in {0, 1}
    BY <1>1, HearsShift DEF Hears
<1>3. Calm /\ Waits'
    BY <1>1 DEF Calm, Waits
<1>4. \A u \in Slots \ {t} : task'[u] = task[u]
    BY <1>1 DEF Leaves
<1>5. ~Seeks(task'[t]) /\ ~Withdraws(task'[t]) /\ ~Meets(task'[t])
    BY <1>1, IdleIsStranger DEF Stranger
<1>6. Waiting \notin strayed' => \A u \in Slots : ~Seeks(task'[u])
    <2>1. Seeks(task[t])
        BY <1>1 DEF Seeks
    <2>2. Waiting \notin strayed' => Lone
        BY <1>1 DEF Queue, Orderly
    <2> QED
        BY <1>4, <1>5, <2>1, <2>2 DEF Lone
<1> QED
    BY <1>2, <1>3, <1>4, <1>5, <1>6, QueueKept

LEMMA ResumeQueue ==
    ASSUME KTypeOK, Queue, NEW t \in Slots, Resume(t)
    PROVE  Queue'
<1>1. CASE MatchAnswered(t)
    BY <1>1, MatchAnsweredQueue
<1>2. CASE EndAnswered(t)
    BY <1>2, EndAnsweredQueue
<1>3. ASSUME task[t].op \notin {"match", "cancel", "setup"}, task'[t] = Idle \/ Continued(t)
      PROVE  Stranger(task[t]) /\ Stranger(task'[t]) /\ ~Meets(task'[t])
    <2>1. CASE task'[t] = Idle
        BY <1>3, <2>1, IdleIsStranger DEF Stranger, Seeks, Withdraws
    <2>2. CASE Continued(t)
        BY <1>3, <2>2 DEF Stranger, Seeks, Withdraws, Meets, Continued
    <2> QED
        BY <1>3, <2>1, <2>2
<1>4. ASSUME inbox # <<>>, Take, Head(inbox).ev = "answer", Leaves(t),
             task[t].op \notin {"match", "cancel", "setup"}, task'[t] = Idle \/ Continued(t),
             UNCHANGED <<sent, srv, strayed>>, store'.state = store.state
      PROVE  Queue'
    <2>1. Shift(1) /\ 1 \in {0, 1}
        BY <1>4, HearsShift
    <2>2. Calm
        BY <1>4 DEF Calm
    <2>3. Stranger(task[t]) /\ Stranger(task'[t]) /\ ~Meets(task'[t])
        BY <1>3, <1>4
    <2> QED
        BY <1>4, <2>1, <2>2, <2>3, LightQueue
<1>5. CASE NothingDone(t)
    <2>1. PICK ok \in BOOLEAN : Hears(t, ok)
        BY <1>5, NothingDoneDoes
    <2>2. /\ task[t].op \in {"reject", "end", "ring", "accept"} /\ Leaves(t) /\ task'[t] = Idle
          /\ UNCHANGED <<store, sent, strayed, srv>>
        BY <1>5, NothingDoneDoes
    <2> QED
        BY <2>1, <2>2, <1>4 DEF Hears
<1>6. CASE Accepted(t)
    <2>1. /\ task[t].op = "accept" /\ Hears(t, TRUE) /\ Leaves(t) /\ Continued(t)
          /\ store'.state = "inCall" /\ strayed \subseteq strayed' /\ task[t].room \in Chats
          /\ Witness({task[t].room}) /\ Placed' /\ UNCHANGED <<sent, srv>>
        BY <1>6, AcceptedDoes
    <2>2. Shift(1) /\ 1 \in {0, 1} /\ Calm /\ Closes(t)
        BY <2>1, HearsShift, LeavesCloses DEF Hears, Calm
    <2>3. Stranger(task[t]) /\ Stranger(task'[t]) /\ ~Meets(task'[t])
        BY <2>1, <1>3
    <2>4. ~Waits'
        BY <2>1 DEF Waits
    <2>5. Waiting \notin {task[t].room}
        BY <2>1, WaitingAssumption DEF Rooms
    <2>6. Waits => Waiting \in strayed'
        BY <2>1, <2>4, <2>5, WaitStrays
    <2> QED
        BY <2>2, <2>3, <2>4, <2>6, QueueSteps
<1>7. CASE Existing(t)
    <2>1. /\ task[t].op = "accept" /\ Hears(t, TRUE) /\ Leaves(t) /\ task'[t] = Idle
          /\ store'.state = store.state
          /\ UNCHANGED <<sent, strayed, srv>>
        BY <1>7, ExistingDoes
    <2> QED
        BY <2>1, <1>4 DEF Hears
<1>8. CASE Turned(t)
    <2>1. /\ task[t].op \in Tracks /\ Hears(t, TRUE) /\ Leaves(t) /\ task'[t] = Idle
          /\ store'.state = store.state
          /\ UNCHANGED <<sent, strayed, srv>>
        BY <1>8, TurnedDoes
    <2>2. task[t].op \notin {"match", "cancel", "setup"}
        BY <2>1 DEF Tracks
    <2> QED
        BY <2>1, <2>2, <1>4 DEF Hears
<1>9. CASE ScreenProduced(t)
    <2>1. /\ task[t].op = "share" /\ Hears(t, TRUE) /\ Leaves(t)
          /\ task'[t] = Idle \/ Continued(t)
          /\ UNCHANGED <<store, sent, strayed, srv>>
        BY <1>9, ScreenProducedDoes
    <2> QED
        BY <2>1, <1>4 DEF Hears
<1>10. CASE Shared(t)
    <2>1. /\ task[t].op = "share" /\ Hears(t, TRUE) /\ Leaves(t) /\ task'[t] = Idle
          /\ store'.state = store.state
          /\ UNCHANGED <<sent, strayed, srv>>
        BY <1>10, SharedDoes
    <2> QED
        BY <2>1, <1>4 DEF Hears
<1>11. CASE Consumed(t)
    <2>1. /\ task[t].op = "consume" /\ inbox # <<>> /\ Take /\ Head(inbox).ev = "answer"
          /\ Leaves(t)
          /\ task'[t] = Idle \/ Continued(t)
          /\ UNCHANGED <<store, sent, strayed, srv>>
        BY <1>11, ConsumedDoes
    <2> QED
        BY <2>1, <1>4
<1>12. CASE ScreenChosen(t)
    <2>1. /\ task[t].op = "share" /\ Leaves(t) /\ UNCHANGED <<store, inbox, sent, strayed, srv>>
          /\ task'[t] = Idle \/ Continued(t)
        BY <1>12, ScreenChosenDoes
    <2>2. Shift(0) /\ 0 \in {0, 1} /\ Calm
        BY <2>1 DEF Shift, Calm
    <2>3. Stranger(task[t]) /\ Stranger(task'[t]) /\ ~Meets(task'[t])
        BY <1>3, <2>1
    <2> QED
        BY <2>1, <2>2, <2>3, LightQueue
<1> QED
    BY <1>1, <1>2, <1>5, <1>6, <1>7, <1>8, <1>9, <1>10, <1>11, <1>12 DEF Resume

LEMMA EventQueue ==
    ASSUME KTypeOK, Queue, Events
    PROVE  Queue'
<1>1. ASSUME NEW ev, Takes(ev)
      PROVE  Shift(1) /\ 1 \in {0, 1} /\ UNCHANGED <<sent, srv>>
             /\ Head(inbox) = inbox[1] /\ inbox[1].ev = ev
    BY <1>1, HeadIs DEF Shift, Takes
<1>2. CASE Success
    <2>1. Takes("success")
        BY <1>2, SuccessDoes
    <2>2. PICK k : /\ Fresh(k) /\ k.op = "setup" /\ k.room = Head(inbox).room /\ Begin(k)
        BY <1>2, SuccessDoes
    <2>3. /\ Shift(1) /\ 1 \in {0, 1} /\ UNCHANGED <<sent, srv>>
          /\ Head(inbox) = inbox[1] /\ inbox[1].ev = "success"
        BY <2>1, <1>1
    <2>4. k.room \in MatchRooms => Meeting(1)
        BY <2>2, <2>3 DEF Meeting
    <2> QED
        BY <2>2, <2>3, <2>4, BeginQueue
<1>3. CASE NewProducer
    <2>1. /\ Takes("new") /\ UNCHANGED <<store, strayed>>
          /\ \/ UNCHANGED task
             \/ \E t \in Slots : task[t] = Idle /\ Leaves(t) /\ task'[t].op = "consume"
        BY <1>3, NewProducerDoes
    <2>2. Shift(1) /\ 1 \in {0, 1} /\ UNCHANGED <<sent, srv>>
        BY <2>1, <1>1
    <2>3. Calm /\ (Waits' <=> Waits)
        BY <2>1, <2>2 DEF Calm, Waits
    <2>4. CASE UNCHANGED task
        BY <2>2, <2>3, <2>4, QueueStays
    <2>5. CASE \E t \in Slots : task[t] = Idle /\ Leaves(t) /\ task'[t].op = "consume"
        <3>1. PICK t \in Slots : task[t] = Idle /\ Leaves(t) /\ task'[t].op = "consume"
            BY <2>5
        <3>2. Stranger(task[t]) /\ Stranger(task'[t]) /\ ~Meets(task'[t])
            BY <3>1, IdleIsStranger DEF Stranger, Seeks, Withdraws, Meets
        <3> QED
            BY <2>1, <2>2, <2>3, <3>1, <3>2, LightQueue
    <2> QED
        BY <2>1, <2>4, <2>5
<1>4. CASE Over
    <2>1. Takes("over") /\ Ends({}) /\ EndsPage /\ Witness({Head(inbox).room})
        BY <1>4, OverDoes
    <2>2. Shift(1) /\ 1 \in {0, 1} /\ UNCHANGED <<sent, srv>> /\ inbox # <<>>
        BY <2>1, <1>1 DEF Takes
    <2>3. Calm
        BY <2>1, <2>2 DEF Calm, EndsPage
    <2>4. Head(inbox).room \in Rooms
        BY <2>1, <2>2, HeadIs, MessageFields DEF Takes
    <2>5. Waiting \notin {Head(inbox).room} /\ \A u \in {} : Stranger(task[u])
        BY <2>4, WaitingAssumption
    <2> QED
        BY <2>1, <2>2, <2>3, <2>5, EndsQueue
<1>5. CASE Rings
    <2>1. /\ Takes("incoming") /\ Witness({Head(inbox).room}) /\ strayed \subseteq strayed'
          /\ store'.state = "inComing" /\ UNCHANGED task /\ Head(inbox).room \in Chats /\ Placed'
        BY <1>5, RingsDoes
    <2>2. Shift(1) /\ 1 \in {0, 1} /\ UNCHANGED <<sent, srv>>
        BY <2>1, <1>1
    <2>3. Calm /\ ~Waits'
        BY <2>1, <2>2 DEF Calm, Waits
    <2>4. Waiting \notin {Head(inbox).room}
        BY <2>1, WaitingAssumption DEF Rooms
    <2>5. Waits => Waiting \in strayed'
        BY <2>1, <2>3, <2>4, WaitStrays
    <2> QED
        BY <2>1, <2>2, <2>3, <2>5, QueueStays
<1>6. CASE UserJoined \/ UserLeft
    <2>1. /\ Takes("joined") \/ Takes("left")
          /\ store'.state = store.state /\ UNCHANGED <<task, strayed>>
        BY <1>6, ComesDoes
    <2>2. Shift(1) /\ 1 \in {0, 1} /\ UNCHANGED <<sent, srv>>
        BY <2>1, <1>1
    <2>3. Calm /\ (Waits' <=> Waits)
        BY <2>1, <2>2 DEF Calm, Waits
    <2> QED
        BY <2>1, <2>2, <2>3, QueueStays
<1> QED
    BY <1>2, <1>3, <1>4, <1>5, <1>6 DEF Events

LEMMA ClickQueue ==
    ASSUME KTypeOK, Queue, Clicks
    PROVE  Queue'
<1>1. CASE ClickCancel \/ ClickAccept \/ ClickReject \/ ClickEndCall
    <2>1. Clicked
        BY <1>1, RequestsDo
    <2>2. PICK op, at, room : /\ Requests(op, at, room)
                              /\ op \in {"cancel", "accept", "reject", "end"}
                              /\ op = "cancel" => Waits
        BY <1>1, RequestsDo DEF Waits
    <2>3. PICK t \in Slots : task[t] = Idle /\ Leaves(t) /\ task'[t].request = "sent"
                             /\ task'[t].op = op
        BY <2>2 DEF Requests
    <2>4. UNCHANGED <<store, sent, strayed, inbox, srv>>
        BY <2>1, <2>2 DEF Requests, Clicked
    <2>5. Shift(0) /\ 0 \in {0, 1} /\ Calm /\ (Waits' <=> Waits)
        BY <2>4 DEF Shift, Calm, Waits
    <2>6. ~Seeks(task'[t]) /\ ~Meets(task'[t]) /\ (Withdraws(task'[t]) => Waits)
        BY <2>2, <2>3 DEF Seeks, Meets, Withdraws
    <2>7. Stranger(task[t]) /\ \A u \in Slots \ {t} : task'[u] = task[u]
        BY <2>3, IdleIsStranger DEF Leaves
    <2>8. ~Seeks(task[t]) /\ ~Withdraws(task[t])
        BY <2>7 DEF Stranger
    <2> QED
        BY <2>3, <2>5, <2>6, <2>7, <2>8, QueueKept
<1>2. CASE \/ ClickMatch \/ \E c \in Chats : ClickRing(c)
           \/ \E kind \in Tracks : ClickToggle(kind)
    <2>1. Clicked /\ UNCHANGED sent
        BY <1>2, ClicksBegin
    <2>2. PICK k : Fresh(k) /\ Begin(k) /\ k.op \in {"match", "ring"} \union Tracks
        BY <1>2, ClicksBegin
    <2>3. Shift(0) /\ 0 \in {0, 1} /\ srv' = srv
        BY <2>1 DEF Shift, Clicked
    <2>4. k.op # "setup"
        BY <2>2 DEF Tracks
    <2> QED
        BY <2>1, <2>2, <2>3, <2>4, BeginQueue
<1>3. CASE ClickHangUp
    <2>1. /\ sent \subseteq sent' /\ store.room \in Rooms
          /\ Ends({}) /\ EndsPage /\ Witness({store.room}) /\ UNCHANGED <<inbox, srv>>
        BY <1>3, HangUpDoes
    <2>2. Shift(0) /\ 0 \in {0, 1} /\ Calm
        BY <2>1 DEF Shift, Calm, EndsPage
    <2>3. Waiting \notin {store.room} /\ \A u \in {} : Stranger(task[u])
        BY <2>1, WaitingAssumption
    <2> QED
        BY <2>1, <2>2, <2>3, EndsQueue
<1>4. CASE StartShare \/ StopShare
    <2>1. /\ \E t \in Slots : task[t] = Idle /\ Leaves(t) /\ task'[t].op = "share"
          /\ UNCHANGED <<store, inbox, sent, srv, strayed>>
        BY <1>4, ShareDoes
    <2>2. PICK t \in Slots : task[t] = Idle /\ Leaves(t) /\ task'[t].op = "share"
        BY <2>1
    <2>3. Shift(0) /\ 0 \in {0, 1} /\ Calm
        BY <2>1 DEF Shift, Calm
    <2>4. Stranger(task[t]) /\ Stranger(task'[t]) /\ ~Meets(task'[t])
        BY <2>2, IdleIsStranger DEF Stranger, Seeks, Withdraws, Meets
    <2> QED
        BY <2>1, <2>2, <2>3, <2>4, LightQueue
<1> QED
    BY <1>1, <1>2, <1>3, <1>4 DEF Clicks
LEMMA SeeksKept ==
    ASSUME Keeping
    PROVE  /\ Waits' = Waits
           /\ \A u \in Slots : /\ Seeks(task'[u]) = Seeks(task[u])
                               /\ Withdraws(task'[u]) = Withdraws(task[u])
                               /\ Meets(task'[u]) = Meets(task[u])
BY DEF Keeping, Waits, Seeks, Withdraws, Meets

\* A step of the server or of others that takes nobody into or out of the queue.
LEMMA QueueGrows ==
    ASSUME KTypeOK, Queue, Grows, Keeping, strayed \subseteq strayed', srv'.queue = srv.queue,
           \A i : News(i) => inbox'[i].ev # "success" \/ inbox'[i].room \notin MatchRooms,
           \A u \in Slots : Seeks(task[u]) \/ Withdraws(task[u]) =>
               (task'[u].request = "sent" <=> task[u].request = "sent")
    PROVE  Queue'
<1> SUFFICES ASSUME Waiting \notin strayed'
             PROVE  Orderly'
    BY DEF Queue
<1>1. Orderly
    BY DEF Queue
<1>2. \A n \in Nat : Matched(n)' => Matched(n)
    BY DEF Matched, Grows, News
<1>3. Matched(0)' => Matched(0)
    BY <1>2
<1>4. Lone' /\ Wanted' /\ Awaited'
    BY <1>1, <1>3, SeeksKept DEF Orderly, Lone, Wanted, Awaited
<1>5. Searching' => Searching
    BY SeeksKept DEF Searching
<1>6. Early'
    BY <1>1, <1>3, <1>5, SeeksKept DEF Orderly, Early
<1>7. Once'
    <2>1. \A i \in 1..Len(inbox') : inbox'[i].ev = "success" /\ inbox'[i].room \in MatchRooms =>
              i \in 1..Len(inbox) /\ inbox'[i] = inbox[i]
        BY DEF Grows, News
    <2> QED
        BY <1>1, <1>3, <2>1, SeeksKept DEF Orderly, Once
<1>8. Withdrawn'
    <2> SUFFICES ASSUME NEW t \in Slots, Withdraws(task'[t]), task'[t].request # "sent"
                 PROVE  /\ ~srv'.queue
                        /\ \A i \in 1..Len(inbox') :
                              inbox'[i].ev = "answer" /\ inbox'[i].room = t => ~Matched(i)'
        BY DEF Withdrawn
    <2>1. Withdraws(task[t]) /\ task[t].request # "sent"
        BY SeeksKept
    <2>2. /\ ~srv.queue
          /\ \A i \in 1..Len(inbox) : inbox[i].ev = "answer" /\ inbox[i].room = t => ~Matched(i)
        BY <1>1, <2>1 DEF Orderly, Withdrawn
    <2>3. ASSUME NEW i \in 1..Len(inbox'), inbox'[i].ev = "answer", inbox'[i].room = t, Matched(i)'
          PROVE  FALSE
        <3>1. CASE i \in 1..Len(inbox)
            BY <1>2, <2>2, <2>3, <3>1 DEF Grows
        <3>2. CASE i \notin 1..Len(inbox)
            <4>1. PICK j \in 1..Len(inbox') :
                      j > i /\ inbox'[j].ev = "success" /\ inbox'[j].room \in MatchRooms
                BY <2>3 DEF Matched
            <4>2. News(j)
                BY <3>2, <4>1 DEF News, Grows
            <4> QED
                BY <4>1, <4>2
        <3> QED
            BY <3>1, <3>2
    <2> QED
        BY <2>2, <2>3
<1> QED
    BY <1>4, <1>6, <1>7, <1>8 DEF Orderly

LEMMA AnswersQueue ==
    ASSUME KTypeOK, Queue, NEW t \in Slots, Served(t), Grows, srv'.queue = srv.queue,
           \A i : News(i) => inbox'[i].ev # "success" \/ inbox'[i].room \notin MatchRooms,
           (task[t].request # "sent" /\ task'[t].request # "sent") \/ Stranger(task[t])
    PROVE  Queue'
<1>1. Keeping /\ UNCHANGED <<sent, strayed>> /\ \A u \in Slots \ {t} : task'[u] = task[u]
    BY ServedKeeps
<1>2. \A u \in Slots : Seeks(task[u]) \/ Withdraws(task[u]) =>
          (task'[u].request = "sent" <=> task[u].request = "sent")
    BY <1>1 DEF Stranger
<1> QED
    BY <1>1, <1>2, QueueGrows

LEMMA AnswerQueue ==
    ASSUME KTypeOK, Queue, NEW t \in Slots, Served(t), NEW w, Adds(Answer(t, w)),
           srv'.queue = srv.queue,
           (task[t].request # "sent" /\ task'[t].request # "sent") \/ Stranger(task[t])
    PROVE  Queue'
<1>1. Grows /\ \A i : News(i) => inbox'[i] = Answer(t, w)
    BY GrowsIs
<1>2. \A i : News(i) => inbox'[i].ev # "success"
    BY <1>1, AnswerFields
<1> QED
    BY <1>1, <1>2, AnswersQueue

LEMMA ServeMatchQueue ==
    ASSUME KTypeOK, Queue, NEW t \in Slots, ServeMatch(t)
    PROVE  Queue'
<1>1. /\ Served(t) /\ UNCHANGED inbox /\ task[t].op \in {"match", "cancel"}
      /\ task[t].at = task[t].op /\ srv'.queue = (task[t].op = "match")
      /\ task[t].request = "sent" /\ task'[t].request = "ok"
    BY ServeMatchDoes
<1>2. Keeping /\ UNCHANGED <<sent, strayed>> /\ \A u \in Slots \ {t} : task'[u] = task[u]
    BY <1>1, ServedKeeps
<1>3. /\ Waits' = Waits
      /\ \A u \in Slots : /\ Seeks(task'[u]) = Seeks(task[u])
                          /\ Withdraws(task'[u]) = Withdraws(task[u])
                          /\ Meets(task'[u]) = Meets(task[u])
    BY <1>2, SeeksKept
<1> SUFFICES ASSUME Waiting \notin strayed
             PROVE  Orderly'
    BY <1>2 DEF Queue
<1>4. Orderly
    BY DEF Queue
<1>5. \A n : Matched(n)' <=> Matched(n)
    BY <1>1 DEF Matched
<1>6. Lone' /\ Once'
    BY <1>1, <1>3, <1>4, <1>5 DEF Orderly, Lone, Once
<1>7. CASE task[t].op = "match"
    <2>1. Seeks(task[t]) /\ ~Withdraws(task[t]) /\ srv'.queue
        BY <1>1, <1>7 DEF Seeks, Withdraws
    <2>2. \A u \in Slots : ~Withdraws(task[u]) /\ (Seeks(task[u]) => u = t)
        BY <1>4, <2>1 DEF Orderly, Lone
    <2>3. Wanted' /\ Awaited' /\ Withdrawn'
        BY <1>1, <1>3, <1>4, <2>1, <2>2 DEF Orderly, Wanted, Awaited, Withdrawn
    <2>4. Searching
        BY <1>1, <2>1 DEF Searching
    <2>5. Early'
        BY <1>3, <1>4, <1>5, <2>4 DEF Orderly, Early
    <2> QED
        BY <1>6, <2>3, <2>5 DEF Orderly
<1>8. CASE task[t].op = "cancel"
    <2>1. Withdraws(task[t]) /\ ~Seeks(task[t]) /\ ~srv'.queue
        BY <1>1, <1>8 DEF Seeks, Withdraws
    <2>2. \A u \in Slots : ~Seeks(task[u])
        BY <1>4, <2>1 DEF Orderly, Lone
    <2>3. Wanted' /\ Awaited' /\ Early'
        BY <1>3, <2>1, <2>2 DEF Wanted, Awaited, Early, Searching
    <2>4. \A i \in 1..Len(inbox) : ~(inbox[i].ev = "answer" /\ inbox[i].room = t)
        BY <1>1 DEF KTypeOK, Answering
    <2>5. \A u \in Slots \ {t} : task'[u].request = task[u].request
        BY <1>2
    <2>6. Withdrawn'
        BY <1>1, <1>3, <1>4, <1>5, <2>1, <2>4, <2>5 DEF Orderly, Withdrawn
    <2> QED
        BY <1>6, <2>3, <2>6 DEF Orderly
<1> QED
    BY <1>1, <1>7, <1>8
LEMMA FoundQueue ==
    ASSUME KTypeOK, Queue, NEW r \in MatchRooms, Match(r)
    PROVE  Queue'
<1>1. /\ Apart /\ UNCHANGED <<strayed, sent>> /\ srv.queue /\ srv'.queue = FALSE
      /\ Adds(Event("success", r, {}))
    BY MatchDoes
<1>2. Keeping /\ task' = task
    BY <1>1, ApartKeeps
<1>3. /\ Waits' = Waits
      /\ \A u \in Slots : /\ Seeks(task'[u]) = Seeks(task[u])
                          /\ Withdraws(task'[u]) = Withdraws(task[u])
                          /\ Meets(task'[u]) = Meets(task[u])
    BY <1>2, SeeksKept
<1> SUFFICES ASSUME Waiting \notin strayed
             PROVE  Orderly'
    BY <1>1 DEF Queue
<1>4. Orderly
    BY DEF Queue
<1>5. ~Matched(0) /\ \A t \in Slots : ~Meets(task[t])
    BY <1>1, <1>4 DEF Orderly, Early, Searching
<1>6. Lone' /\ Wanted' /\ Awaited'
    BY <1>1, <1>3, <1>4 DEF Orderly, Lone, Wanted, Awaited
<1>7. Early'
    BY <1>1, <1>2, <1>4 DEF Orderly, Early, Searching, Wanted
<1>8. Once'
    <2>1. \A i \in 1..Len(inbox') : inbox'[i].ev = "success" /\ inbox'[i].room \in MatchRooms =>
              i = Len(inbox) + 1
        BY <1>1, <1>5 DEF Matched, Adds
    <2> QED
        BY <1>3, <1>5, <2>1 DEF Once
<1>9. Withdrawn'
    BY <1>1, <1>2, <1>4 DEF Orderly, Withdrawn
<1> QED
    BY <1>6, <1>7, <1>8, <1>9 DEF Orderly

LEMMA ServeQueue ==
    ASSUME KTypeOK, Queue, NEW t \in Slots, Serve(t)
    PROVE  Queue'
<1>0. Route(task[t].op, task[t].at)
    BY FitsIs DEF WellFormed
<1>1. CASE ServeMatch(t)
    BY <1>1, ServeMatchQueue
<1>2. CASE ServeRing(t)
    <2>1. task[t].op = "ring" /\ Served(t)
        BY <1>2, ServeRingDoes
    <2>2. PICK ok \in BOOLEAN :
              /\ Adds(Answer(t, ok))
              /\ \/ ~ok /\ srv' = srv
                 \/ ok /\ srv.ring[task[t].room] = "none" /\ srv' = Ring(task[t].room, "mine")
        BY <1>2, ServeRingDoes
    <2>3. task[t].room \in Chats /\ "mine" \in Rings4
        BY <1>2, ServeRingDoes DEF Rings4
    <2>4. srv'.queue = srv.queue
        BY <2>2, <2>3, RingIs
    <2> QED
        BY <2>1, <2>2, <2>4, AnswerQueue DEF Stranger, Seeks, Withdraws
<1>3. CASE ServeAccept(t)
    <2>1. task[t].op = "accept" /\ Served(t) /\ task[t].room \in Chats
        BY <1>3, ServeAcceptDoes
    <2>2. Stranger(task[t])
        BY <2>1 DEF Stranger, Seeks, Withdraws
    <2>3. CASE Adds(Answer(t, FALSE)) /\ srv' = srv
        BY <2>1, <2>2, <2>3, AnswerQueue
    <2>4. CASE /\ AddsTwo(Event("success", task[t].room, {}), Answer(t, TRUE))
               /\ srv'.queue = srv.queue
        <3>1. /\ Grows
              /\ \A i : News(i) => \/ inbox'[i] = Event("success", task[t].room, {})
                                   \/ inbox'[i] = Answer(t, TRUE)
            BY <2>4, GrowsIs
        <3>2. \A i : News(i) => inbox'[i].ev # "success" \/ inbox'[i].room = task[t].room
            <4> SUFFICES ASSUME NEW i, News(i)
                         PROVE  inbox'[i].ev # "success" \/ inbox'[i].room = task[t].room
                OBVIOUS
            <4>1. CASE inbox'[i] = Event("success", task[t].room, {})
                BY <4>1, EventFields
            <4>2. CASE inbox'[i] = Answer(t, TRUE)
                BY <4>2 DEF Answer, Event
            <4> QED
                BY <3>1, <4>1, <4>2
        <3>3. task[t].room \notin MatchRooms
            BY <2>1, MediaClientAssumption
        <3> QED
            BY <2>1, <2>2, <2>4, <3>1, <3>2, <3>3, AnswersQueue
    <2> QED
        BY <1>3, <2>3, <2>4, ServeAcceptDoes
<1>4. CASE ServeReject(t)
    <2>1. task[t].op = "reject" /\ Served(t) /\ srv' = srv /\ \E ok \in BOOLEAN : Adds(Answer(t, ok))
        BY <1>4, ServeRejectDoes
    <2> QED
        BY <2>1, AnswerQueue DEF Stranger, Seeks, Withdraws
<1>5. CASE ServeExisting(t)
    <2>1. task[t].op = "accept" /\ Served(t) /\ srv' = srv /\ Adds(Answer(t, TRUE))
        BY <1>5, ServeExistingDoes
    <2> QED
        BY <2>1, AnswerQueue DEF Stranger, Seeks, Withdraws
<1>6. CASE ServeEnd(t)
    <2>1. /\ task[t].op = "end" /\ Served(t) /\ srv'.queue = srv.queue
          /\ inbox' = inbox \/ Adds(Event("over", task[t].room, {}))
        BY <1>6, ServeEndDoes DEF EndsCall, Emptied
    <2>2. Grows /\ \A i : News(i) => inbox'[i] = Event("over", task[t].room, {})
        BY <2>1, GrowsIs
    <2>3. \A i : News(i) => inbox'[i].ev # "success"
        BY <2>2, EventFields
    <2> QED
        BY <2>1, <2>2, <2>3, AnswersQueue DEF Stranger, Seeks, Withdraws
<1>7. CASE Reply(t)
    <2>1. /\ task[t].request # "sent" /\ Served(t) /\ srv' = srv /\ task'[t].request = "none"
          /\ \E ok \in BOOLEAN : Adds(Answer(t, ok))
        BY <1>7, ReplyDoes
    <2> QED
        BY <2>1, AnswerQueue
<1>8. CASE ServeMedia(t)
    <2>1. /\ task[t].at \in {"send", "recv", "video", "audio", "screen", "turn", "shared"}
          /\ Served(t) /\ srv' = srv /\ Adds(Answer(t, TRUE))
        BY <1>8, ServeMediaDoes
    <2>2. Stranger(task[t])
        BY <1>0, <2>1 DEF Stranger, Seeks, Withdraws, Route, Tracks
    <2> QED
        BY <2>1, <2>2, AnswerQueue
<1>9. CASE ServeConsume(t)
    <2>1. task[t].op = "consume" /\ Served(t) /\ srv' = srv /\ \E w : Adds(Answer(t, w))
        BY <1>9, ServeConsumeDoes
    <2> QED
        BY <2>1, AnswerQueue DEF Stranger, Seeks, Withdraws
<1>10. CASE NoAnswer(t)
    <2>1. /\ task[t].at \in {"video", "audio", "screen", "consume"} /\ task'[t] = Idle /\ Leaves(t)
          /\ strayed \subseteq strayed' /\ UNCHANGED <<store, srv, inbox, sent>>
        BY <1>10, NoAnswerDoes
    <2>2. Stranger(task[t]) /\ Stranger(task'[t]) /\ ~Meets(task'[t])
        BY <1>0, <2>1, IdleIsStranger DEF Stranger, Seeks, Withdraws, Route
    <2>3. Shift(0) /\ 0 \in {0, 1} /\ Calm
        BY <2>1 DEF Shift, Calm
    <2> QED
        BY <2>1, <2>2, <2>3, LightQueue
<1> QED
    BY <1>1, <1>2, <1>3, <1>4, <1>5, <1>6, <1>7, <1>8, <1>9, <1>10 DEF Serve

\* What else the server and the others tell.
LEMMA TellsQueue ==
    ASSUME KTypeOK, Queue, Apart, strayed \subseteq strayed', srv'.queue = srv.queue,
           \/ inbox' = inbox
           \/ \E ev \in {"over", "left", "joined", "new", "incoming"} : \E r, who :
                  Adds(Event(ev, r, who))
           \/ \E c \in Chats : \E p : AddsTwo(Event("success", c, {}), Event("joined", c, p))
    PROVE  Queue'
<1>1. Keeping /\ task' = task
    BY ApartKeeps
<1>2. /\ Grows
      /\ \A i : News(i) => inbox'[i].ev # "success" \/ inbox'[i].room \notin MatchRooms
    <2>1. CASE inbox' = inbox
        BY <2>1, GrowsIs
    <2>2. ASSUME NEW ev \in {"over", "left", "joined", "new", "incoming"}, NEW r, NEW who,
                 Adds(Event(ev, r, who))
          PROVE  Grows /\ \A i : News(i) => inbox'[i].ev # "success"
        <3>1. Grows /\ \A i : News(i) => inbox'[i] = Event(ev, r, who)
            BY <2>2, GrowsIs
        <3> QED
            BY <3>1, EventFields
    <2>3. ASSUME NEW c \in Chats, NEW p, AddsTwo(Event("success", c, {}), Event("joined", c, p))
          PROVE  Grows /\ \A i : News(i) => inbox'[i].room = c
        <3>1. /\ Grows
              /\ \A i : News(i) => \/ inbox'[i] = Event("success", c, {})
                                   \/ inbox'[i] = Event("joined", c, p)
            BY <2>3, GrowsIs
        <3> QED
            BY <3>1, EventFields
    <2> QED
        BY <2>1, <2>2, <2>3, MediaClientAssumption
<1> QED
    BY <1>1, <1>2, QueueGrows
LEMMA EmissionsQueue ==
    ASSUME KTypeOK, Queue, Emissions
    PROVE  Queue'
<1>1. ASSUME NEW r \in Rooms, TakeLeave(r)
      PROVE  Queue'
    BY <1>1, TakeLeaveDoes, TellsQueue
<1>2. ASSUME NEW c \in Chats, TakeEnd(c)
      PROVE  Queue'
    <2>1. /\ Apart /\ UNCHANGED strayed /\ srv'.queue = srv.queue
          /\ inbox' = inbox \/ Adds(Event("over", c, {}))
        BY <1>2, TakeEndDoes DEF EndsCall, Emptied
    <2> QED
        BY <2>1, TellsQueue
<1>3. ASSUME NEW r \in Rooms, TakeFeeds(r)
      PROVE  Queue'
    <2>1. /\ Apart /\ UNCHANGED <<srv, strayed>>
          /\ inbox' = inbox \/ Adds(Event("new", r, srv.feeds \intersect srv.present[r]))
        BY <1>3, TakeFeedsDoes
    <2> QED
        BY <2>1, TellsQueue
<1>4. ASSUME NEW r \in Rooms, NEW p \in Members[r], MateLeft(r, p)
      PROVE  Queue'
    <2>1. /\ Apart /\ UNCHANGED strayed /\ srv'.queue = srv.queue
          /\ \/ inbox' = inbox \/ Adds(Event("over", r, {}))
             \/ Adds(Event("left", r, p))
        BY <1>4, MateLeftDoes
    <2> QED
        BY <2>1, TellsQueue
<1>5. ASSUME NEW c \in Chats, NEW p \in Members[c], MateEnds(c, p)
      PROVE  Queue'
    <2>1. /\ Apart /\ UNCHANGED strayed /\ srv'.queue = srv.queue
          /\ \/ inbox' = inbox \/ Adds(Event("over", c, {}))
             \/ Adds(Event("left", c, p))
        BY <1>5, MateEndsDoes DEF Emptied
    <2> QED
        BY <2>1, TellsQueue
<1> QED
    BY <1>1, <1>2, <1>3, <1>4, <1>5 DEF Emissions

LEMMA OthersQueue ==
    ASSUME KTypeOK, Queue, Others
    PROVE  Queue'
<1>1. ASSUME NEW r \in Rooms, NEW p \in Members[r], MateHangsUp(r, p)
      PROVE  Queue'
    BY <1>1, MateHangsUpDoes, TellsQueue
<1>2. ASSUME NEW r \in Rooms, NEW p \in Members[r], MateProduces(r, p)
      PROVE  Queue'
    BY <1>2, MateProducesDoes, TellsQueue
<1>3. ASSUME NEW c \in Chats, RingOver(c)
      PROVE  Queue'
    BY <1>3, RingOverDoes, TellsQueue DEF Emptied
<1>4. ASSUME NEW c \in Chats, NEW p \in Members[c], FriendCalls(c, p)
      PROVE  Queue'
    BY <1>4, FriendCallsDoes, TellsQueue
<1>5. ASSUME NEW c \in Chats, NEW p \in Members[c], FriendAccepts(c, p)
      PROVE  Queue'
    <2>1. /\ Apart /\ UNCHANGED strayed /\ srv'.queue = srv.queue
          /\ \/ AddsTwo(Event("success", c, {}), Event("joined", c, p))
             \/ Adds(Event("joined", c, p))
        BY <1>5, FriendAcceptsDoes
    <2> QED
        BY <2>1, TellsQueue
<1> QED
    BY FoundQueue, <1>1, <1>2, <1>3, <1>4, <1>5 DEF Others

\* Nobody is in the queue, and nobody asks for it or takes it back.
LEMMA LostQueue ==
    ASSUME KTypeOK, ConnectionLost
    PROVE  Queue'
<1>1. inbox' = <<>> /\ Len(inbox') = 0 /\ srv'.queue = FALSE
    BY ConnectionLostDoes DEF Drops
<1>2. \A t \in Slots : ~Seeks(task'[t]) /\ ~Withdraws(task'[t])
    <2> SUFFICES ASSUME NEW t \in Slots, Seeks(task'[t]) \/ Withdraws(task'[t]) PROVE FALSE
        OBVIOUS
    <2>1. task'[t] = task[t] /\ ~Awaits(task[t].at)
        BY LostTask DEF Seeks, Withdraws
    <2>2. Route(task[t].op, task[t].at)
        BY FitsIs DEF WellFormed
    <2> QED
        BY <2>1, <2>2 DEF Seeks, Withdraws, Route, Awaits, Tracks
<1>3. ~Matched(0)'
    BY <1>1 DEF Matched
<1>4. Lone' /\ Wanted' /\ Withdrawn'
    BY <1>2 DEF Lone, Wanted, Withdrawn
<1>5. ~Searching'
    BY <1>1, <1>2 DEF Searching
<1>6. Awaited' /\ Early'
    BY <1>1, <1>3, <1>5 DEF Awaited, Early
<1>7. Once'
    BY <1>1, <1>3 DEF Once
<1> QED
    BY <1>4, <1>6, <1>7 DEF Queue, Orderly

LEMMA NextQueue ==
    ASSUME KTypeOK, Queue, KNext
    PROVE  Queue'
BY CameraQueue, SetupQueue, ResumeQueue, ServeQueue, EventQueue, ClickQueue, EmissionsQueue,
   OthersQueue, LostQueue DEF KNext

LEMMA HoldShows == KTypeOK /\ Hold /\ Queue => SeatedIsShown
<1> SUFFICES ASSUME KTypeOK, Hold, Queue
             PROVE  SeatedIsShown
    OBVIOUS
<1>1. ASSUME NEW r \in Rooms \ strayed, Holds(r)
      PROVE  Shows(r) \/ Underway(r)
    <2>1. Due(r)
        BY <1>1 DEF Hold, Shown
    <2> QED
        BY <2>1 DEF Due, Later, Says, Sets, Underway
<1>2. ASSUME srv.queue, Waiting \notin strayed
      PROVE  store.state = "inMatchWait" \/ Running({"match", "cancel"})
    BY <1>2 DEF Queue, Orderly, Awaited, Waits, Seeks, Withdraws, Running
<1> QED
    BY <1>1, <1>2 DEF SeatedIsShown

\* A user the server holds in a match, in a call or in the queue is shown it, or soon
\* will be, unless the page gave it up for another one (useMatch.ts,
\* useCallManagement.ts): no order of answers, events and clicks loses it.
THEOREM PageShowsHeld == KSpec => []SeatedIsShown
<1>1. KInit => Hold /\ Queue
    BY InitHold, InitQueue
<1>2. KTypeOK /\ Hold /\ [KNext]_kvars => Hold'
    BY StepHold
<1>3. KTypeOK /\ Queue /\ [KNext]_kvars => Queue'
    <2>1. ASSUME KTypeOK, Queue, UNCHANGED kvars
          PROVE  Queue'
        <3>1. /\ Shift(0) /\ 0 \in {0, 1} /\ Calm /\ task' = task
              /\ Waits' = Waits /\ strayed' = strayed
            BY <2>1 DEF kvars, Shift, Calm, Waits
        <3> QED
            BY <2>1, <3>1, QueueStays
    <2> QED
        BY <2>1, NextQueue
<1> QED
    BY <1>1, <1>2, <1>3, HoldShows, PageTypeCorrect, PTL DEF KSpec
-----------------------------------------------------------------------------
(* Whoever produces where the user is held and shown is consumed.          *)

\* Who is in a room or in its call, and who produces, is one of its members.
Within ==
    /\ \A r \in Rooms : /\ srv.present[r] \subseteq Members[r]
                        /\ srv.feeds \intersect Members[r] \subseteq srv.present[r]
    /\ \A c \in Chats : srv.listed[c] \subseteq Members[c]

\* A set-up that no end crossed.
Setting(k) == k.op = "setup" /\ ~k.crossed
SettingUp == \E t \in Slots : Setting(task[t])
Prepares(r) == \E t \in Slots : Setting(task[t]) /\ task[t].room = r
Received ==
    \A t \in Slots : Setting(task[t]) /\ task[t].at \in {"video", "audio"} => media.recv # NoRoom

\* A match is shown while it is set up.
Greets(k) == Setting(k) /\ k.at # "camera" /\ k.room \in MatchRooms
Greeted == \A t \in Slots : Greets(task[t]) => Shows(task[t].room)

\* Who accepts a call that the user is taken into learns of it, and sets it up.
Admits(i, r) ==
    inbox[i].ev = "answer" /\ inbox[i].who = TRUE /\ Accepts(task[inbox[i].room], r)
Admitted ==
    \A i \in 1..Len(inbox), r \in Rooms : Admits(i, r) /\ Holds(r) =>
        Later(0, "success", r) \/ Shows(r) \/ Prepares(r)

\* The feed of p in r is consumed, or will be.
Consumes(k, r) == k.op = "consume" /\ k.room = r /\ ~k.crossed /\ ~k.closed
Tells(i, r, p) == Says(i, "new", r) /\ p \in inbox[i].who
Brought(i, r, p) ==
    inbox[i].ev = "answer" /\ Consumes(task[inbox[i].room], r) /\ inbox[i].who = p
Coming(r, p) ==
    \/ media.consumers[<<r, p>>] > 0
    \/ <<"feeds", r>> \in sent
    \/ \E i \in 1..Len(inbox) : Tells(i, r, p) \/ Brought(i, r, p)
    \/ \E t \in Slots : Consumes(task[t], r) /\ p \in task[t].left
Reached(r) ==
    \/ Later(0, "success", r)
    \/ SettingUp
    \/ media.recv # NoRoom /\ \A p \in srv.feeds \intersect srv.present[r] : Coming(r, p)
Fed == \A r \in Rooms : Holds(r) /\ Shows(r) => Reached(r)

Feeding ==
    /\ Received
    /\ strayed = {} => Greeted /\ Admitted
    /\ strayed = {} /\ ~touched => Fed

LEMMA InitFeeding ==
    ASSUME KInit
    PROVE  Within /\ Feeding
<1>1. /\ store.state = "ended" /\ inbox = <<>> /\ \A t \in Slots : task[t] = Idle
      /\ srv.present = [r \in Rooms |-> {}] /\ srv.listed = [c \in Chats |-> {}]
      /\ srv.feeds = {}
    BY DEF KInit, FreshStore
<1>2. Within
    BY <1>1 DEF Within
<1>3. \A t \in Slots : ~Setting(task[t])
    BY <1>1, IdleFits DEF Setting
<1>4. \A r : ~Shows(r)
    BY <1>1 DEF Shows, Live
<1>5. Received /\ Greeted /\ Fed
    BY <1>3, <1>4 DEF Received, Greets, Greeted, Fed
<1>6. Len(inbox) = 0
    BY <1>1
<1>7. Admitted
    BY <1>6 DEF Admitted
<1> QED
    BY <1>2, <1>5, <1>7 DEF Feeding

\* What is shown goes on being shown, but for what the step is about.
LEMMA ShowsStrays ==
    ASSUME KTypeOK, NEW about, Witness(about), NEW r \in Rooms, Shows(r), strayed' = {}
    PROVE  Shows(r)' \/ r \in about
<1>1. Held(store) = r /\ r # NoRoom /\ r # Waiting
    BY MediaClientAssumption, WaitingAssumption DEF Shows, Held, Live
<1>2. Held(store') = r => Shows(r)'
    <2>1. CASE store'.state = "inMatchWait"
        BY <1>1, <2>1 DEF Held, Live
    <2>2. CASE store'.state \in Live
        BY <2>2 DEF Held, Live, Shows
    <2>3. CASE store'.state \notin Live /\ store'.state # "inMatchWait"
        BY <1>1, <2>3 DEF Held, Live
    <2> QED
        BY <2>1, <2>2, <2>3
<1> QED
    BY <1>1, <1>2 DEF Witness

\* A step of the page: it loses nothing of what is shown and set up but by straying.
LEMMA FeedKept ==
    ASSUME KTypeOK, Feeding, NEW d \in {0, 1}, Shift(d), Calm, Received',
           strayed' = {} =>
               /\ \A r \in Rooms : Shows(r) =>
                      Shows(r)' \/ (r \in Chats /\ (Holds(r) => Later(0, "success", r)'))
               /\ \A u \in Slots : \A r \in Rooms : Greets(task'[u]) /\ task'[u].room = r =>
                      Shows(r)' \/ (Greets(task[u]) /\ r = task[u].room)
               /\ \A u \in Slots, r \in Chats : Setting(task[u]) /\ task[u].room = r =>
                      Shows(r)' \/ Prepares(r)'
               /\ \A r \in Chats : d = 1 /\ Says(1, "success", r) => Prepares(r)'
               /\ \A u \in Slots, r \in Rooms : Accepts(task'[u], r) =>
                      Accepts(task[u], r) \/ task[u] = Idle
               /\ ~touched' => \A r \in Rooms : Holds(r) /\ Shows(r)' => Reached(r)'
    PROVE  Feeding'
<1>1. strayed' = {} => strayed = {}
    BY DEF Calm
<1>2. \A r : Holds(r)' = Holds(r)
    BY DEF Calm, Holds
<1>3. ASSUME strayed' = {}
      PROVE  Greeted'
    <2> SUFFICES ASSUME NEW u \in Slots, Greets(task[u])'
                 PROVE  Shows(task[u].room)'
        BY DEF Greeted
    <2>1. PICK r \in Rooms : r = task'[u].room
        BY DEF Greets, Rooms
    <2>2. Greets(task'[u]) /\ r \notin Chats
        BY <2>1, MediaClientAssumption DEF Greets, Setting, Rooms
    <2>3. Shows(r)' \/ (Greets(task[u]) /\ r = task[u].room)
        BY <1>3, <2>1, <2>2
    <2>4. ASSUME Greets(task[u]), r = task[u].room
          PROVE  Shows(r)'
        <3>1. Shows(task[u].room)
            BY <1>1, <1>3, <2>4 DEF Feeding, Greeted
        <3>2. Shows(r)
            BY <2>4, <3>1
        <3> QED
            BY <1>3, <2>2, <3>2
    <2>5. Shows(r)'
        BY <2>3, <2>4
    <2> QED
        BY <2>1, <2>5 DEF Shows
<1>4. ASSUME strayed' = {}
      PROVE  Admitted'
    <2> SUFFICES ASSUME NEW j \in 1..Len(inbox'), NEW r \in Rooms, Admits(j, r)', Holds(r)
                 PROVE  Later(0, "success", r)' \/ Shows(r)' \/ Prepares(r)'
        BY <1>2 DEF Admitted
    <2>1. j + d \in 1..Len(inbox) /\ inbox'[j] = inbox[j + d]
        BY ShiftIs
    <2>2. PICK t \in Slots : t = inbox[j + d].room /\ Accepts(task'[t], r)
          /\ inbox[j + d].ev = "answer" /\ inbox[j + d].who = TRUE
        <3>1. inbox[j + d] \in Message
            BY <2>1 DEF KTypeOK, Types
        <3> QED
            BY <2>1, <3>1, MessageFields DEF Admits
    <2>3. task[t] # Idle
        <3>1. Awaits(task[t].at)
            BY <2>1, <2>2 DEF KTypeOK, Answering
        <3> QED
            BY <3>1, IdleFits DEF Awaits
    <2>4. Accepts(task[t], r)
        BY <1>3, <1>4, <2>2, <2>3
    <2>5. r \in Chats
        BY <2>4, FitsIs DEF Sited, Accepts
    <2>6. Later(0, "success", r) \/ Shows(r) \/ Prepares(r)
        BY <1>1, <1>4, <2>1, <2>2, <2>4 DEF Feeding, Admitted, Admits
    <2>7. CASE Later(0, "success", r)
        <3>1. PICK n \in 1..Len(inbox) : Says(n, "success", r)
            BY <2>7 DEF Later
        <3>2. CASE n > d
            <4>1. n - d \in 1..Len(inbox') /\ inbox'[n - d] = inbox[n]
                BY <3>2, ShiftIs
            <4> QED
                BY <3>1, <4>1 DEF Later, Says
        <3>3. CASE ~(n > d)
            <4>1. d = 1 /\ n = 1
                BY <3>3
            <4> QED
                BY <1>4, <2>5, <3>1, <4>1
        <3> QED
            BY <3>2, <3>3
    <2>8. CASE Shows(r)
        BY <1>4, <2>8
    <2>9. CASE Prepares(r)
        BY <1>4, <2>5, <2>9 DEF Prepares
    <2> QED
        BY <2>6, <2>7, <2>8, <2>9
<1>5. ASSUME strayed' = {}, ~touched'
      PROVE  Fed'
    BY <1>2, <1>5 DEF Fed
<1> QED
    BY <1>3, <1>4, <1>5 DEF Feeding

\* Who is reached stays so while the page goes on with other things.
LEMMA ReachedKept ==
    ASSUME KTypeOK, NEW d \in {0, 1}, Shift(d), Calm, NEW r \in Rooms, Reached(r),
           d = 1 => ~Says(1, "success", r) /\ ~Says(1, "new", r),
           d = 1 /\ Head(inbox).ev = "answer" => ~Consumes(task[Head(inbox).room], r),
           media'.recv = media.recv, media'.consumers = media.consumers,
           \A u \in Slots : Setting(task[u]) => Setting(task'[u]),
           \A u \in Slots : Consumes(task[u], r) =>
               Consumes(task'[u], r) /\ task'[u].left = task[u].left
    PROVE  Reached(r)'
<1>1. CASE Later(0, "success", r)
    <2>1. PICK n \in 1..Len(inbox) : Says(n, "success", r)
        BY <1>1 DEF Later
    <2>2. n > d
        BY <2>1
    <2>3. n - d \in 1..Len(inbox') /\ inbox'[n - d] = inbox[n]
        BY <2>2, ShiftIs
    <2> QED
        BY <2>1, <2>3 DEF Reached, Later, Says
<1>2. CASE SettingUp
    BY <1>2 DEF Reached, SettingUp
<1>3. CASE media.recv # NoRoom /\ \A p \in srv.feeds \intersect srv.present[r] : Coming(r, p)
    <2> SUFFICES ASSUME NEW p \in srv.feeds \intersect srv.present[r]
                 PROVE  Coming(r, p)'
        BY <1>3 DEF Reached, Calm
    <2>1. Coming(r, p)
        BY <1>3
    <2>2. CASE media.consumers[<<r, p>>] > 0 \/ <<"feeds", r>> \in sent
        BY <2>2 DEF Coming, Calm
    <2>3. ASSUME NEW i \in 1..Len(inbox), Tells(i, r, p) \/ Brought(i, r, p)
          PROVE  Coming(r, p)'
        <3>1. inbox[i] \in Message
            BY DEF KTypeOK, Types
        <3>2. i > d
            BY <2>3, HeadIs DEF Tells, Brought, Says, Shift
        <3>3. i - d \in 1..Len(inbox') /\ inbox'[i - d] = inbox[i]
            BY <3>2, ShiftIs
        <3>4. Tells(i, r, p) => Tells(i - d, r, p)'
            BY <3>3 DEF Tells, Says
        <3>5. Brought(i, r, p) => Brought(i - d, r, p)'
            BY <3>1, <3>3, MessageFields DEF Brought
        <3> QED
            BY <2>3, <3>3, <3>4, <3>5 DEF Coming
    <2>4. CASE \E t \in Slots : Consumes(task[t], r) /\ p \in task[t].left
        BY <2>4 DEF Coming
    <2> QED
        BY <2>1, <2>2, <2>3, <2>4 DEF Coming
<1> QED
    BY <1>1, <1>2, <1>3 DEF Reached
\* One function goes on, and what is shown, set up and consumed stays.
LEMMA FeedSteps ==
    ASSUME KTypeOK, Feeding, NEW d \in {0, 1}, Shift(d), Calm, NEW t \in Slots, Closes(t),
           d = 1 => Head(inbox).ev = "answer" /\ Head(inbox).room = t,
           task[t].op # "consume",
           \A u \in Slots \ {t} : task[u].op = "consume" => task'[u].closed = task[u].closed,
           strayed' = {} /\ Setting(task[t]) =>
               Setting(task'[t]) /\ task'[t].room = task[t].room,
           Greets(task'[t]) => Greets(task[t]),
           Setting(task'[t]) /\ task'[t].at \in {"video", "audio"} => media.recv # NoRoom,
           \A r \in Rooms : Accepts(task'[t], r) => task[t] = Idle,
           media'.recv = media.recv, media'.consumers = media.consumers, touched => touched',
           strayed' = {} => \A r \in Rooms : Shows(r) <=> Shows(r)'
    PROVE  Feeding'
<1>1. \A u \in Slots \ {t} :
          /\ Setting(task'[u]) = Setting(task[u]) /\ Greets(task'[u]) = Greets(task[u])
          /\ task'[u].room = task[u].room /\ task'[u].left = task[u].left
          /\ task'[u].at = task[u].at
          /\ \A r : Accepts(task'[u], r) = Accepts(task[u], r)
          /\ \A r : Consumes(task[u], r) => Consumes(task'[u], r)
    BY DEF Closes, Setting, Greets, Accepts, Consumes
<1>2. Received'
    <2> SUFFICES ASSUME NEW u \in Slots, Setting(task'[u]), task'[u].at \in {"video", "audio"}
                 PROVE  media.recv # NoRoom
        BY DEF Received, Setting
    <2>1. CASE u = t
        BY <2>1
    <2>2. CASE u # t
        BY <1>1, <2>2 DEF Feeding, Received
    <2> QED
        BY <2>1, <2>2
<1>3. \A r : d = 1 => ~Says(1, "success", r) /\ ~Says(1, "new", r)
    BY HeadIs DEF Says, Shift
<1>4. \A r : Calm /\ d = 1 => ~Consumes(task[Head(inbox).room], r)
    BY DEF Consumes
<1>5. ASSUME strayed' = {}
      PROVE  /\ strayed = {}
             /\ \A u \in Slots : Setting(task[u]) =>
                    Setting(task'[u]) /\ task'[u].room = task[u].room
    BY <1>1, <1>5 DEF Calm
<1>6. ASSUME strayed' = {}, ~touched', NEW r \in Rooms, Holds(r), Shows(r)'
      PROVE  Reached(r)'
    <2>1. Reached(r)
        BY <1>5, <1>6 DEF Feeding, Fed
    <2>2. \A u \in Slots : Consumes(task[u], r) =>
              Consumes(task'[u], r) /\ task'[u].left = task[u].left
        BY <1>1 DEF Consumes
    <2> QED
        BY <1>3, <1>4, <1>5, <1>6, <2>1, <2>2, ReachedKept
<1>7. ASSUME strayed' = {}, NEW u \in Slots, NEW r \in Rooms, Greets(task'[u]), task'[u].room = r
      PROVE  Greets(task[u]) /\ r = task[u].room
    <2>1. Greets(task[u])
        BY <1>1, <1>7
    <2>2. Setting(task[u])
        BY <2>1 DEF Greets
    <2> QED
        BY <1>5, <1>7, <2>1, <2>2
<1>8. ASSUME strayed' = {}, NEW u \in Slots, NEW r \in Chats, Setting(task[u]), task[u].room = r
      PROVE  Prepares(r)'
    <2>1. Setting(task'[u]) /\ task'[u].room = r
        BY <1>5, <1>8
    <2> QED
        BY <2>1 DEF Prepares, Setting
<1>9. \A u \in Slots, r \in Rooms : Accepts(task'[u], r) => Accepts(task[u], r) \/ task[u] = Idle
    BY <1>1
<1> QED
    BY <1>2, <1>3, <1>6, <1>7, <1>8, <1>9, FeedKept

\* The functions stay.
LEMMA FeedStays ==
    ASSUME KTypeOK, Feeding, NEW d \in {0, 1}, Shift(d), Calm, task' = task, media' = media,
           d = 1 => Head(inbox).ev \notin {"answer", "success", "new"}, touched' = touched,
           \A r \in Rooms : Shows(r)' => Shows(r),
           strayed' = {} => \A r \in Rooms : Shows(r) =>
               Shows(r)' \/ (r \in Chats /\ (Holds(r) => Later(0, "success", r)'))
    PROVE  Feeding'
<1>1. Received'
    BY DEF Feeding, Received, Setting
<1>2. \A r : d = 1 => ~Says(1, "success", r) /\ ~Says(1, "new", r)
    BY HeadIs DEF Says, Shift
<1>3. ASSUME strayed' = {}, ~touched', NEW r \in Rooms, Holds(r), Shows(r)'
      PROVE  Reached(r)'
    <2>1. Reached(r)
        BY <1>3 DEF Feeding, Fed, Calm
    <2>2. /\ media'.recv = media.recv /\ media'.consumers = media.consumers
          /\ \A u \in Slots : Setting(task[u]) => Setting(task'[u])
          /\ \A u \in Slots : Consumes(task[u], r) =>
                 Consumes(task'[u], r) /\ task'[u].left = task[u].left
        OBVIOUS
    <2> QED
        BY <1>2, <1>3, <2>1, <2>2, ReachedKept
<1>4. ASSUME NEW u \in Slots, NEW r \in Chats, Setting(task[u]), task[u].room = r
      PROVE  Prepares(r)'
    BY <1>4 DEF Prepares, Setting
<1> QED
    BY <1>1, <1>2, <1>3, <1>4, FeedKept

\* Every end of the page crosses what is under way.
LEMMA EndsFeed ==
    ASSUME KTypeOK, KTypeOK', NEW over, Ends(over), EndsPage
    PROVE  Feeding'
<1>1. \A u \in Slots : ~Setting(task'[u]) /\ \A r : ~Accepts(task'[u], r)
    BY IdleFits DEF Ends, Setting, Accepts
<1>2. \A r : ~Shows(r)'
    BY DEF EndsPage, Shows, Live
<1>3. Received' /\ Greeted' /\ Fed'
    BY <1>1, <1>2 DEF Received, Greeted, Greets, Fed, Setting
<1>4. Admitted'
    <2> SUFFICES ASSUME NEW i \in 1..Len(inbox'), NEW r \in Rooms, Admits(i, r)'
                 PROVE  FALSE
        BY DEF Admitted
    <2>1. inbox'[i] \in Message
        BY DEF KTypeOK, Types
    <2>2. inbox'[i].ev = "answer" => inbox'[i].room \in Slots
        BY <2>1, MessageFields
    <2> QED
        BY <1>1, <2>2 DEF Admits, Accepts
<1> QED
    BY <1>3, <1>4 DEF Feeding
\* A function sets something up, and nothing has been made yet.
LEMMA FeedSetsUp ==
    ASSUME KTypeOK, Feeding, NEW d \in {0, 1}, Shift(d), Calm, NEW t \in Slots, Leaves(t),
           media'.recv = media.recv, task'[t].op = "setup", task'[t].at \in {"camera", "device"},
           task'[t].crossed => touched',
           Setting(task[t]) => ~task'[t].crossed /\ task'[t].room = task[t].room,
           \A r \in Rooms : d = 1 /\ Says(1, "success", r) =>
               ~task'[t].crossed /\ task'[t].room = r,
           \A r \in Rooms : Greets(task'[t]) /\ task'[t].room = r => Shows(r)',
           strayed' = {} => \A r \in Rooms : Shows(r) => Shows(r)'
    PROVE  Feeding'
<1>1. \A u \in Slots \ {t} : task'[u] = task[u]
    BY DEF Leaves
<1>2. Received'
    <2> SUFFICES ASSUME NEW u \in Slots, Setting(task'[u]), task'[u].at \in {"video", "audio"}
                 PROVE  media.recv # NoRoom
        BY DEF Received, Setting
    <2>1. u # t
        OBVIOUS
    <2> QED
        BY <1>1, <2>1 DEF Feeding, Received
<1>3. ~task'[t].crossed => Setting(task'[t])
    BY DEF Setting
<1>4. ASSUME ~touched', NEW r \in Rooms
      PROVE  Reached(r)'
    BY <1>3, <1>4 DEF Reached, SettingUp, Setting
<1>5. ASSUME NEW u \in Slots, NEW r \in Rooms, Greets(task'[u]), task'[u].room = r
      PROVE  Shows(r)' \/ (Greets(task[u]) /\ r = task[u].room)
    BY <1>1, <1>5
<1>6. ASSUME NEW u \in Slots, NEW r \in Chats, Setting(task[u]), task[u].room = r
      PROVE  Prepares(r)'
    <2>1. Setting(task'[u]) /\ task'[u].room = r
        BY <1>1, <1>3, <1>6
    <2> QED
        BY <2>1 DEF Prepares, Setting
<1>7. ASSUME NEW r \in Chats, d = 1, Says(1, "success", r)
      PROVE  Prepares(r)'
    <2>1. Setting(task'[t]) /\ task'[t].room = r
        BY <1>3, <1>7 DEF Rooms
    <2> QED
        BY <2>1 DEF Prepares, Setting
<1>8. \A u \in Slots, r \in Rooms : Accepts(task'[u], r) => Accepts(task[u], r) \/ task[u] = Idle
    BY <1>1 DEF Accepts
<1> QED
    BY <1>2, <1>4, <1>5, <1>6, <1>7, <1>8, FeedKept

LEMMA ContinueFeed ==
    ASSUME KTypeOK, Feeding, NEW d \in {0, 1}, Shift(d), srv' = srv, sent' = sent,
           touched => touched',
           NEW t \in Slots, NEW k, NEW s, Starts(t, k, s), k.request = "none", Continue(t, k, s),
           task[t].op # "consume", ~Greets(task[t]),
           Setting(task[t]) => k.op = "setup" /\ ~k.crossed /\ k.room = task[t].room,
           k.op = "setup" /\ k.crossed => touched', k.op # "setup" => d = 0,
           \A r \in Rooms : d = 1 /\ Says(1, "success", r) => ~k.crossed /\ k.room = r
    PROVE  Feeding'
<1>1. Leaves(t) /\ Closes(t) /\ strayed \subseteq strayed' /\ Calm
    BY ContinueDoes, LeavesCloses DEF Calm
<1>2. s.state = store.state /\ s.room = store.room
    BY DEF Starts
<1>3. \A u \in Slots \ {t} : task'[u] = task[u]
    BY <1>1 DEF Leaves
<1>4. CASE AskMatch(t, k, s)
    <2>1. k.op = "match" /\ Asks(t, k, "match") /\ store' = s /\ media' = media
        BY <1>4, AskMatchDoes
    <2>2. task'[t].op = "match"
        BY <2>1 DEF Asks
    <2>3. ~Setting(task[t]) /\ ~Setting(task'[t]) /\ \A r : ~Accepts(task'[t], r)
        BY <2>1, <2>2 DEF Setting, Accepts
    <2>4. \A r : Shows(r)' <=> Shows(r)
        BY <1>2, <2>1 DEF Shows
    <2> QED
        BY <1>1, <1>3, <2>1, <2>3, <2>4, FeedSteps DEF Greets
<1>5. CASE AskRing(t, k, s) /\ Witness(About(k))
    <2>1. k.op = "ring" /\ Asks(t, k, "ring") /\ store'.state = "outGoing" /\ media' = media
        BY <1>5, AskRingDoes
    <2>2. task'[t].op = "ring"
        BY <2>1 DEF Asks
    <2>3. ~Setting(task[t]) /\ ~Setting(task'[t]) /\ \A r : ~Accepts(task'[t], r)
        BY <2>1, <2>2 DEF Setting, Accepts
    <2>4. \A r : ~Shows(r)'
        BY <2>1 DEF Shows, Live
    <2>5. About(k) = {}
        BY <2>1 DEF About
    <2>6. strayed' = {} => \A r \in Rooms : ~Shows(r)
        BY <1>5, <2>4, <2>5, ShowsStrays
    <2> QED
        BY <1>1, <1>3, <2>1, <2>3, <2>4, <2>6, FeedSteps DEF Greets
<1>6. CASE StartSetup(t, k, s) /\ Witness(About(k))
    <2>1. /\ k.op = "setup" /\ k.room \in Rooms /\ media' = media
          /\ task'[t].op = "setup" /\ task'[t].at = "device" /\ task'[t].room = k.room
          /\ task'[t].crossed = k.crossed
          /\ store'.state = (IF k.room \in MatchRooms THEN "inMatch" ELSE store.state)
          /\ store'.room = (IF k.room \in MatchRooms THEN k.room ELSE store.room)
        BY <1>6, StartSetupDoes
    <2>2. k.room \in MatchRooms => Shows(k.room)'
        BY <2>1 DEF Shows, Live
    <2>3. \A r \in Rooms : Greets(task'[t]) /\ task'[t].room = r => Shows(r)'
        BY <2>1 DEF Greets, Shows, Live
    <2>4. ASSUME strayed' = {}, NEW r \in Rooms, Shows(r)
          PROVE  Shows(r)'
        <3>1. CASE k.room \notin MatchRooms
            BY <2>1, <2>4, <3>1 DEF Shows
        <3>2. CASE k.room \in MatchRooms
            <4>1. Shows(r)' \/ r \in About(k)
                BY <1>6, <2>4, ShowsStrays
            <4>2. About(k) \subseteq {Waiting, k.room}
                BY <2>1, <3>2 DEF About
            <4>3. r # Waiting
                BY WaitingAssumption
            <4>4. r = k.room => Shows(r)'
                BY <2>1, <3>2 DEF Shows, Live
            <4> QED
                BY <4>1, <4>2, <4>3, <4>4
        <3> QED
            BY <3>1, <3>2
    <2> QED
        BY <1>1, <2>1, <2>3, <2>4, FeedSetsUp
<1>7. CASE Turn(t, k, s) /\ Witness(About(k))
    <2>1. /\ k.op \in Tracks /\ store'.state = store.state /\ store'.room = store.room
          /\ task'[t] = Idle \/ task'[t].op \in Tracks
        BY <1>7, TurnDoes
    <2>2. media'.recv = media.recv /\ media'.consumers = media.consumers
        <3>1. PICK x \in Tracks : x = k.op
            BY <2>1
        <3>2. \/ media' = media
              \/ media' = (IF ~k.flag THEN ResumeProducer(media, k.op) ELSE PauseProducer(media, k.op))
            BY <1>7, TurnDoes
        <3>3. media \in MediaType /\ x \in Produced
            BY DEF KTypeOK, Types, Produced
        <3> QED
            BY <3>1, <3>2, <3>3, ResumeIs, PauseIs
    <2>3. task'[t].op \in Tracks \union {"idle"}
        BY <2>1, IdleFits
    <2>4. ~Setting(task[t]) /\ ~Setting(task'[t]) /\ \A r : ~Accepts(task'[t], r)
        BY <2>1, <2>3 DEF Setting, Accepts, Tracks
    <2>5. \A r : Shows(r)' <=> Shows(r)
        BY <2>1 DEF Shows
    <2>6. k.op # "setup"
        BY <2>1 DEF Tracks
    <2> QED
        BY <1>1, <1>3, <2>2, <2>4, <2>5, <2>6, FeedSteps DEF Greets
<1> QED
    BY <1>4, <1>5, <1>6, <1>7 DEF Continue
LEMMA IdleFeeds ==
    /\ ~Setting(Idle) /\ ~Greets(Idle)
    /\ \A r : ~Accepts(Idle, r) /\ ~Consumes(Idle, r)
BY IdleFits DEF Setting, Greets, Accepts, Consumes

LEMMA BeginFeed ==
    ASSUME KTypeOK, Feeding, NEW d \in {0, 1}, Shift(d), srv' = srv, sent' = sent,
           touched' = touched, NEW k, Fresh(k), Begin(k), ~k.crossed, k.op # "setup" => d = 0,
           \A r \in Rooms : d = 1 /\ Says(1, "success", r) => k.room = r
    PROVE  Feeding'
<1>1. PICK t \in Slots :
          /\ task[t] = Idle /\ Leaves(t)
          /\ \/ Starts(t, k, store) /\ Continue(t, k, store)
             \/ /\ task'[t] = k /\ store.stream # "live"
                /\ UNCHANGED <<store, media, strayed>>
    BY BeginDoes
<1>2. /\ ~Setting(task[t]) /\ ~Greets(task[t]) /\ task[t].op = "idle"
      /\ \A r : ~Accepts(task[t], r)
    BY <1>1, IdleFeeds, IdleFits
<1>3. k.request = "none" /\ k.at = "camera" /\ k.op \in {"match", "ring", "setup"} \union Tracks
    BY DEF Fresh
<1>4. CASE Starts(t, k, store) /\ Continue(t, k, store)
    BY <1>2, <1>3, <1>4, ContinueFeed
<1>5. CASE task'[t] = k /\ UNCHANGED <<store, media, strayed>>
    <2>1. Calm /\ Closes(t) /\ \A u \in Slots \ {t} : task'[u] = task[u]
        BY <1>1, <1>5, LeavesCloses DEF Calm, Leaves
    <2>2. \A r : Shows(r)' <=> Shows(r)
        BY <1>5 DEF Shows
    <2>3. ~Greets(task'[t])
        BY <1>3, <1>5 DEF Greets
    <2>4. CASE k.op = "setup"
        BY <1>1, <1>2, <1>3, <1>5, <2>1, <2>2, <2>3, <2>4, FeedSetsUp
    <2>5. CASE k.op # "setup"
        <3>1. d = 0 /\ ~Setting(task'[t]) /\ \A r : ~Accepts(task'[t], r)
            BY <1>3, <1>5, <2>5 DEF Setting, Accepts
        <3> QED
            BY <1>2, <1>5, <2>1, <2>2, <2>3, <3>1, FeedSteps
    <2> QED
        BY <2>4, <2>5
<1> QED
    BY <1>1, <1>4, <1>5

LEMMA CameraFeed ==
    ASSUME KTypeOK, Feeding, NEW t \in Slots, CameraOpens(t) \/ CameraFails(t)
    PROVE  Feeding'
<1>0. Shift(0) /\ 0 \in {0, 1}
    BY DEF Shift, CameraOpens, CameraFails
<1>1. CASE CameraOpens(t)
    <2>1. PICK k, s : Opens(t, k, s)
        BY <1>1, CameraOpensDoes
    <2>2. /\ Starts(t, k, s) /\ Continue(t, k, s) /\ k.request = "none"
          /\ task[t].at = "camera" /\ k.op = task[t].op /\ k.room = task[t].room
          /\ k.crossed = task[t].crossed
        BY <2>1 DEF Opens
    <2>3. srv' = srv /\ sent' = sent /\ (touched => touched') /\ (k.crossed => touched')
        BY <1>1, <2>2 DEF CameraOpens
    <2>4. ~Greets(task[t]) /\ task[t].op # "consume"
        BY <2>2 DEF Greets, Starts, Tracks
    <2>5. Setting(task[t]) => k.op = "setup" /\ ~k.crossed /\ k.room = task[t].room
        BY <2>2 DEF Setting
    <2> QED
        BY <1>0, <2>2, <2>3, <2>4, <2>5, ContinueFeed
<1>2. CASE CameraFails(t)
    <2>1. KTypeOK'
        BY <1>2, CameraTypes
    <2>2. CASE Ends({t}) /\ EndsPage
        BY <2>1, <2>2, EndsFeed
    <2>3. CASE /\ task[t].op # "ring" /\ Leaves(t) /\ UNCHANGED <<store, media, touched>>
               /\ strayed \subseteq strayed'
               /\ task[t].op = "setup" => strayed' = strayed \union {task[t].room}
        <3>1. task'[t] = Idle /\ task[t].at = "camera" /\ UNCHANGED <<sent, srv>>
            BY <1>2, CameraFailsDoes
        <3>2. Calm /\ Closes(t) /\ \A u \in Slots \ {t} : task'[u] = task[u]
            BY <2>3, <3>1, LeavesCloses DEF Calm, Leaves
        <3>3. \A r : Shows(r)' <=> Shows(r)
            BY <2>3 DEF Shows
        <3>4. task[t].op # "consume"
            BY <3>1, FitsIs DEF WellFormed, Route, Tracks
        <3>5. ~(strayed' = {} /\ Setting(task[t]))
            BY <2>3 DEF Setting
        <3>6. ~Setting(task'[t]) /\ ~Greets(task'[t]) /\ \A r : ~Accepts(task'[t], r)
            BY <3>1, IdleFeeds
        <3> QED
            BY <1>0, <2>3, <3>2, <3>3, <3>4, <3>5, <3>6, FeedSteps
    <2> QED
        BY <1>2, <2>2, <2>3, CameraFailsDoes
<1> QED
    BY <1>1, <1>2

\* A set-up comes to its end, and asks for what is there already.
LEMMA FinishFeed ==
    ASSUME KTypeOK, Feeding, Shift(1), Calm, NEW t \in Slots, Closes(t), Finishes(t),
           task[t].op = "setup", task[t].at # "camera", task[t].room \in Rooms,
           \A r \in Rooms : ~Says(1, "success", r),
           Setting(task[t]) => media'.recv # NoRoom, media.recv # NoRoom => media'.recv # NoRoom
    PROVE  Feeding'
<1>1. PICK q \in Rooms : q = task[t].room
    OBVIOUS
<1>2. \A u \in Slots \ {t} :
          /\ Setting(task'[u]) = Setting(task[u]) /\ Greets(task'[u]) = Greets(task[u])
          /\ task'[u].room = task[u].room /\ task'[u].at = task[u].at
          /\ \A r : Accepts(task'[u], r) = Accepts(task[u], r)
    BY DEF Closes, Setting, Greets, Accepts
<1>3. task'[t] = Idle /\ ~Setting(task'[t]) /\ ~Greets(task'[t]) /\ \A r : ~Accepts(task'[t], r)
    BY IdleFeeds DEF Finishes
<1>4. /\ q \in Chats => Shows(q)'
      /\ q \notin Chats => \A r : Shows(r)' <=> Shows(r)
    BY <1>1 DEF Finishes, Shows, Live
<1>5. ASSUME strayed' = {}, NEW r \in Rooms, Shows(r)
      PROVE  Shows(r)'
    <2>1. Shows(r)' \/ r = q
        BY <1>1, <1>5, ShowsStrays DEF Finishes
    <2> QED
        BY <1>4, <1>5, <2>1
<1>6. Received'
    <2> SUFFICES ASSUME NEW u \in Slots, Setting(task'[u]), task'[u].at \in {"video", "audio"}
                 PROVE  media'.recv # NoRoom
        BY DEF Received, Setting
    <2>1. u # t
        BY <1>3
    <2> QED
        BY <1>2, <2>1 DEF Feeding, Received
<1>7. ASSUME strayed' = {}, ~touched', NEW r \in Rooms, Holds(r), Shows(r)'
      PROVE  Reached(r)'
    <2>1. Setting(task[t]) /\ <<"feeds", q>> \in sent'
        BY <1>1, <1>7 DEF Finishes, Setting
    <2>2. r = q
        <3>1. CASE q \in Chats
            BY <1>4, <1>7, <3>1 DEF Shows
        <3>2. CASE q \notin Chats
            <4>1. Greets(task[t]) /\ strayed = {}
                BY <1>1, <1>7, <2>1, <3>2 DEF Greets, Rooms, Calm
            <4>2. Shows(q) /\ Shows(r)
                BY <1>1, <1>4, <1>7, <3>2, <4>1 DEF Feeding, Greeted
            <4> QED
                BY <4>2 DEF Shows
        <3> QED
            BY <3>1, <3>2
    <2>3. \A p : Coming(r, p)'
        BY <2>1, <2>2 DEF Coming
    <2> QED
        BY <2>1, <2>3 DEF Reached
<1>8. ASSUME NEW u \in Slots, NEW r \in Chats, Setting(task[u]), task[u].room = r
      PROVE  Shows(r)' \/ Prepares(r)'
    <2>1. CASE u = t
        BY <1>1, <1>4, <1>8, <2>1
    <2>2. CASE u # t
        <3>1. Setting(task'[u]) /\ task'[u].room = r
            BY <1>2, <1>8, <2>2
        <3> QED
            BY <3>1 DEF Prepares, Setting
    <2> QED
        BY <2>1, <2>2
<1>9. \A u \in Slots, r \in Rooms : Accepts(task'[u], r) => Accepts(task[u], r) \/ task[u] = Idle
    BY <1>2, <1>3
<1>10. ASSUME NEW u \in Slots, NEW r \in Rooms, Greets(task'[u]), task'[u].room = r
       PROVE  Greets(task[u]) /\ r = task[u].room
    BY <1>2, <1>3, <1>10
<1>11. 1 \in {0, 1}
    OBVIOUS
<1>12. \A r \in Chats : ~Says(1, "success", r)
    BY DEF Rooms
<1> QED
    BY <1>5, <1>6, <1>7, <1>8, <1>9, <1>10, <1>11, <1>12, FeedKept
LEMMA SetupFeed ==
    ASSUME KTypeOK, Feeding, NEW t \in Slots, Setup(t)
    PROVE  Feeding'
<1>1. CASE InitializeDevice(t) \/ LoadDevice(t)
    <2>1. /\ task[t].op = "setup" /\ task[t].at \in {"device", "load"}
          /\ Leaves(t) /\ Continued(t) /\ task'[t].at \in {"load", "send"}
          /\ media'.recv = media.recv /\ media'.consumers = media.consumers
          /\ UNCHANGED <<store, inbox, sent, srv, strayed, touched>>
        BY <1>1, DeviceDoes
    <2>2. Calm /\ Shift(0) /\ 0 \in {0, 1} /\ Closes(t) /\ \A u \in Slots \ {t} : task'[u] = task[u]
        BY <2>1, LeavesCloses DEF Calm, Shift, Leaves
    <2>3. \A r : Shows(r)' <=> Shows(r)
        BY <2>1 DEF Shows
    <2>4. /\ Setting(task[t]) = Setting(task'[t]) /\ task'[t].room = task[t].room
          /\ Greets(task'[t]) => Greets(task[t]) /\ \A r : ~Accepts(task'[t], r)
        BY <2>1 DEF Continued, Setting, Greets, Accepts
    <2>5. \A r : ~Accepts(task'[t], r)
        BY <2>1 DEF Continued, Accepts
    <2> QED
        BY <2>1, <2>2, <2>3, <2>4, <2>5, FeedSteps
<1>2. CASE SendTransport(t)
    <2>1. /\ task[t].op = "setup" /\ task[t].at = "send" /\ task[t].room \in Rooms
          /\ Hears(t, TRUE) /\ Closes(t) /\ UNCHANGED <<store, sent, srv>>
        BY <1>2, SendDoes
    <2>2. Shift(1) /\ 1 \in {0, 1} /\ Head(inbox).ev = "answer" /\ Head(inbox).room = t
        BY <2>1, HearsShift DEF Hears
    <2>3. \A r : Shows(r)' <=> Shows(r)
        BY <2>1 DEF Shows
    <2>4. CASE /\ task'[t] = Idle /\ strayed' = strayed \union {task[t].room}
               /\ touched' = TRUE /\ UNCHANGED media /\ Leaves(t)
        <3>1. Calm /\ strayed' # {} /\ \A u \in Slots \ {t} : task'[u] = task[u]
            BY <2>1, <2>4 DEF Calm, Leaves
        <3>2. ~Setting(task'[t]) /\ ~Greets(task'[t]) /\ \A r : ~Accepts(task'[t], r)
            BY <2>4, IdleFeeds
        <3> QED
            BY <2>1, <2>2, <2>3, <2>4, <3>1, <3>2, FeedSteps
    <2>5. CASE /\ media' = CreateSendTransport(media, task[t].room)
               /\ Continued(t) /\ task'[t].at = "recv"
               /\ \A u \in Slots \ {t} : task'[u].closed =
                     (task[u].closed \/ task[u].at \in {"video", "audio", "screen"})
               /\ touched' = (touched \/ task[t].crossed) /\ UNCHANGED strayed
        <3>1. Calm
            BY <2>1, <2>5 DEF Calm
        <3>2. media'.recv = media.recv /\ media'.consumers = media.consumers
            BY <2>1, <2>5, TransportsAre DEF KTypeOK, Types
        <3>3. \A u \in Slots \ {t} : task[u].op = "consume" => task'[u].closed = task[u].closed
            <4> SUFFICES ASSUME NEW u \in Slots \ {t}, task[u].op = "consume"
                         PROVE  task'[u].closed = task[u].closed
                OBVIOUS
            <4>1. task[u].at = "consume" /\ task[u].closed \in BOOLEAN
                BY FitsIs, TaskFields DEF WellFormed, Route, Tracks
            <4> QED
                BY <2>5, <4>1
        <3>4. /\ Setting(task[t]) = Setting(task'[t]) /\ task'[t].room = task[t].room
              /\ Greets(task'[t]) => Greets(task[t])
            BY <2>1, <2>5 DEF Continued, Setting, Greets
        <3>5. \A r : ~Accepts(task'[t], r)
            BY <2>1, <2>5 DEF Continued, Accepts
        <3> QED
            BY <2>1, <2>2, <2>3, <2>5, <3>1, <3>2, <3>3, <3>4, <3>5, FeedSteps
    <2> QED
        BY <1>2, <2>4, <2>5, SendDoes
<1>3. CASE RecvTransport(t)
    <2>1. /\ task[t].op = "setup" /\ task[t].at = "recv" /\ task[t].room \in Rooms
          /\ Hears(t, TRUE) /\ Closes(t) /\ srv' = srv
          /\ media' = CreateRecvTransport(media, task[t].room)
        BY <1>3, RecvDoes
    <2>2. Shift(1) /\ 1 \in {0, 1} /\ \A r : ~Says(1, "success", r)
        BY <2>1, HearsShift DEF Hears
    <2>3. media'.recv # NoRoom
        BY <2>1, TransportsAre, MediaClientAssumption DEF KTypeOK, Types
    <2>4. CASE /\ Continued(t) /\ task'[t].at = "video"
               /\ touched' = (touched \/ task[t].crossed) /\ UNCHANGED <<store, sent, strayed>>
        <3>1. Calm
            BY <2>1, <2>4 DEF Calm
        <3>2. \A u \in Slots : /\ Setting(task'[u]) = Setting(task[u])
                               /\ Greets(task'[u]) = Greets(task[u])
                               /\ task'[u].room = task[u].room
            BY <2>1, <2>4 DEF Closes, Continued, Setting, Greets
        <3>3. \A u \in Slots : \A r \in Rooms : Accepts(task'[u], r) => Accepts(task[u], r)
            BY <2>1, <2>4 DEF Closes, Continued, Accepts
        <3>4. Received'
            BY <2>3 DEF Received
        <3>5. \A r : Shows(r)' <=> Shows(r)
            BY <2>4 DEF Shows
        <3>6. ~touched' => \A r \in Rooms : Reached(r)'
            BY <2>1, <2>4, <3>2 DEF Setting, Reached, SettingUp
        <3>7. ASSUME NEW u \in Slots, NEW r \in Chats, Setting(task[u]), task[u].room = r
              PROVE  Prepares(r)'
            <4>1. Setting(task'[u]) /\ task'[u].room = r
                BY <3>2, <3>7
            <4> QED
                BY <4>1 DEF Prepares, Setting
        <3> QED
            BY <2>2, <3>1, <3>2, <3>3, <3>4, <3>5, <3>6, <3>7, FeedKept
    <2>5. CASE Finishes(t)
        <3>1. Calm
            BY <2>1, <2>5 DEF Calm, Finishes
        <3> QED
            BY <2>1, <2>2, <2>3, <2>5, <3>1, FinishFeed
    <2> QED
        BY <1>3, <2>4, <2>5, RecvDoes
<1>4. CASE ProduceVideo(t) \/ ProduceAudio(t)
    <2>1. /\ task[t].op = "setup" /\ task[t].at \in {"video", "audio"}
          /\ task[t].room \in Rooms /\ Hears(t, TRUE) /\ Leaves(t) /\ srv' = srv
          /\ media'.recv = media.recv /\ media'.consumers = media.consumers
        BY <1>4, ProduceDoes
    <2>2. /\ Shift(1) /\ 1 \in {0, 1} /\ Head(inbox).ev = "answer" /\ Head(inbox).room = t
          /\ \A r : ~Says(1, "success", r)
        BY <2>1, HearsShift DEF Hears
    <2>3. Setting(task[t]) => media.recv # NoRoom
        BY <2>1 DEF Feeding, Received
    <2>4. CASE /\ Continued(t) /\ task'[t].at = "audio"
               /\ UNCHANGED <<store, media, sent, strayed, touched>>
        <3>1. Calm /\ Closes(t) /\ \A u \in Slots \ {t} : task'[u] = task[u]
            BY <2>1, <2>4, LeavesCloses DEF Calm, Leaves
        <3>2. /\ Setting(task[t]) = Setting(task'[t]) /\ task'[t].room = task[t].room
              /\ Greets(task'[t]) => Greets(task[t])
            BY <2>1, <2>4 DEF Continued, Setting, Greets
        <3>3. \A r : ~Accepts(task'[t], r)
            BY <2>1, <2>4 DEF Continued, Accepts
        <3>4. \A r : Shows(r)' <=> Shows(r)
            BY <2>4 DEF Shows
        <3> QED
            BY <2>1, <2>2, <2>3, <2>4, <3>1, <3>2, <3>3, <3>4, FeedSteps
    <2>5. CASE Finishes(t)
        <3>1. Calm /\ Closes(t)
            BY <2>1, <2>5, LeavesCloses DEF Calm, Finishes
        <3> QED
            BY <2>1, <2>2, <2>3, <2>5, <3>1, FinishFeed
    <2> QED
        BY <1>4, <2>4, <2>5, ProduceDoes
<1> QED
    BY <1>1, <1>2, <1>3, <1>4 DEF Setup
\* Who is reached stays so when every feed that is coming goes on to.
LEMMA ReachedMoves ==
    ASSUME KTypeOK, NEW d \in {0, 1}, Shift(d), Calm, NEW r \in Rooms, Reached(r),
           d = 1 => ~Says(1, "success", r), media.recv # NoRoom => media'.recv # NoRoom,
           \A u \in Slots : Setting(task[u]) => Setting(task'[u]),
           \A p \in srv.feeds \intersect srv.present[r] : Coming(r, p) => Coming(r, p)'
    PROVE  Reached(r)'
<1>1. CASE Later(0, "success", r)
    <2>1. PICK n \in 1..Len(inbox) : Says(n, "success", r)
        BY <1>1 DEF Later
    <2>2. n > d
        BY <2>1
    <2>3. n - d \in 1..Len(inbox') /\ inbox'[n - d] = inbox[n]
        BY <2>2, ShiftIs
    <2> QED
        BY <2>1, <2>3 DEF Reached, Later, Says
<1>2. CASE SettingUp
    BY <1>2 DEF Reached, SettingUp, Setting
<1>3. CASE media.recv # NoRoom /\ \A p \in srv.feeds \intersect srv.present[r] : Coming(r, p)
    <2>1. \A p \in srv.feeds \intersect srv.present[r] : Coming(r, p)'
        BY <1>3
    <2> QED
        BY <1>3, <2>1 DEF Reached, Calm
<1> QED
    BY <1>1, <1>2, <1>3 DEF Reached

\* The feed that is next is consumed.
LEMMA ConsumedFeed ==
    ASSUME KTypeOK, Feeding, NEW t \in Slots, Consumed(t)
    PROVE  Feeding'
<1>1. /\ task[t].op = "consume" /\ task[t].at = "consume" /\ task[t].room \in Rooms
      /\ inbox # <<>> /\ Take /\ Head(inbox).ev = "answer" /\ Head(inbox).room = t
      /\ Leaves(t)
      /\ media' = IF Head(inbox).who = {} \/ task[t].closed THEN media
                  ELSE CreateConsumer(media, task[t].room, Head(inbox).who)
      /\ media'.recv = media.recv
      /\ UNCHANGED <<store, sent, strayed, touched, srv>>
    BY ConsumedDoes
<1>2. \/ task[t].left = {} /\ task'[t] = Idle
      \/ /\ task[t].left # {} /\ Continued(t) /\ task'[t].at = "consume"
         /\ task'[t].closed = task[t].closed
    BY ConsumedDoes
<1>3. Calm /\ Shift(1) /\ 1 \in {0, 1} /\ \A r : ~Says(1, "success", r)
    BY <1>1, HearsShift DEF Calm
<1>4. \A u \in Slots \ {t} : task'[u] = task[u]
    BY <1>1 DEF Leaves
<1>5. task'[t].op \in {"idle", "consume"}
    BY <1>1, <1>2, IdleFits DEF Continued
<1>6. ~Setting(task[t]) /\ ~Setting(task'[t]) /\ ~Greets(task'[t]) /\ \A r : ~Accepts(task'[t], r)
    BY <1>1, <1>5 DEF Setting, Greets, Accepts
<1>7. Received'
    <2> SUFFICES ASSUME NEW u \in Slots, Setting(task'[u]), task'[u].at \in {"video", "audio"}
                 PROVE  media.recv # NoRoom
        BY <1>1 DEF Received, Setting
    <2>1. u # t
        BY <1>6
    <2> QED
        BY <1>4, <2>1 DEF Feeding, Received
<1>8. ASSUME NEW r \in Rooms, NEW p \in srv.feeds \intersect srv.present[r], Coming(r, p)
      PROVE  Coming(r, p)'
    <2>1. p \in People /\ p # {} /\ <<r, p>> \in Keys
        BY SrvFields, MediaClientAssumption DEF Keys
    <2>2. media \in MediaType /\ Head(inbox) = inbox[1]
        BY <1>1, HeadIs DEF KTypeOK, Types
    <2>3. CASE media.consumers[<<r, p>>] > 0
        <3>1. media.consumers[<<r, p>>] \in Nat
            BY <2>1, <2>2 DEF MediaType
        <3>2. media'.consumers[<<r, p>>] > 0
            <4>1. CASE media' = media
                BY <2>3, <4>1
            <4>2. CASE media' = CreateConsumer(media, task[t].room, Head(inbox).who)
                BY <1>1, <2>1, <2>2, <2>3, <3>1, <4>2, ConsumerIs
            <4> QED
                BY <1>1, <4>1, <4>2
        <3> QED
            BY <3>2 DEF Coming
    <2>4. CASE <<"feeds", r>> \in sent
        BY <1>1, <2>4 DEF Coming
    <2>5. ASSUME NEW i \in 1..Len(inbox), Tells(i, r, p)
          PROVE  Coming(r, p)'
        <3>1. i > 1
            BY <1>1, <2>2, <2>5 DEF Tells, Says
        <3>2. i - 1 \in 1..Len(inbox') /\ inbox'[i - 1] = inbox[i]
            BY <1>3, <3>1, ShiftIs
        <3>3. Tells(i - 1, r, p)'
            BY <2>5, <3>2 DEF Tells, Says
        <3> QED
            BY <3>2, <3>3 DEF Coming
    <2>6. ASSUME NEW i \in 1..Len(inbox), Brought(i, r, p)
          PROVE  Coming(r, p)'
        <3>1. CASE i = 1
            <4>1. task[t].room = r /\ ~task[t].closed /\ Head(inbox).who = p
                BY <1>1, <2>2, <2>6, <3>1 DEF Brought, Consumes
            <4>2. media' = CreateConsumer(media, r, p)
                BY <1>1, <2>1, <4>1
            <4>3. media.consumers[<<r, p>>] \in Nat
                BY <2>1, <2>2 DEF MediaType
            <4>4. media'.consumers[<<r, p>>] = media.consumers[<<r, p>>] + 1
                BY <2>1, <2>2, <4>2, ConsumerIs
            <4>5. media'.consumers[<<r, p>>] > 0
                BY <4>3, <4>4
            <4> QED
                BY <4>5 DEF Coming
        <3>2. CASE i # 1
            <4>1. i > 1
                BY <3>2
            <4>2. i - 1 \in 1..Len(inbox') /\ inbox'[i - 1] = inbox[i]
                BY <1>3, <4>1, ShiftIs
            <4>3. inbox[i].room # t
                BY <1>1, <2>2, <2>6, <3>2, HeadIs DEF KTypeOK, Answering, Brought
            <4>4. inbox[i].room \in Slots
                BY <2>6, MessageFields DEF KTypeOK, Types, Brought
            <4>5. task'[inbox[i].room] = task[inbox[i].room]
                BY <1>4, <4>3, <4>4
            <4>6. Brought(i - 1, r, p)'
                BY <2>6, <4>2, <4>5 DEF Brought
            <4> QED
                BY <4>2, <4>6 DEF Coming
        <3> QED
            BY <3>1, <3>2
    <2>7. ASSUME NEW u \in Slots, Consumes(task[u], r), p \in task[u].left
          PROVE  Coming(r, p)'
        <3>1. Consumes(task'[u], r) /\ p \in task'[u].left
            <4>1. CASE u = t
                BY <1>1, <1>2, <2>7, <4>1 DEF Consumes, Continued
            <4>2. CASE u # t
                BY <1>4, <2>7, <4>2
            <4> QED
                BY <4>1, <4>2
        <3> QED
            BY <3>1 DEF Coming, Consumes
    <2> QED
        BY <1>8, <2>3, <2>4, <2>5, <2>6, <2>7 DEF Coming
<1>9. ASSUME strayed' = {}, ~touched', NEW r \in Rooms, Holds(r), Shows(r)'
      PROVE  Reached(r)'
    <2>1. Reached(r)
        BY <1>1, <1>9 DEF Feeding, Fed, Shows
    <2>2. \A u \in Slots : Setting(task[u]) => Setting(task'[u])
        BY <1>4, <1>6
    <2>3. media.recv # NoRoom => media'.recv # NoRoom
        BY <1>1
    <2> QED
        BY <1>3, <1>8, <2>1, <2>2, <2>3, ReachedMoves
<1>10. \A r : Shows(r)' <=> Shows(r)
    BY <1>1 DEF Shows
<1>11. ASSUME NEW u \in Slots, NEW r \in Chats, Setting(task[u]), task[u].room = r
       PROVE  Prepares(r)'
    <2>1. Setting(task'[u]) /\ task'[u].room = r
        BY <1>4, <1>6, <1>11
    <2> QED
        BY <2>1 DEF Prepares, Setting
<1>12. \A u \in Slots, r \in Rooms : Accepts(task'[u], r) => Accepts(task[u], r) \/ task[u] = Idle
    BY <1>4, <1>6
<1>13. \A u \in Slots : \A r \in Rooms : Greets(task'[u]) /\ task'[u].room = r =>
           Greets(task[u]) /\ r = task[u].room
    BY <1>4, <1>6
<1> QED
    BY <1>3, <1>7, <1>9, <1>10, <1>11, <1>12, <1>13, FeedKept
\* A call that is accepted is shown where its set-up is due or over.
LEMMA AcceptedFeed ==
    ASSUME KTypeOK, Feeding, NEW t \in Slots, Accepted(t)
    PROVE  Feeding'
<1>1. /\ task[t].op = "accept" /\ task[t].at = "accept" /\ Hears(t, TRUE) /\ Leaves(t)
      /\ Continued(t) /\ task'[t].at = "existing"
      /\ store'.state = "inCall" /\ store'.room = store.room
      /\ strayed \subseteq strayed'
      /\ touched' = (touched \/ task[t].crossed \/ store.room # task[t].room)
      /\ UNCHANGED <<media, sent, srv>>
    BY AcceptedDoes
<1>2. /\ Calm /\ Shift(1) /\ 1 \in {0, 1} /\ \A r : ~Says(1, "success", r)
      /\ Head(inbox).ev = "answer" /\ Head(inbox).room = t /\ Head(inbox).who = TRUE
      /\ Head(inbox) = inbox[1] /\ 1 \in 1..Len(inbox)
    BY <1>1, HearsShift, HeadIs DEF Calm, Hears
<1>3. \A u \in Slots \ {t} : task'[u] = task[u]
    BY <1>1 DEF Leaves
<1>4. /\ ~Setting(task[t]) /\ ~Setting(task'[t]) /\ ~Greets(task'[t])
      /\ \A r : ~Accepts(task'[t], r) /\ ~Consumes(task[t], r)
    BY <1>1 DEF Continued, Setting, Greets, Accepts, Consumes
<1>5. \A r : Shows(r) => Shows(r)'
    BY <1>1 DEF Shows, Live
<1>6. Received'
    <2> SUFFICES ASSUME NEW u \in Slots, Setting(task'[u]), task'[u].at \in {"video", "audio"}
                 PROVE  media.recv # NoRoom
        BY <1>1 DEF Received, Setting
    <2>1. u # t
        BY <1>4
    <2> QED
        BY <1>3, <2>1 DEF Feeding, Received
<1>7. ASSUME strayed' = {}, ~touched', NEW r \in Rooms, Holds(r), Shows(r)'
      PROVE  Reached(r)'
    <2>1. strayed = {} /\ ~touched /\ ~task[t].crossed /\ task[t].room = r
        BY <1>1, <1>7 DEF Shows, Calm
    <2>2. Accepts(task[t], r)
        BY <1>1, <2>1 DEF Accepts
    <2>3. Admits(1, r)
        BY <1>2, <2>2 DEF Admits
    <2>4. Later(0, "success", r) \/ Shows(r) \/ Prepares(r)
        BY <1>2, <1>7, <2>1, <2>3 DEF Feeding, Admitted
    <2>5. Reached(r)
        <3>1. CASE Later(0, "success", r)
            BY <3>1 DEF Reached
        <3>2. CASE Shows(r)
            BY <1>7, <2>1, <3>2 DEF Feeding, Fed
        <3>3. CASE Prepares(r)
            BY <3>3 DEF Reached, Prepares, SettingUp
        <3> QED
            BY <2>4, <3>1, <3>2, <3>3
    <2>6. ~Says(1, "new", r)
        BY <1>2 DEF Says
    <2>7. \A u \in Slots : Setting(task[u]) => Setting(task'[u])
        BY <1>3, <1>4
    <2>8. \A u \in Slots : Consumes(task[u], r) =>
              Consumes(task'[u], r) /\ task'[u].left = task[u].left
        BY <1>3, <1>4
    <2> QED
        BY <1>1, <1>2, <1>4, <2>5, <2>6, <2>7, <2>8, ReachedKept
<1>8. ASSUME NEW u \in Slots, NEW r \in Chats, Setting(task[u]), task[u].room = r
      PROVE  Prepares(r)'
    <2>1. Setting(task'[u]) /\ task'[u].room = r
        BY <1>3, <1>4, <1>8
    <2> QED
        BY <2>1 DEF Prepares, Setting
<1>9. \A u \in Slots, r \in Rooms : Accepts(task'[u], r) => Accepts(task[u], r) \/ task[u] = Idle
    BY <1>3, <1>4
<1>10. \A u \in Slots : \A r \in Rooms : Greets(task'[u]) /\ task'[u].room = r =>
           Greets(task[u]) /\ r = task[u].room
    BY <1>3, <1>4
<1> QED
    BY <1>2, <1>5, <1>6, <1>7, <1>8, <1>9, <1>10, FeedKept

\* A function that neither sets up nor consumes goes on or is over, and what is shown stays.
LEMMA LightFeed ==
    ASSUME KTypeOK, Feeding, NEW t \in Slots, inbox # <<>>, Take, Head(inbox).ev = "answer",
           Head(inbox).room = t, Leaves(t), UNCHANGED <<srv, sent>>, strayed \subseteq strayed',
           task[t].op \notin {"consume", "setup"}, task'[t] = Idle \/ task'[t].op = task[t].op,
           \A r \in Rooms : ~Accepts(task'[t], r),
           media'.recv = media.recv, media'.consumers = media.consumers, touched => touched',
           strayed' = {} => \A r \in Rooms : Shows(r) <=> Shows(r)'
    PROVE  Feeding'
<1>1. Calm /\ Shift(1) /\ 1 \in {0, 1} /\ Closes(t) /\ \A u \in Slots \ {t} : task'[u] = task[u]
    BY HearsShift, LeavesCloses DEF Calm, Leaves
<1>2. ~Setting(task[t]) /\ ~Setting(task'[t]) /\ ~Greets(task'[t])
    BY IdleFits DEF Setting, Greets
<1> QED
    BY <1>1, <1>2, FeedSteps

LEMMA ResumeFeed ==
    ASSUME KTypeOK, Feeding, NEW t \in Slots, Resume(t)
    PROVE  Feeding'
<1>1. CASE MatchAnswered(t)
    <2>1. /\ task[t].op = "match" /\ Hears(t, TRUE) /\ Leaves(t) /\ task'[t] = Idle
          /\ store'.state = "inMatchWait" /\ Witness({Waiting}) /\ strayed \subseteq strayed'
          /\ UNCHANGED <<media, sent, touched, srv>>
        BY <1>1, MatchAnsweredDoes
    <2>2. \A r : ~Shows(r)'
        BY <2>1 DEF Shows, Live
    <2>3. strayed' = {} => \A r \in Rooms : ~Shows(r)
        BY <2>1, <2>2, ShowsStrays, WaitingAssumption
    <2>4. \A r \in Rooms : ~Accepts(task'[t], r)
        BY <2>1, IdleFeeds
    <2> QED
        BY <2>1, <2>2, <2>3, <2>4, LightFeed DEF Hears
<1>2. CASE EndAnswered(t)
    <2>1. KTypeOK' /\ Ends({t}) /\ EndsPage
        BY <1>2, ResumeTypes, EndAnsweredDoes
    <2> QED
        BY <2>1, EndsFeed
<1>3. CASE NothingDone(t)
    <2>1. PICK ok \in BOOLEAN : Hears(t, ok)
        BY <1>3, NothingDoneDoes
    <2>2. /\ task[t].op \in {"reject", "end", "ring", "accept"} /\ Leaves(t) /\ task'[t] = Idle
          /\ UNCHANGED <<store, media, sent, strayed, touched, srv>>
        BY <1>3, NothingDoneDoes
    <2>3. \A r \in Rooms : ~Accepts(task'[t], r)
        BY <2>2, IdleFeeds
    <2>4. \A r : Shows(r)' <=> Shows(r)
        BY <2>2 DEF Shows
    <2> QED
        BY <2>1, <2>2, <2>3, <2>4, LightFeed DEF Hears
<1>4. CASE Accepted(t)
    BY <1>4, AcceptedFeed
<1>5. CASE Existing(t)
    <2>1. /\ task[t].op = "accept" /\ Hears(t, TRUE) /\ Leaves(t) /\ task'[t] = Idle
          /\ store'.state = store.state /\ store'.room = store.room
          /\ touched' = (touched \/ task[t].crossed) /\ UNCHANGED <<media, sent, strayed, srv>>
        BY <1>5, ExistingDoes
    <2>2. \A r \in Rooms : ~Accepts(task'[t], r)
        BY <2>1, IdleFeeds
    <2>3. \A r : Shows(r)' <=> Shows(r)
        BY <2>1 DEF Shows
    <2> QED
        BY <2>1, <2>2, <2>3, LightFeed DEF Hears
<1>6. CASE Turned(t)
    <2>1. /\ task[t].op \in Tracks /\ Hears(t, TRUE) /\ Leaves(t) /\ task'[t] = Idle
          /\ store'.state = store.state /\ store'.room = store.room
          /\ UNCHANGED <<media, sent, strayed, touched, srv>>
        BY <1>6, TurnedDoes
    <2>2. \A r \in Rooms : ~Accepts(task'[t], r)
        BY <2>1, IdleFeeds
    <2>3. \A r : Shows(r)' <=> Shows(r)
        BY <2>1 DEF Shows
    <2>4. task[t].op \notin {"consume", "setup"}
        BY <2>1 DEF Tracks
    <2> QED
        BY <2>1, <2>2, <2>3, <2>4, LightFeed DEF Hears
<1>7. CASE ScreenChosen(t)
    <2>1. /\ task[t].op = "share" /\ Leaves(t)
          /\ UNCHANGED <<store, media, inbox, sent, strayed, touched, srv>>
        BY <1>7, ScreenChosenDoes
    <2>2. task'[t].op \in {"idle", "share"}
        BY <1>7, <2>1, ScreenChosenDoes, IdleFits DEF Continued
    <2>3. /\ Calm /\ Shift(0) /\ 0 \in {0, 1} /\ Closes(t)
          /\ \A u \in Slots \ {t} : task'[u] = task[u]
        BY <2>1, LeavesCloses DEF Calm, Shift, Leaves
    <2>4. /\ ~Setting(task[t]) /\ ~Setting(task'[t]) /\ ~Greets(task'[t])
          /\ \A r : ~Accepts(task'[t], r)
        BY <2>1, <2>2 DEF Setting, Greets, Accepts
    <2>5. \A r : Shows(r)' <=> Shows(r)
        BY <2>1 DEF Shows
    <2> QED
        BY <2>1, <2>3, <2>4, <2>5, FeedSteps
<1>8. CASE ScreenProduced(t)
    <2>1. /\ task[t].op = "share" /\ Hears(t, TRUE) /\ Leaves(t)
          /\ task'[t] = Idle \/ Continued(t)
          /\ media'.recv = media.recv /\ media'.consumers = media.consumers
          /\ UNCHANGED <<store, sent, strayed, touched, srv>>
        BY <1>8, ScreenProducedDoes
    <2>2. \A r \in Rooms : ~Accepts(task'[t], r)
        BY <2>1, IdleFeeds DEF Continued, Accepts
    <2>3. \A r : Shows(r)' <=> Shows(r)
        BY <2>1 DEF Shows
    <2>4. task'[t] = Idle \/ task'[t].op = task[t].op
        BY <2>1 DEF Continued
    <2> QED
        BY <2>1, <2>2, <2>3, <2>4, LightFeed DEF Hears
<1>9. CASE Shared(t)
    <2>1. /\ task[t].op = "share" /\ Hears(t, TRUE) /\ Leaves(t) /\ task'[t] = Idle
          /\ store'.state = store.state /\ store'.room = store.room
          /\ touched' = (touched \/ task[t].crossed) /\ UNCHANGED <<media, sent, strayed, srv>>
        BY <1>9, SharedDoes
    <2>2. \A r \in Rooms : ~Accepts(task'[t], r)
        BY <2>1, IdleFeeds
    <2>3. \A r : Shows(r)' <=> Shows(r)
        BY <2>1 DEF Shows
    <2> QED
        BY <2>1, <2>2, <2>3, LightFeed DEF Hears
<1>10. CASE Consumed(t)
    BY <1>10, ConsumedFeed
<1> QED
    BY <1>1, <1>2, <1>3, <1>4, <1>5, <1>6, <1>7, <1>8, <1>9, <1>10 DEF Resume
\* A feed is announced: without a transport it is dropped, and who is shown the room asks
\* for it there.
LEMMA NewProducerFeed ==
    ASSUME KTypeOK, Feeding, NewProducer
    PROVE  Feeding'
<1>1. Takes("new") /\ UNCHANGED <<store, media, strayed, touched>>
    BY NewProducerDoes
<1>2. /\ Calm /\ Shift(1) /\ 1 \in {0, 1} /\ \A r : ~Says(1, "success", r)
      /\ Head(inbox) = inbox[1] /\ Head(inbox).ev = "new" /\ 1 \in 1..Len(inbox)
    BY <1>1, HeadIs DEF Takes, Calm, Shift, Says
<1>3. \A r : Shows(r)' <=> Shows(r)
    BY <1>1 DEF Shows
<1>4. ASSUME NEW r \in Rooms, Later(0, "success", r) \/ SettingUp,
             \A u \in Slots : Setting(task[u]) => Setting(task'[u])
      PROVE  Reached(r)'
    <2>1. CASE Later(0, "success", r)
        <3>1. Later(1, "success", r)
            BY <1>2, <2>1 DEF Later
        <3>2. Later(0, "success", r)'
            BY <1>2, <3>1, LaterShifts
        <3> QED
            BY <3>2 DEF Reached
    <2>2. CASE SettingUp
        BY <1>4, <2>2 DEF Reached, SettingUp, Setting
    <2> QED
        BY <1>4, <2>1, <2>2
<1>5. CASE (media.recv = NoRoom \/ store.room = NoRoom) /\ UNCHANGED task
    <2>1. ASSUME strayed' = {}, ~touched', NEW r \in Rooms, Holds(r), Shows(r)'
          PROVE  Reached(r)'
        <3>1. Reached(r) /\ store.room # NoRoom
            BY <1>1, <1>3, <2>1, MediaClientAssumption DEF Feeding, Fed, Shows
        <3>2. Later(0, "success", r) \/ SettingUp
            BY <1>5, <3>1 DEF Reached
        <3> QED
            BY <1>4, <1>5, <3>2
    <2>2. Received'
        BY <1>1, <1>5 DEF Feeding, Received, Setting
    <2>3. ASSUME NEW u \in Slots, NEW r \in Chats, Setting(task[u]), task[u].room = r
          PROVE  Prepares(r)'
        BY <1>5, <2>3 DEF Prepares, Setting
    <2> QED
        BY <1>2, <1>3, <1>5, <2>1, <2>2, <2>3, FeedKept
<1>6. ASSUME NEW t \in Slots, task[t] = Idle, Leaves(t), store.room \in Rooms,
             LET n == task'[t] IN
             /\ n.op = "consume" /\ n.room = store.room /\ n.left = Head(inbox).who
             /\ n.crossed = FALSE /\ n.closed = FALSE
      PROVE  Feeding'
    <2>1. \A u \in Slots \ {t} : task'[u] = task[u]
        BY <1>6 DEF Leaves
    <2>2. /\ ~Setting(task[t]) /\ ~Setting(task'[t]) /\ ~Greets(task'[t])
          /\ \A r : ~Accepts(task'[t], r) /\ ~Consumes(task[t], r)
        BY <1>6, IdleFeeds DEF Setting, Greets, Accepts
    <2>3. Consumes(task'[t], store.room)
        BY <1>6 DEF Consumes
    <2>4. ASSUME NEW r \in Rooms, Shows(r), NEW p \in srv.feeds \intersect srv.present[r],
                 Coming(r, p)
          PROVE  Coming(r, p)'
        <3>1. CASE media.consumers[<<r, p>>] > 0 \/ <<"feeds", r>> \in sent
            BY <1>1, <3>1 DEF Coming, Takes
        <3>2. ASSUME NEW i \in 1..Len(inbox), Tells(i, r, p) \/ Brought(i, r, p), i > 1
              PROVE  Coming(r, p)'
            <4>1. i - 1 \in 1..Len(inbox') /\ inbox'[i - 1] = inbox[i]
                BY <1>2, <3>2, ShiftIs
            <4>2. CASE Tells(i, r, p)
                <5>1. Tells(i - 1, r, p)'
                    BY <4>1, <4>2 DEF Tells, Says
                <5> QED
                    BY <4>1, <5>1 DEF Coming
            <4>3. CASE Brought(i, r, p)
                <5>1. inbox[i].room \in Slots
                    BY <4>3, MessageFields DEF KTypeOK, Types, Brought
                <5>2. inbox[i].room # t
                    BY <2>2, <4>3 DEF Brought
                <5>3. Brought(i - 1, r, p)'
                    BY <2>1, <4>1, <4>3, <5>1, <5>2 DEF Brought
                <5> QED
                    BY <4>1, <5>3 DEF Coming
            <4> QED
                BY <3>2, <4>2, <4>3
        <3>3. CASE Tells(1, r, p)
            <4>1. p \in task'[t].left /\ store.room = r
                BY <1>2, <1>6, <2>4, <3>3 DEF Tells, Shows
            <4> QED
                BY <2>3, <4>1 DEF Coming, Consumes
        <3>4. ~Brought(1, r, p)
            BY <1>2 DEF Brought
        <3>5. ASSUME NEW u \in Slots, Consumes(task[u], r), p \in task[u].left
              PROVE  Coming(r, p)'
            <4>1. Consumes(task'[u], r) /\ p \in task'[u].left
                BY <2>1, <2>2, <3>5
            <4> QED
                BY <4>1 DEF Coming, Consumes
        <3>6. \A i \in 1..Len(inbox) : i = 1 \/ i > 1
            OBVIOUS
        <3> QED
            BY <2>4, <3>1, <3>2, <3>3, <3>4, <3>5, <3>6 DEF Coming
    <2>5. \A u \in Slots : Setting(task[u]) => Setting(task'[u]) /\ task'[u].room = task[u].room
        BY <2>1, <2>2
    <2>6. ASSUME strayed' = {}, ~touched', NEW r \in Rooms, Holds(r), Shows(r)'
          PROVE  Reached(r)'
        <3>1. Reached(r) /\ Shows(r)
            BY <1>1, <1>3, <2>6 DEF Feeding, Fed
        <3>2. media.recv # NoRoom => media'.recv # NoRoom
            BY <1>1
        <3>3. 1 = 1 => ~Says(1, "success", r)
            BY <1>2
        <3> QED
            BY <1>2, <2>4, <2>5, <3>1, <3>2, <3>3, ReachedMoves
    <2>7. Received'
        <3> SUFFICES ASSUME NEW u \in Slots, Setting(task'[u]), task'[u].at \in {"video", "audio"}
                     PROVE  media.recv # NoRoom
            BY <1>1 DEF Received, Setting
        <3>1. u # t
            BY <2>2
        <3> QED
            BY <2>1, <3>1 DEF Feeding, Received
    <2>8. ASSUME NEW u \in Slots, NEW r \in Chats, Setting(task[u]), task[u].room = r
          PROVE  Prepares(r)'
        <3>1. Setting(task'[u]) /\ task'[u].room = r
            BY <2>5, <2>8
        <3> QED
            BY <3>1 DEF Prepares, Setting
    <2>9. \A u \in Slots, r \in Rooms : Accepts(task'[u], r) => Accepts(task[u], r) \/ task[u] = Idle
        BY <2>1, <2>2
    <2>10. \A u \in Slots : \A r \in Rooms : Greets(task'[u]) /\ task'[u].room = r =>
               Greets(task[u]) /\ r = task[u].room
        BY <2>1, <2>2
    <2> QED
        BY <1>2, <1>3, <2>6, <2>7, <2>8, <2>9, <2>10, FeedKept
<1> QED
    BY <1>5, <1>6, NewProducerDoes
LEMMA EventFeed ==
    ASSUME KTypeOK, Hold, Feeding, Events
    PROVE  Feeding'
<1>0. KTypeOK'
    BY EventTypes
<1>1. CASE Success
    <2>1. /\ Takes("success") /\ UNCHANGED touched
          /\ \E k : /\ k = Task("setup", Head(inbox).room) /\ Fresh(k)
                    /\ k.op = "setup" /\ k.room = Head(inbox).room /\ ~k.crossed
                    /\ k.closed = FALSE /\ Begin(k)
        BY <1>1, SuccessDoes
    <2>2. PICK k : Fresh(k) /\ k.op = "setup" /\ k.room = Head(inbox).room /\ ~k.crossed /\ Begin(k)
        BY <2>1
    <2>3. Shift(1) /\ 1 \in {0, 1} /\ srv' = srv /\ sent' = sent
        BY <2>1 DEF Takes, Shift
    <2>4. \A r \in Rooms : 1 = 1 /\ Says(1, "success", r) => k.room = r
        BY <2>1, <2>2, HeadIs DEF Says, Takes
    <2> QED
        BY <2>1, <2>2, <2>3, <2>4, BeginFeed
<1>2. CASE NewProducer
    BY <1>2, NewProducerFeed
<1>3. CASE Over
    BY <1>0, <1>3, OverDoes, EndsFeed
<1>4. CASE Rings
    <2>1. /\ Takes("incoming") /\ Head(inbox).room \in Chats /\ store'.state = "inComing"
          /\ Witness({Head(inbox).room}) /\ strayed \subseteq strayed'
          /\ UNCHANGED <<media, task, touched>>
        BY <1>4, RingsDoes
    <2>2. Calm /\ Shift(1) /\ 1 \in {0, 1} /\ Head(inbox) = inbox[1] /\ 1 \in 1..Len(inbox)
          /\ Head(inbox).ev = "incoming"
        BY <2>1, HeadIs DEF Takes, Shift, Calm
    <2>3. \A r : ~Shows(r)'
        BY <2>1 DEF Shows, Live
    <2>4. ASSUME strayed' = {}, NEW r \in Rooms, Shows(r)
          PROVE  r \in Chats /\ (Holds(r) => Later(0, "success", r)')
        <3>1. r = Head(inbox).room
            BY <2>1, <2>3, <2>4, ShowsStrays
        <3>2. Stale(1, r)
            BY <2>2, <3>1 DEF Stale, Says
        <3>3. Holds(r) => Later(1, "success", r)
            BY <2>2, <3>2 DEF Hold, Renewed
        <3>4. Holds(r) => Later(0, "success", r)'
            BY <2>2, <3>3, LaterShifts
        <3> QED
            BY <2>1, <3>1, <3>4
    <2> QED
        BY <2>1, <2>2, <2>3, <2>4, FeedStays
<1>5. CASE UserJoined \/ UserLeft
    <2>1. /\ Takes("joined") \/ Takes("left")
          /\ store'.state = store.state /\ store'.room = store.room
          /\ UNCHANGED <<media, task, strayed, touched>>
        BY <1>5, ComesDoes
    <2>2. Calm /\ Shift(1) /\ 1 \in {0, 1} /\ Head(inbox).ev \in {"joined", "left"}
        BY <2>1 DEF Takes, Shift, Calm
    <2>3. \A r : Shows(r)' <=> Shows(r)
        BY <2>1 DEF Shows
    <2> QED
        BY <2>1, <2>2, <2>3, FeedStays
<1> QED
    BY <1>1, <1>2, <1>3, <1>4, <1>5 DEF Events

LEMMA ClickFeed ==
    ASSUME KTypeOK, Feeding, Clicks
    PROVE  Feeding'
<1>0. KTypeOK' /\ 0 \in {0, 1}
    BY ClickTypes
<1>1. ASSUME NEW op, NEW at, NEW room, Requests(op, at, room), Clicked,
             op \in {"cancel", "reject", "end", "accept"}
      PROVE  Feeding'
    <2>1. Shift(0) /\ Calm /\ UNCHANGED <<store, media, touched>>
        BY <1>1 DEF Requests, Clicked, Shift, Calm
    <2>2. PICK t \in Slots : task[t] = Idle /\ Leaves(t) /\ task'[t].op = op
        BY <1>1 DEF Requests
    <2>3. Closes(t) /\ \A u \in Slots \ {t} : task'[u] = task[u]
        BY <2>2, LeavesCloses DEF Leaves
    <2>4. task[t].op = "idle" /\ ~Setting(task[t]) /\ ~Setting(task'[t]) /\ ~Greets(task'[t])
        BY <1>1, <2>2, IdleFeeds, IdleFits DEF Setting, Greets
    <2>5. \A r : Shows(r)' <=> Shows(r)
        BY <2>1 DEF Shows
    <2> QED
        BY <1>0, <2>1, <2>2, <2>3, <2>4, <2>5, FeedSteps
<1>2. CASE ClickCancel \/ ClickAccept \/ ClickReject \/ ClickEndCall
    <2>1. Clicked
        BY <1>2, RequestsDo
    <2>2. \E op \in {"cancel", "reject", "end", "accept"} : \E at, room : Requests(op, at, room)
        BY <1>2, RequestsDo
    <2> QED
        BY <1>1, <2>1, <2>2
<1>3. CASE \/ ClickMatch \/ \E c \in Chats : ClickRing(c)
           \/ \E kind \in Tracks : ClickToggle(kind)
    <2>1. Clicked /\ UNCHANGED sent
        BY <1>3, ClicksBegin
    <2>2. PICK k : /\ Fresh(k) /\ Begin(k) /\ k.crossed = FALSE
                   /\ k.op \in {"match", "ring"} \union Tracks
        BY <1>3, ClicksBegin
    <2>3. Shift(0) /\ srv' = srv /\ touched' = touched /\ ~k.crossed
        BY <2>1, <2>2 DEF Clicked, Shift
    <2>4. \A r \in Rooms : 0 = 1 /\ Says(1, "success", r) => k.room = r
        OBVIOUS
    <2> QED
        BY <1>0, <2>1, <2>2, <2>3, <2>4, BeginFeed
<1>4. CASE ClickHangUp
    BY <1>0, <1>4, HangUpDoes, EndsFeed
<1>5. CASE StartShare \/ StopShare
    <2>1. UNCHANGED <<store, inbox, sent, srv, strayed, touched>>
        BY <1>5, ShareDoes
    <2>2. media' = media \/ (media'.recv = media.recv /\ media'.consumers = media.consumers)
        BY <1>5, ShareDoes
    <2>3. PICK t \in Slots : task[t] = Idle /\ Leaves(t) /\ task'[t].op = "share"
        BY <1>5, ShareDoes
    <2>4. /\ Shift(0) /\ Calm /\ Closes(t) /\ \A u \in Slots \ {t} : task'[u] = task[u]
          /\ media'.recv = media.recv /\ media'.consumers = media.consumers
        BY <2>1, <2>2, <2>3, LeavesCloses DEF Shift, Calm, Leaves
    <2>5. /\ task[t].op = "idle" /\ ~Setting(task[t]) /\ ~Setting(task'[t]) /\ ~Greets(task'[t])
          /\ \A r : ~Accepts(task'[t], r)
        BY <2>3, IdleFeeds, IdleFits DEF Setting, Greets, Accepts
    <2>6. \A r : Shows(r)' <=> Shows(r)
        BY <2>1 DEF Shows
    <2> QED
        BY <1>0, <2>1, <2>3, <2>4, <2>5, <2>6, FeedSteps
<1> QED
    BY <1>2, <1>3, <1>4, <1>5 DEF Clicks
\* Those in a room change as those in its call do, or not at all.
LEMMA WithinSame ==
    ASSUME Within, srv'.present = srv.present, srv'.feeds = srv.feeds,
           \A c \in Chats : srv'.listed[c] \subseteq Members[c]
    PROVE  Within'
BY DEF Within

LEMMA WithinEmptied ==
    ASSUME KTypeOK, Within, NEW c \in Chats, Emptied(c)
    PROVE  Within'
<1>1. /\ srv'.present = srv.present /\ srv'.feeds = srv.feeds
      /\ srv'.listed = [srv.listed EXCEPT ![c] = {}]
    BY DEF Emptied
<1>2. \A b \in Chats : srv'.listed[b] \subseteq Members[b]
    BY <1>1, SrvFields DEF Within
<1> QED
    BY <1>1, <1>2, WithinSame

LEMMA WithinCall ==
    ASSUME KTypeOK, Within, NEW c \in Chats, EndsCall(c)
    PROVE  Within'
<1>1. CASE Emptied(c)
    BY <1>1, WithinEmptied
<1>2. CASE srv'.listed = srv.listed /\ srv'.present = srv.present /\ srv'.feeds = srv.feeds
    BY <1>2, WithinSame DEF Within
<1>3. CASE srv' = srv
    BY <1>3 DEF Within
<1> QED
    BY <1>1, <1>2, <1>3 DEF EndsCall

LEMMA ServeWithin ==
    ASSUME KTypeOK, Within, NEW t \in Slots, Serve(t)
    PROVE  Within'
<1>1. CASE ServeMatch(t)
    BY <1>1, ServeMatchDoes, WithinSame DEF Within
<1>2. CASE ServeRing(t)
    <2>1. task[t].room \in Chats
          /\ (srv' = srv \/ srv' = Ring(task[t].room, "mine"))
        BY <1>2, ServeRingDoes
    <2>2. PICK c \in Chats : c = task[t].room
        BY <2>1
    <2>3. "mine" \in Rings4
        BY DEF Rings4
    <2>4. srv'.present = srv.present /\ srv'.feeds = srv.feeds /\ srv'.listed = srv.listed
        <3>1. LET n == Ring(c, "mine") IN
              n.present = srv.present /\ n.feeds = srv.feeds /\ n.listed = srv.listed
            BY <2>3, RingIs
        <3> QED
            BY <2>1, <2>2, <3>1
    <2> QED
        BY <2>4, WithinSame DEF Within
<1>3. CASE ServeAccept(t)
    <2>1. PICK c \in Chats : c = task[t].room
        BY <1>3, ServeAcceptDoes
    <2>2. CASE srv' = srv
        BY <2>2 DEF Within
    <2>3. CASE /\ srv'.listed = srv.listed /\ srv'.feeds = srv.feeds
               /\ srv'.present = [srv.present EXCEPT ![c] = @ \union srv.listed[c]]
        <3>1. \A r \in Rooms : /\ srv.present[r] \subseteq srv'.present[r]
                               /\ srv'.present[r] \subseteq Members[r]
            BY <2>3, SrvFields DEF Within, Rooms
        <3> QED
            BY <2>3, <3>1 DEF Within
    <2> QED
        BY <1>3, <2>1, <2>2, <2>3, ServeAcceptDoes
<1>4. CASE ServeEnd(t)
    BY <1>4, ServeEndDoes, WithinCall
<1>5. CASE \/ ServeReject(t) \/ ServeExisting(t) \/ Reply(t) \/ ServeMedia(t) \/ ServeConsume(t)
           \/ NoAnswer(t)
    <2>1. srv' = srv
        <3>1. CASE ServeReject(t)
            BY <3>1, ServeRejectDoes
        <3>2. CASE ServeExisting(t)
            BY <3>2, ServeExistingDoes
        <3>3. CASE Reply(t)
            BY <3>3, ReplyDoes
        <3>4. CASE ServeMedia(t)
            BY <3>4, ServeMediaDoes
        <3>5. CASE ServeConsume(t)
            BY <3>5, ServeConsumeDoes
        <3>6. CASE NoAnswer(t)
            BY <3>6, NoAnswerDoes
        <3> QED
            BY <1>5, <3>1, <3>2, <3>3, <3>4, <3>5, <3>6
    <2> QED
        BY <2>1 DEF Within
<1> QED
    BY <1>1, <1>2, <1>3, <1>4, <1>5 DEF Serve

LEMMA EmissionsWithin ==
    ASSUME KTypeOK, Within, Emissions
    PROVE  Within'
<1>1. ASSUME NEW r \in Rooms, TakeLeave(r)
      PROVE  Within'
    <2>1. /\ srv'.listed = srv.listed
          /\ \/ srv'.present = srv.present /\ srv'.feeds = srv.feeds
             \/ /\ srv'.present = [srv.present EXCEPT ![r] = {}]
                /\ srv'.feeds = srv.feeds \ Members[r]
        BY <1>1, TakeLeaveDoes, SrvFields
    <2>2. CASE srv'.present = srv.present /\ srv'.feeds = srv.feeds
        BY <2>1, <2>2, WithinSame DEF Within
    <2>3. CASE /\ srv'.present = [srv.present EXCEPT ![r] = {}]
               /\ srv'.feeds = srv.feeds \ Members[r]
        BY <2>1, <2>3, SrvFields DEF Within
    <2> QED
        BY <2>1, <2>2, <2>3
<1>2. ASSUME NEW r \in Rooms, NEW p \in Members[r], MateLeft(r, p)
      PROVE  Within'
    <2>1. PICK alone \in BOOLEAN :
              /\ srv'.present = [srv.present EXCEPT ![r] = IF alone THEN {} ELSE srv.present[r] \ {p}]
              /\ srv'.feeds = srv.feeds \ (IF alone THEN Members[r] ELSE {p})
        BY <1>2, MateLeftDoes
    <2>2. srv'.listed = srv.listed
        BY <1>2, MateLeftDoes
    <2>3. CASE alone
        BY <2>1, <2>2, <2>3, SrvFields DEF Within
    <2>4. CASE ~alone
        BY <2>1, <2>2, <2>4, SrvFields DEF Within
    <2> QED
        BY <2>3, <2>4
<1>3. ASSUME NEW c \in Chats, NEW p \in Members[c], MateEnds(c, p)
      PROVE  Within'
    <2>1. CASE srv' = srv
        BY <2>1 DEF Within
    <2>2. CASE Emptied(c)
        BY <2>2, WithinEmptied
    <2> QED
        BY <1>3, <2>1, <2>2, MateEndsDoes
<1>4. ASSUME NEW r \in Rooms, TakeFeeds(r)
      PROVE  Within'
    <2>1. srv' = srv
        BY <1>4, TakeFeedsDoes
    <2> QED
        BY <2>1 DEF Within
<1>5. ASSUME NEW c \in Chats, TakeEnd(c)
      PROVE  Within'
    BY <1>5, TakeEndDoes, WithinCall
<1> QED
    BY <1>1, <1>2, <1>3, <1>4, <1>5 DEF Emissions

LEMMA OthersWithin ==
    ASSUME KTypeOK, Within, Others
    PROVE  Within'
<1>1. ASSUME NEW r \in MatchRooms, Match(r)
      PROVE  Within'
    <2>1. /\ srv'.listed = srv.listed /\ srv'.feeds = srv.feeds
          /\ srv'.present = [srv.present EXCEPT ![r] = Members[r]]
        BY <1>1, MatchDoes
    <2>2. \A q \in Rooms : srv.present[q] \subseteq srv'.present[q]
                           /\ srv'.present[q] \subseteq Members[q]
        BY <2>1, SrvFields DEF Within
    <2> QED
        BY <2>1, <2>2 DEF Within
<1>2. ASSUME NEW r \in Rooms, NEW p \in Members[r], MateHangsUp(r, p)
      PROVE  Within'
    BY <1>2, MateHangsUpDoes DEF Within
<1>3. ASSUME NEW r \in Rooms, NEW p \in Members[r], MateProduces(r, p)
      PROVE  Within'
    <2>1. /\ p \in srv.present[r] /\ srv'.listed = srv.listed /\ srv'.present = srv.present
          /\ srv'.feeds = srv.feeds \union {p}
        BY <1>3, MateProducesDoes
    <2>2. \A q \in Rooms : p \in Members[q] => q = r
        BY MediaClientAssumption
    <2> QED
        BY <2>1, <2>2 DEF Within
<1>4. ASSUME NEW c \in Chats, RingOver(c)
      PROVE  Within'
    BY <1>4, RingOverDoes, WithinEmptied
<1>5. ASSUME NEW c \in Chats, NEW p \in Members[c], FriendCalls(c, p)
      PROVE  Within'
    <2>1. /\ srv'.listed = [srv.listed EXCEPT ![c] = {p}] /\ srv'.present = srv.present
          /\ srv'.feeds = srv.feeds
        BY <1>5, FriendCallsDoes
    <2>2. \A b \in Chats : srv'.listed[b] \subseteq Members[b]
        BY <2>1, SrvFields DEF Within
    <2> QED
        BY <2>1, <2>2, WithinSame
<1>6. ASSUME NEW c \in Chats, NEW p \in Members[c], FriendAccepts(c, p)
      PROVE  Within'
    <2>1. /\ srv'.listed = [srv.listed EXCEPT ![c] = @ \union {p}] /\ srv'.feeds = srv.feeds
          /\ \/ srv'.present = [srv.present EXCEPT ![c] = @ \union {p}]
             \/ srv'.present = [srv.present EXCEPT ![c] = @ \union srv.listed[c] \union {p}]
        BY <1>6, FriendAcceptsDoes
    <2>2. \A b \in Chats : srv'.listed[b] \subseteq Members[b]
        BY <2>1, SrvFields DEF Within
    <2>3. \A q \in Rooms : srv.present[q] \subseteq srv'.present[q]
                           /\ srv'.present[q] \subseteq Members[q]
        BY <2>1, SrvFields DEF Within, Rooms
    <2> QED
        BY <2>1, <2>2, <2>3 DEF Within
<1> QED
    BY <1>1, <1>2, <1>3, <1>4, <1>5, <1>6 DEF Others

\* The page leaves the server as it is.
LEMMA PageWithin ==
    ASSUME Within,
           \/ \E t \in Slots : CameraOpens(t) \/ CameraFails(t) \/ Setup(t) \/ Resume(t)
           \/ Events \/ Clicks
    PROVE  Within'
<1>1. srv' = srv
    BY DEF CameraOpens, CameraFails, Setup, InitializeDevice, LoadDevice, SendTransport,
           RecvTransport, ProduceVideo, ProduceAudio, Rest, Resume, MatchAnswered, EndAnswered,
           NothingDone, Accepted, Existing, Turned, ScreenChosen, ScreenProduced, Shared, Consumed,
           Events, Success, NewProducer, Over, Rings, UserJoined, UserLeft, Incoming, Clicks,
           ClickMatch, ClickCancel, ClickAccept, ClickReject, ClickEndCall, ClickHangUp,
           StartShare, StopShare, ClickRing, ClickToggle, Click, ClickIn
<1> QED
    BY <1>1 DEF Within
\* A step of the server or of others: whom it takes in it tells, and so it does of every feed.
LEMMA FeedGrows ==
    ASSUME KTypeOK, Feeding, Grows, Keeping, media' = media, strayed \subseteq strayed',
           \A r \in Rooms : Holds(r)' => Holds(r) \/ Told("success", r),
           \A r \in Rooms : \A i : News(i) /\ Admits(i, r)' => Told("success", r),
           \A r \in Rooms : Holds(r) /\ Holds(r)' =>
               \A p \in srv'.feeds \intersect srv'.present[r] :
                   \/ Coming(r, p)'
                   \/ p \in srv.feeds \intersect srv.present[r] /\ (Coming(r, p) => Coming(r, p)')
    PROVE  Feeding'
<1>1. \A u \in Slots : /\ Setting(task'[u]) = Setting(task[u]) /\ Greets(task'[u]) = Greets(task[u])
                       /\ task'[u].room = task[u].room /\ task'[u].at = task[u].at
                       /\ \A r : Accepts(task'[u], r) = Accepts(task[u], r)
    BY DEF Keeping, Setting, Greets, Accepts
<1>2. \A r : Shows(r)' <=> Shows(r)
    BY DEF Keeping, Shows
<1>3. Received'
    BY <1>1 DEF Feeding, Received, Setting
<1>4. ASSUME strayed' = {}
      PROVE  Greeted'
    <2> SUFFICES ASSUME NEW u \in Slots, Greets(task[u])'
                 PROVE  Shows(task[u].room)'
        BY DEF Greeted
    <2>1. PICK r : r = task[u].room
        OBVIOUS
    <2>2. Greets(task[u])
        BY <1>1 DEF Greets, Setting
    <2>3. Shows(r)
        BY <1>4, <2>1, <2>2 DEF Feeding, Greeted
    <2> QED
        BY <1>1, <1>2, <2>1, <2>3 DEF Shows
<1>5. \A r \in Rooms : Later(0, "success", r) \/ Told("success", r) => Later(0, "success", r)'
    <2>1. 0 \in 0..Len(inbox)
        BY DEF Grows
    <2> QED
        BY <2>1, LaterGrows
<1>6. ASSUME strayed' = {}
      PROVE  Admitted'
    <2> SUFFICES ASSUME NEW i \in 1..Len(inbox'), NEW r \in Rooms, Admits(i, r)', Holds(r)'
                 PROVE  Later(0, "success", r)' \/ Shows(r)' \/ Prepares(r)'
        BY DEF Admitted
    <2>1. CASE Told("success", r)
        BY <1>5, <2>1
    <2>2. CASE Holds(r) /\ i \in 1..Len(inbox)
        <3>1. inbox'[i] = inbox[i] /\ (inbox[i].ev = "answer" => inbox[i].room \in Slots)
            BY <2>2, MessageFields DEF Grows, KTypeOK, Types
        <3>2. Admits(i, r)
            BY <1>1, <3>1 DEF Admits
        <3>3. Later(0, "success", r) \/ Shows(r) \/ Prepares(r)
            BY <1>6, <2>2, <3>2 DEF Feeding, Admitted
        <3>4. Prepares(r) => Prepares(r)'
            BY <1>1 DEF Prepares, Setting
        <3> QED
            BY <1>2, <1>5, <3>3, <3>4
    <2>3. i \notin 1..Len(inbox) => News(i)
        BY DEF News, Grows
    <2> QED
        BY <2>1, <2>2, <2>3
<1>7. ASSUME strayed' = {}, ~touched'
      PROVE  Fed'
    <2> SUFFICES ASSUME NEW r \in Rooms, Holds(r)', Shows(r)'
                 PROVE  Reached(r)'
        BY DEF Fed
    <2>1. CASE Told("success", r)
        BY <1>5, <2>1 DEF Reached
    <2>2. CASE Holds(r)
        <3>1. Reached(r)
            BY <1>2, <1>7, <2>2 DEF Feeding, Fed, Keeping
        <3>2. CASE Later(0, "success", r)
            BY <1>5, <3>2 DEF Reached
        <3>3. CASE SettingUp
            BY <1>1, <3>3 DEF Reached, SettingUp, Setting
        <3>4. CASE media.recv # NoRoom /\ \A p \in srv.feeds \intersect srv.present[r] : Coming(r, p)
            <4>1. \A p \in srv'.feeds \intersect srv'.present[r] : Coming(r, p)'
                BY <2>2, <3>4
            <4> QED
                BY <3>4, <4>1 DEF Reached
        <3> QED
            BY <3>1, <3>2, <3>3, <3>4 DEF Reached
    <2> QED
        BY <2>1, <2>2
<1> QED
    BY <1>3, <1>4, <1>6, <1>7 DEF Feeding

\* A feed goes on coming.
LEMMA ComingGrows ==
    ASSUME KTypeOK, Grows, Keeping, media' = media,
           \A u \in Slots : task'[u].closed = task[u].closed,
           NEW r, NEW p, Coming(r, p),
           <<"feeds", r>> \in sent => <<"feeds", r>> \in sent' \/ Coming(r, p)',
           \A u \in Slots : Consumes(task[u], r) /\ p \in task[u].left =>
               p \in task'[u].left \/ Coming(r, p)'
    PROVE  Coming(r, p)'
<1>1. \A u \in Slots : Consumes(task[u], r) => Consumes(task'[u], r)
    BY DEF Keeping, Consumes
<1>2. CASE media.consumers[<<r, p>>] > 0 \/ <<"feeds", r>> \in sent
    BY <1>2 DEF Coming
<1>3. ASSUME NEW i \in 1..Len(inbox), Tells(i, r, p) \/ Brought(i, r, p)
      PROVE  Coming(r, p)'
    <2>1. i \in 1..Len(inbox') /\ inbox'[i] = inbox[i]
        BY DEF Grows
    <2>2. Tells(i, r, p) => Tells(i, r, p)'
        BY <2>1 DEF Tells, Says
    <2>3. inbox[i].ev = "answer" => inbox[i].room \in Slots
        BY MessageFields DEF KTypeOK, Types
    <2>4. Brought(i, r, p) => Brought(i, r, p)'
        BY <1>1, <2>1, <2>3 DEF Brought
    <2> QED
        BY <1>3, <2>1, <2>2, <2>4 DEF Coming
<1>4. CASE \E u \in Slots : Consumes(task[u], r) /\ p \in task[u].left
    BY <1>1, <1>4 DEF Coming, Consumes
<1> QED
    BY <1>2, <1>3, <1>4 DEF Coming

\* Nothing comes that does not come already.
LEMMA LightGrows ==
    ASSUME KTypeOK, Feeding, Grows, Keeping, media' = media, strayed \subseteq strayed',
           \A u \in Slots : /\ task'[u].closed = task[u].closed
                            /\ task[u].op = "consume" => task'[u].left = task[u].left,
           \A r \in Rooms : <<"feeds", r>> \in sent => <<"feeds", r>> \in sent',
           \A r \in Rooms : Holds(r)' => Holds(r) \/ Told("success", r),
           \A r \in Rooms : \A i : News(i) /\ Admits(i, r)' => Told("success", r),
           \A r \in Rooms : Holds(r) /\ Holds(r)' =>
               srv'.feeds \intersect srv'.present[r] \subseteq srv.feeds \intersect srv.present[r]
    PROVE  Feeding'
<1>1. ASSUME NEW r \in Rooms, NEW p, Coming(r, p)
      PROVE  Coming(r, p)'
    <2>1. \A u \in Slots : Consumes(task[u], r) /\ p \in task[u].left => p \in task'[u].left
        BY DEF Consumes
    <2> QED
        BY <1>1, <2>1, ComingGrows
<1>2. \A r \in Rooms : Holds(r) /\ Holds(r)' =>
          \A p \in srv'.feeds \intersect srv'.present[r] :
              p \in srv.feeds \intersect srv.present[r] /\ (Coming(r, p) => Coming(r, p)')
    BY <1>1
<1> QED
    BY <1>2, FeedGrows
\* The server answers a function that is not taken in by it.
LEMMA AnswersFeed ==
    ASSUME KTypeOK, Feeding, NEW t \in Slots, Served(t), srv'.present = srv.present,
           srv'.feeds = srv.feeds, \A r \in Rooms : Holds(r)' => Holds(r), Grows,
           task[t].op # "consume",
           \A i : News(i) /\ inbox'[i].ev = "answer" =>
               inbox'[i].room = t /\ (inbox'[i].who = TRUE => \A r : ~Accepts(task[t], r))
    PROVE  Feeding'
<1>1. Keeping /\ UNCHANGED <<sent, strayed>> /\ \A u \in Slots \ {t} : task'[u] = task[u]
    BY ServedKeeps
<1>2. media' = media /\ task'[t].closed = task[t].closed
    BY DEF Served
<1>3. \A r : Accepts(task'[t], r) = Accepts(task[t], r)
    BY <1>1 DEF Keeping, Accepts
<1>4. \A r \in Rooms : \A i : News(i) => ~Admits(i, r)'
    BY <1>3 DEF Admits
<1>5. \A u \in Slots : /\ task'[u].closed = task[u].closed
                       /\ task[u].op = "consume" => task'[u].left = task[u].left
    BY <1>1, <1>2
<1> QED
    BY <1>1, <1>2, <1>4, <1>5, LightGrows

\* Who is asked for a feed sends it, if it is there.
LEMMA ServeConsumeFeed ==
    ASSUME KTypeOK, Feeding, NEW t \in Slots, ServeConsume(t)
    PROVE  Feeding'
<1>1. /\ task[t].op = "consume" /\ Served(t) /\ srv' = srv
      /\ \E q \in task[t].left :
            /\ Adds(Answer(t, IF q \in srv.feeds THEN q ELSE {}))
            /\ task'[t].left = task[t].left \ {q}
    BY ServeConsumeDoes
<1>2. PICK q \in task[t].left : /\ Adds(Answer(t, IF q \in srv.feeds THEN q ELSE {}))
                                /\ task'[t].left = task[t].left \ {q}
    BY <1>1
<1>3. /\ Keeping /\ UNCHANGED <<sent, strayed>> /\ \A u \in Slots \ {t} : task'[u] = task[u]
      /\ media' = media /\ task'[t].closed = task[t].closed
    BY <1>1, ServedKeeps DEF Served
<1>4. /\ Grows
      /\ \A i : News(i) => inbox'[i] = Answer(t, IF q \in srv.feeds THEN q ELSE {})
      /\ \E i : News(i) /\ inbox'[i] = Answer(t, IF q \in srv.feeds THEN q ELSE {})
    BY <1>2, GrowsIs
<1>5. \A r : Consumes(task'[t], r) = Consumes(task[t], r) /\ ~Accepts(task'[t], r)
    BY <1>1, <1>3 DEF Keeping, Consumes, Accepts
<1>6. ASSUME NEW r \in Rooms, NEW p \in srv.feeds \intersect srv.present[r], Coming(r, p)
      PROVE  Coming(r, p)'
    <2>1. ASSUME NEW u \in Slots, Consumes(task[u], r), p \in task[u].left
          PROVE  p \in task'[u].left \/ Coming(r, p)'
        <3>1. CASE u # t
            BY <1>3, <2>1, <3>1
        <3>2. CASE u = t /\ p # q
            BY <1>2, <2>1, <3>2
        <3>3. CASE u = t /\ p = q
            <4>1. PICK i : News(i) /\ inbox'[i] = Answer(t, p)
                BY <1>4, <1>6, <3>3
            <4>2. Brought(i, r, p)'
                BY <1>5, <2>1, <3>3, <4>1, AnswerFields DEF Brought
            <4> QED
                BY <4>1, <4>2 DEF Coming, News
        <3> QED
            BY <3>1, <3>2, <3>3
    <2>2. \A u \in Slots : task'[u].closed = task[u].closed
        BY <1>3
    <2> QED
        BY <1>3, <1>4, <1>6, <2>1, <2>2, ComingGrows
<1>7. \A r \in Rooms : \A i : News(i) => ~Admits(i, r)'
    BY <1>4, <1>5, AnswerFields DEF Admits
<1>8. \A r : Holds(r)' = Holds(r)
    BY <1>1 DEF Holds
<1>9. strayed \subseteq strayed'
    BY <1>3
<1> QED
    BY <1>1, <1>3, <1>4, <1>6, <1>7, <1>8, <1>9, FeedGrows

\* Who is not answered gives up: a set-up strays, and a room that is cleared is not held.
LEMMA NoAnswerFeed ==
    ASSUME KTypeOK, Feeding, NEW t \in Slots, NoAnswer(t)
    PROVE  Feeding'
<1>1. /\ Cleared(t) /\ task'[t] = Idle /\ Leaves(t)
      /\ IF task[t].op = "setup"
         THEN strayed' = strayed \union {task[t].room} /\ touched' = TRUE
         ELSE UNCHANGED <<strayed, touched>>
      /\ UNCHANGED <<store, media, srv, inbox, sent>>
    BY NoAnswerDoes
<1>2. /\ Calm /\ Shift(0) /\ 0 \in {0, 1} /\ Closes(t)
      /\ \A u \in Slots \ {t} : task'[u] = task[u]
    BY <1>1, LeavesCloses DEF Calm, Shift, Leaves
<1>3. \A r : Shows(r)' <=> Shows(r)
    BY <1>1 DEF Shows
<1>4. /\ ~Setting(task'[t]) /\ ~Greets(task'[t]) /\ \A r : ~Accepts(task'[t], r)
    BY <1>1, IdleFeeds
<1>5. strayed' = {} => ~Setting(task[t])
    BY <1>1 DEF Setting
<1>6. Received'
    <2> SUFFICES ASSUME NEW u \in Slots, Setting(task'[u]), task'[u].at \in {"video", "audio"}
                 PROVE  media.recv # NoRoom
        BY <1>1 DEF Received, Setting
    <2>1. u # t
        BY <1>4
    <2> QED
        BY <1>2, <2>1 DEF Feeding, Received
<1>7. ASSUME strayed' = {}, ~touched', NEW r \in Rooms, Holds(r), Shows(r)'
      PROVE  Reached(r)'
    <2>1. strayed = {} /\ ~touched
        BY <1>1, <1>7
    <2>2. Reached(r)
        BY <1>3, <1>7, <2>1 DEF Feeding, Fed
    <2>3. \A u \in Slots : Setting(task[u]) => Setting(task'[u])
        BY <1>2, <1>5, <1>7
    <2>4. ~Consumes(task[t], r)
        BY <1>1, <1>7 DEF Consumes, Cleared, Holds
    <2>5. \A u \in Slots : Consumes(task[u], r) =>
              Consumes(task'[u], r) /\ task'[u].left = task[u].left
        BY <1>2, <2>4
    <2>6. /\ 0 = 1 => ~Says(1, "success", r) /\ ~Says(1, "new", r)
          /\ 0 = 1 /\ Head(inbox).ev = "answer" => ~Consumes(task[Head(inbox).room], r)
        OBVIOUS
    <2>7. media'.recv = media.recv /\ media'.consumers = media.consumers
        BY <1>1
    <2> QED
        BY <1>2, <2>2, <2>3, <2>5, <2>6, <2>7, ReachedKept
<1>8. ASSUME strayed' = {}, NEW u \in Slots, NEW r \in Chats, Setting(task[u]), task[u].room = r
      PROVE  Prepares(r)'
    <2>1. Setting(task'[u]) /\ task'[u].room = r
        BY <1>2, <1>5, <1>8
    <2> QED
        BY <2>1 DEF Prepares, Setting
<1>9. \A u \in Slots, r \in Rooms : Accepts(task'[u], r) => Accepts(task[u], r) \/ task[u] = Idle
    BY <1>2, <1>4
<1>10. \A u \in Slots : \A r \in Rooms : Greets(task'[u]) /\ task'[u].room = r =>
           Greets(task[u]) /\ r = task[u].room
    BY <1>2, <1>4
<1>11. \A r \in Chats : ~(0 = 1 /\ Says(1, "success", r))
    OBVIOUS
<1> QED
    BY <1>2, <1>3, <1>6, <1>7, <1>8, <1>9, <1>10, <1>11, FeedKept
\* A call that is over, or is left, is not held, and nobody comes into a room.
LEMMA CallEndsFeed ==
    ASSUME KTypeOK, Feeding, Keeping, NEW c \in Chats, EndsCall(c), strayed' = strayed,
           media' = media, task' \in [Slots -> TaskType],
           \A u \in Slots : SamePoint(task'[u], task[u]) \/ Unanswered(task[u]),
           \A u \in Slots : task'[u].closed = task[u].closed /\ task'[u].left = task[u].left,
           \A r \in Rooms : <<"feeds", r>> \in sent => <<"feeds", r>> \in sent'
    PROVE  Feeding'
<1>1. Event("over", c, {}) \in Message
    BY EventsAre DEF Rooms
<1>2. srv.ring \in [Chats -> Rings4]
    BY SrvFields
<1>3. /\ srv'.seats = srv.seats /\ srv'.present = srv.present /\ srv'.feeds = srv.feeds
      /\ \/ srv'.ring = srv.ring
         \/ srv'.ring = [srv.ring EXCEPT ![c] = "none"]
         \/ srv'.ring = [srv.ring EXCEPT ![c] = "left"]
    BY DEF EndsCall, Emptied
<1>4. \A d \in Chats : srv'.ring[d] = "active" => srv.ring[d] = "active"
    BY <1>2, <1>3
<1>5. \A r \in Rooms : Holds(r)' => Holds(r)
    BY <1>3, <1>4 DEF Holds
<1>6. inbox' = inbox \/ Adds(Event("over", c, {}))
    BY <1>1, SendsAdd DEF EndsCall
<1>7. Grows /\ \A i : News(i) => inbox'[i] = Event("over", c, {})
    BY <1>6, GrowsIs
<1>8. \A i : News(i) => inbox'[i].ev # "answer"
    BY <1>7, EventFields
<1>9. \A r \in Rooms : \A i : ~(News(i) /\ Admits(i, r)')
    BY <1>8 DEF Admits
<1>10. \A u \in Slots : /\ task'[u].closed = task[u].closed
                        /\ task[u].op = "consume" => task'[u].left = task[u].left
    OBVIOUS
<1> QED
    BY <1>3, <1>5, <1>7, <1>9, <1>10, LightGrows

LEMMA ServeAcceptFeed ==
    ASSUME KTypeOK, Feeding, NEW t \in Slots, ServeAccept(t)
    PROVE  Feeding'
<1>1. PICK c \in Chats : c = task[t].room
    BY ServeAcceptDoes
<1>2. /\ Served(t) /\ task[t].op = "accept" /\ task[t].at = "accept"
      /\ task'[t].left = task[t].left
      /\ \/ Adds(Answer(t, FALSE)) /\ srv' = srv
         \/ /\ srv.ring[c] \in {"theirs", "others"}
            /\ AddsTwo(Event("success", c, {}), Answer(t, TRUE))
            /\ srv'.ring = [srv.ring EXCEPT ![c] = "active"]
            /\ srv'.seats = srv.seats \union {c}
            /\ srv'.present = [srv.present EXCEPT ![c] = @ \union srv.listed[c]]
            /\ srv'.feeds = srv.feeds
    BY <1>1, ServeAcceptDoes
<1>3. CASE Adds(Answer(t, FALSE)) /\ srv' = srv
    <2>1. Grows /\ \A i : News(i) => inbox'[i] = Answer(t, FALSE)
        BY <1>3, GrowsIs
    <2>2. \A i : News(i) /\ inbox'[i].ev = "answer" =>
              inbox'[i].room = t /\ (inbox'[i].who = TRUE => \A r : ~Accepts(task[t], r))
        BY <2>1 DEF Answer
    <2>3. \A r \in Rooms : Holds(r)' => Holds(r)
        BY <1>3 DEF Holds
    <2> QED
        BY <1>2, <1>3, <2>1, <2>2, <2>3, AnswersFeed
<1>4. CASE /\ srv.ring[c] \in {"theirs", "others"}
           /\ AddsTwo(Event("success", c, {}), Answer(t, TRUE))
           /\ srv'.ring = [srv.ring EXCEPT ![c] = "active"]
           /\ srv'.seats = srv.seats \union {c}
           /\ srv'.present = [srv.present EXCEPT ![c] = @ \union srv.listed[c]]
           /\ srv'.feeds = srv.feeds
    <2>1. Keeping /\ UNCHANGED <<sent, strayed>> /\ \A u \in Slots \ {t} : task'[u] = task[u]
        BY <1>2, ServedKeeps
    <2>2. PICK m : m = Answer(t, TRUE)
        OBVIOUS
    <2>3. m.ev = "answer" /\ m.room = t
        BY <2>2 DEF Answer
    <2>14. AddsTwo(Event("success", c, {}), m)
        BY <1>4, <2>2
    <2>4. /\ Grows /\ Told("success", c)
          /\ \A i : News(i) => inbox'[i] = Event("success", c, {}) \/ inbox'[i] = m
        BY <2>14, ToldFirst
    <2>5. Event("success", c, {}).ev = "success"
        BY EventFields
    <2>6. \A i : News(i) /\ inbox'[i].ev = "answer" => inbox'[i].room = t
        BY <2>3, <2>4, <2>5
    <2>7. \A r \in Rooms : \A i : News(i) /\ Admits(i, r)' => Told("success", r)
        <3>1. \A r : Accepts(task'[t], r) => r = c
            BY <1>1, <2>1 DEF Keeping, Accepts
        <3> QED
            BY <2>4, <2>6, <3>1 DEF Admits
    <2>8. srv.ring \in [Chats -> Rings4] /\ srv.present \in [Rooms -> SUBSET People]
        BY SrvFields
    <2>9. /\ \A d \in Chats \ {c} : srv'.ring[d] = srv.ring[d]
          /\ ~Holds(c)
        BY <1>4, <2>8 DEF Holds
    <2>10. \A r \in Rooms : Holds(r)' => Holds(r) \/ Told("success", r)
        BY <1>4, <2>4, <2>9 DEF Holds
    <2>11. \A r \in Rooms : Holds(r) => srv'.present[r] = srv.present[r]
        BY <1>4, <2>8, <2>9
    <2>12. \A u \in Slots : /\ task'[u].closed = task[u].closed
                            /\ task[u].op = "consume" => task'[u].left = task[u].left
        BY <1>2, <2>1 DEF Served
    <2>13. media' = media
        BY <1>2 DEF Served
    <2> QED
        BY <1>4, <2>1, <2>4, <2>7, <2>10, <2>11, <2>12, <2>13, LightGrows
<1> QED
    BY <1>2, <1>3, <1>4

LEMMA ServeRingFeed ==
    ASSUME KTypeOK, Feeding, NEW t \in Slots, ServeRing(t)
    PROVE  Feeding'
<1>1. PICK c \in Chats : c = task[t].room
    BY ServeRingDoes
<1>2. /\ Served(t) /\ task[t].op = "ring"
      /\ \E ok \in BOOLEAN : Adds(Answer(t, ok))
      /\ \/ srv' = srv
         \/ srv.ring[c] = "none" /\ srv' = Ring(c, "mine")
    BY <1>1, ServeRingDoes
<1>3. PICK ok \in BOOLEAN : Adds(Answer(t, ok))
    BY <1>2
<1>4. Grows /\ \A i : News(i) => inbox'[i] = Answer(t, ok)
    BY <1>3, GrowsIs
<1>5. \A i : News(i) /\ inbox'[i].ev = "answer" =>
          inbox'[i].room = t /\ (inbox'[i].who = TRUE => \A r : ~Accepts(task[t], r))
    BY <1>2, <1>4, AnswerFields DEF Accepts
<1>6. "mine" \in Rings4
    BY DEF Rings4
<1>7. /\ srv'.present = srv.present /\ srv'.feeds = srv.feeds /\ srv'.seats = srv.seats
      /\ srv'.ring = srv.ring \/ srv'.ring = [srv.ring EXCEPT ![c] = "mine"]
    <2>1. LET n == Ring(c, "mine") IN
          /\ n.present = srv.present /\ n.feeds = srv.feeds /\ n.seats = srv.seats
          /\ n.ring = [srv.ring EXCEPT ![c] = "mine"]
        BY <1>6, RingIs
    <2> QED
        BY <1>2, <2>1
<1>8. srv.ring \in [Chats -> Rings4]
    BY SrvFields
<1>9. \A d \in Chats : srv'.ring[d] = "active" => srv.ring[d] = "active"
    BY <1>7, <1>8
<1>10. \A r \in Rooms : Holds(r)' => Holds(r)
    BY <1>7, <1>9 DEF Holds
<1> QED
    BY <1>2, <1>4, <1>5, <1>7, <1>10, AnswersFeed

LEMMA ServeFeed ==
    ASSUME KTypeOK, Feeding, NEW t \in Slots, Serve(t)
    PROVE  Feeding'
<1>1. CASE ServeMatch(t)
    <2>1. /\ Served(t) /\ UNCHANGED inbox /\ task[t].op \in {"match", "cancel"}
          /\ srv'.seats = srv.seats /\ srv'.ring = srv.ring
          /\ srv'.present = srv.present /\ srv'.feeds = srv.feeds
        BY <1>1, ServeMatchDoes
    <2>2. Grows /\ \A i : ~News(i)
        BY <2>1, GrowsIs
    <2>3. \A r \in Rooms : Holds(r)' => Holds(r)
        BY <2>1 DEF Holds
    <2> QED
        BY <2>1, <2>2, <2>3, AnswersFeed
<1>2. CASE ServeRing(t)
    BY <1>2, ServeRingFeed
<1>3. CASE ServeAccept(t)
    BY <1>3, ServeAcceptFeed
<1>4. CASE ServeReject(t) \/ ServeExisting(t) \/ Reply(t) \/ ServeMedia(t)
    <2>1. Served(t) /\ srv' = srv /\ \E ok \in BOOLEAN : Adds(Answer(t, ok))
        <3>1. CASE ServeReject(t)
            BY <3>1, ServeRejectDoes
        <3>2. CASE ServeExisting(t)
            BY <3>2, ServeExistingDoes
        <3>3. CASE Reply(t)
            BY <3>3, ReplyDoes
        <3>4. CASE ServeMedia(t)
            BY <3>4, ServeMediaDoes
        <3> QED
            BY <1>4, <3>1, <3>2, <3>3, <3>4
    <2>2. task[t].op # "consume" /\ ~(task[t].op = "accept" /\ task[t].at = "accept")
        <3>1. CASE ServeReject(t)
            BY <3>1, ServeRejectDoes
        <3>2. CASE ServeExisting(t)
            BY <3>2, ServeExistingDoes
        <3>3. CASE Reply(t)
            <4>1. task[t].request \in {"ok", "no"}
                BY <3>3, ReplyDoes
            <4>2. task[t].op \in {"match", "cancel", "end"}
                BY <4>1 DEF KTypeOK, WellFormed
            <4> QED
                BY <4>2
        <3>4. CASE ServeMedia(t)
            <4>1. task[t].at \in {"send", "recv", "video", "audio", "screen", "turn", "shared"}
                BY <3>4, ServeMediaDoes
            <4>2. Route(task[t].op, task[t].at)
                BY DEF KTypeOK, WellFormed
            <4> QED
                BY <4>1, <4>2, PointOfOne DEF Tracks
        <3> QED
            BY <1>4, <3>1, <3>2, <3>3, <3>4
    <2>3. PICK ok \in BOOLEAN : Adds(Answer(t, ok))
        BY <2>1
    <2>4. Grows /\ \A i : News(i) => inbox'[i] = Answer(t, ok)
        BY <2>3, GrowsIs
    <2>5. \A i : News(i) /\ inbox'[i].ev = "answer" =>
              inbox'[i].room = t /\ (inbox'[i].who = TRUE => \A r : ~Accepts(task[t], r))
        BY <2>2, <2>4, AnswerFields DEF Accepts
    <2>6. \A r \in Rooms : Holds(r)' => Holds(r)
        BY <2>1 DEF Holds
    <2> QED
        BY <2>1, <2>2, <2>4, <2>5, <2>6, AnswersFeed
<1>5. CASE ServeEnd(t)
    <2>1. PICK c \in Chats : c = task[t].room
        BY <1>5, ServeEndDoes
    <2>2. Served(t) /\ task'[t].left = task[t].left /\ EndsCall(c) /\ task[t].request = "sent"
        BY <1>5, <2>1, ServeEndDoes
    <2>3. Keeping /\ UNCHANGED <<sent, strayed>> /\ \A u \in Slots \ {t} : task'[u] = task[u]
        BY <2>2, ServedKeeps
    <2>4. /\ task' \in [Slots -> TaskType]
          /\ \A u \in Slots : SamePoint(task'[u], task[u]) \/ Unanswered(task[u])
        BY <2>2, <2>3 DEF Served, Leaves, SamePoint, Unanswered
    <2>5. media' = media
          /\ \A u \in Slots : task'[u].closed = task[u].closed /\ task'[u].left = task[u].left
        BY <2>2, <2>3 DEF Served
    <2> QED
        BY <2>2, <2>3, <2>4, <2>5, CallEndsFeed
<1>6. CASE ServeConsume(t)
    BY <1>6, ServeConsumeFeed
<1>7. CASE NoAnswer(t)
    BY <1>7, NoAnswerFeed
<1> QED
    BY <1>1, <1>2, <1>3, <1>4, <1>5, <1>6, <1>7 DEF Serve
\* A step apart from the page that brings nothing the user is held in.
LEMMA ApartFeed ==
    ASSUME KTypeOK, Feeding, Apart, Grows, strayed \subseteq strayed',
           \A i : News(i) => inbox'[i].ev # "answer",
           \A r \in Rooms : <<"feeds", r>> \in sent => <<"feeds", r>> \in sent',
           \A r \in Rooms : Holds(r)' => Holds(r) \/ Told("success", r),
           \A r \in Rooms : srv'.feeds \intersect srv'.present[r]
                                \subseteq srv.feeds \intersect srv.present[r]
    PROVE  Feeding'
<1>1. Keeping /\ task' = task /\ media' = media
    BY ApartKeeps DEF Apart
<1>2. \A r \in Rooms : \A i : ~(News(i) /\ Admits(i, r)')
    BY DEF Admits
<1>3. \A u \in Slots : /\ task'[u].closed = task[u].closed
                       /\ task[u].op = "consume" => task'[u].left = task[u].left
    BY <1>1
<1> QED
    BY <1>1, <1>2, <1>3, LightGrows

\* Who asks for the feeds of r is told of them.
LEMMA TakeFeedsFeed ==
    ASSUME KTypeOK, Feeding, NEW r \in Rooms, TakeFeeds(r)
    PROVE  Feeding'
<1> DEFINE there == srv.feeds \intersect srv.present[r]
<1>1. /\ Apart /\ UNCHANGED <<srv, strayed>> /\ sent' = sent \ {<<"feeds", r>>}
      /\ \/ there = {} /\ inbox' = inbox
         \/ there # {} /\ Adds(Event("new", r, there))
    BY TakeFeedsDoes
<1>2. Keeping /\ task' = task /\ media' = media
    BY <1>1, ApartKeeps DEF Apart
<1>3. Grows /\ \A i : News(i) => inbox'[i] = Event("new", r, there)
    BY <1>1, GrowsIs
<1>4. \A i : News(i) => inbox'[i].ev = "new"
    BY <1>3, EventFields
<1>5. \A q \in Rooms : Holds(q)' => Holds(q)
    BY <1>1 DEF Holds
<1>6. \A q \in Rooms : \A i : ~(News(i) /\ Admits(i, q)')
    BY <1>4 DEF Admits
<1>7. ASSUME NEW p \in there
      PROVE  Coming(r, p)'
    <2>1. Adds(Event("new", r, there))
        BY <1>1, <1>7
    <2>2. PICK i : News(i) /\ inbox'[i] = Event("new", r, there)
        BY <2>1, GrowsIs
    <2>3. Tells(i, r, p)'
        BY <1>7, <2>2, EventFields DEF Tells, Says
    <2> QED
        BY <2>2, <2>3 DEF Coming, News
<1>8. \A q : q # r => (<<"feeds", q>> \in sent => <<"feeds", q>> \in sent')
    BY <1>1, EmissionsDiffer
<1>9. ASSUME NEW q \in Rooms, NEW p, q # r, Coming(q, p)
      PROVE  Coming(q, p)'
    <2>1. \A u \in Slots : task'[u].closed = task[u].closed
        BY <1>2
    <2>2. \A u \in Slots : Consumes(task[u], q) /\ p \in task[u].left => p \in task'[u].left
        BY <1>2
    <2> QED
        BY <1>2, <1>3, <1>8, <1>9, <2>1, <2>2, ComingGrows
<1>10. \A q \in Rooms : \A p \in srv'.feeds \intersect srv'.present[q] :
           \/ Coming(q, p)'
           \/ p \in srv.feeds \intersect srv.present[q] /\ (Coming(q, p) => Coming(q, p)')
    BY <1>1, <1>7, <1>9
<1>11. strayed \subseteq strayed'
    BY <1>1
<1> QED
    BY <1>2, <1>3, <1>5, <1>6, <1>10, <1>11, FeedGrows

LEMMA EmissionsFeed ==
    ASSUME KTypeOK, Feeding, Emissions
    PROVE  Feeding'
<1>1. ASSUME NEW r \in Rooms, TakeLeave(r)
      PROVE  Feeding'
    <2>1. /\ Apart /\ inbox' = inbox /\ sent' = sent \ {<<"leave", r>>}
          /\ srv'.seats = srv.seats \ {r} /\ srv'.ring = srv.ring
          /\ strayed' = (IF Again(r) THEN strayed \union {r} ELSE strayed)
          /\ srv'.present = [srv.present EXCEPT ![r] = IF Cardinality(@) <= 1 THEN {} ELSE @]
          /\ srv'.feeds = (IF Cardinality(srv.present[r]) <= 1 THEN srv.feeds \ Members[r]
                           ELSE srv.feeds)
        BY <1>1, TakeLeaveDoes
    <2>2. Grows /\ \A i : ~News(i)
        BY <2>1, GrowsIs
    <2>3. \A q \in Rooms : <<"feeds", q>> \in sent => <<"feeds", q>> \in sent'
        BY <2>1, EmissionsDiffer
    <2>4. \A q \in Rooms : Holds(q)' => Holds(q)
        BY <2>1 DEF Holds
    <2>5. srv'.feeds \subseteq srv.feeds /\ \A q \in Rooms : srv'.present[q] \subseteq srv.present[q]
        BY <2>1, SrvFields
    <2>6. strayed \subseteq strayed'
        BY <2>1
    <2> QED
        BY <2>1, <2>2, <2>3, <2>4, <2>5, <2>6, ApartFeed
<1>2. ASSUME NEW c \in Chats, TakeEnd(c)
      PROVE  Feeding'
    <2>1. /\ Apart /\ EndsCall(c) /\ UNCHANGED strayed /\ sent' = sent \ {<<"end", c>>}
        BY <1>2, TakeEndDoes
    <2>2. \A q \in Rooms : <<"feeds", q>> \in sent => <<"feeds", q>> \in sent'
        BY <2>1, EmissionsDiffer
    <2>3. media' = media /\ task' = task
        BY <2>1 DEF Apart
    <2> QED
        BY <2>1, <2>2, <2>3, ApartKeeps, CallEndsFeed
<1>3. ASSUME NEW r \in Rooms, TakeFeeds(r)
      PROVE  Feeding'
    BY <1>3, TakeFeedsFeed
<1>4. ASSUME NEW r \in Rooms, NEW p \in Members[r], MateLeft(r, p)
      PROVE  Feeding'
    <2>1. PICK alone \in BOOLEAN :
              /\ srv'.present = [srv.present EXCEPT ![r] = IF alone THEN {} ELSE srv.present[r] \ {p}]
              /\ srv'.seats = (IF alone THEN srv.seats \ {r} ELSE srv.seats)
              /\ srv'.feeds = srv.feeds \ (IF alone THEN Members[r] ELSE {p})
              /\ \/ inbox' = inbox
                 \/ Adds(Event("over", r, {}))
                 \/ Adds(Event("left", r, p))
        BY <1>4, MateLeftDoes
    <2>2. /\ Apart /\ UNCHANGED strayed /\ sent' = sent \ {<<"left", r, p>>} /\ srv'.ring = srv.ring
        BY <1>4, MateLeftDoes
    <2>3. /\ Grows
          /\ \A i : News(i) => inbox'[i] = Event("over", r, {}) \/ inbox'[i] = Event("left", r, p)
        BY <2>1, GrowsIs
    <2>4. \A i : News(i) => inbox'[i].ev # "answer"
        BY <2>3, EventFields
    <2>5. \A q \in Rooms : <<"feeds", q>> \in sent => <<"feeds", q>> \in sent'
        BY <2>2, EmissionsDiffer
    <2>6. srv'.feeds \subseteq srv.feeds /\ srv'.seats \subseteq srv.seats
          /\ \A q \in Rooms : srv'.present[q] \subseteq srv.present[q]
        BY <2>1, SrvFields
    <2>7. \A q \in Rooms : Holds(q)' => Holds(q)
        BY <2>2, <2>6 DEF Holds
    <2> QED
        BY <2>2, <2>3, <2>4, <2>5, <2>6, <2>7, ApartFeed
<1>5. ASSUME NEW c \in Chats, NEW p \in Members[c], MateEnds(c, p)
      PROVE  Feeding'
    <2>1. /\ Apart /\ UNCHANGED strayed /\ sent' = sent \ {<<"ends", c, p>>}
          /\ \/ srv' = srv /\ inbox' = inbox
             \/ Emptied(c) /\ Adds(Event("over", c, {}))
             \/ srv' = srv /\ Adds(Event("left", c, p))
        BY <1>5, MateEndsDoes
    <2>2. \A q \in Rooms : <<"feeds", q>> \in sent => <<"feeds", q>> \in sent'
        BY <2>1, EmissionsDiffer
    <2>3. /\ Grows
          /\ \A i : News(i) => inbox'[i] = Event("over", c, {}) \/ inbox'[i] = Event("left", c, p)
        BY <2>1, GrowsIs
    <2>4. \A i : News(i) => inbox'[i].ev # "answer"
        BY <2>3, EventFields
    <2>5. /\ srv'.seats = srv.seats /\ srv'.present = srv.present /\ srv'.feeds = srv.feeds
          /\ srv'.ring = srv.ring \/ srv'.ring = [srv.ring EXCEPT ![c] = "none"]
        BY <2>1 DEF Emptied
    <2>6. srv.ring \in [Chats -> Rings4]
        BY SrvFields
    <2>7. \A d \in Chats : srv'.ring[d] = "active" => srv.ring[d] = "active"
        BY <2>5, <2>6
    <2>8. \A q \in Rooms : Holds(q)' => Holds(q)
        BY <2>5, <2>7 DEF Holds
    <2> QED
        BY <2>1, <2>2, <2>3, <2>4, <2>5, <2>8, ApartFeed
<1> QED
    BY <1>1, <1>2, <1>3, <1>4, <1>5 DEF Emissions
\* What another one produces is told to the user who is in the room.
LEMMA ProducesFeed ==
    ASSUME KTypeOK, Within, Feeding, NEW r \in Rooms, NEW p \in Members[r], MateProduces(r, p)
    PROVE  Feeding'
<1>1. /\ Apart /\ UNCHANGED <<strayed, sent>> /\ srv'.seats = srv.seats /\ srv'.ring = srv.ring
      /\ srv'.present = srv.present /\ srv'.feeds = srv.feeds \union {p}
      /\ \/ r \notin srv.seats /\ inbox' = inbox
         \/ r \in srv.seats /\ Adds(Event("new", r, {p}))
    BY MateProducesDoes
<1>2. Keeping /\ task' = task /\ media' = media
    BY <1>1, ApartKeeps DEF Apart
<1>3. Grows /\ \A i : News(i) => inbox'[i] = Event("new", r, {p})
    BY <1>1, GrowsIs
<1>4. \A i : News(i) => inbox'[i].ev = "new"
    BY <1>3, EventFields
<1>5. \A q \in Rooms : Holds(q)' => Holds(q)
    BY <1>1 DEF Holds
<1>6. \A q \in Rooms : \A i : ~(News(i) /\ Admits(i, q)')
    BY <1>4 DEF Admits
<1>7. ASSUME Holds(r)
      PROVE  Coming(r, p)'
    <2>1. Adds(Event("new", r, {p}))
        BY <1>1, <1>7 DEF Holds
    <2>2. PICK i : News(i) /\ inbox'[i] = Event("new", r, {p})
        BY <2>1, GrowsIs
    <2>3. Tells(i, r, p)'
        BY <2>2, EventFields DEF Tells, Says
    <2> QED
        BY <2>2, <2>3 DEF Coming, News
<1>8. ASSUME NEW q \in Rooms, NEW o, Coming(q, o)
      PROVE  Coming(q, o)'
    <2>1. /\ \A u \in Slots : task'[u].closed = task[u].closed
          /\ \A u \in Slots : Consumes(task[u], q) /\ o \in task[u].left => o \in task'[u].left
          /\ <<"feeds", q>> \in sent => <<"feeds", q>> \in sent'
        BY <1>1, <1>2
    <2> QED
        BY <1>2, <1>3, <1>8, <2>1, ComingGrows
<1>9. \A q \in Rooms : q # r => p \notin srv.present[q]
    BY MediaClientAssumption DEF Within
<1>10. \A q \in Rooms : Holds(q) /\ Holds(q)' =>
           \A o \in srv'.feeds \intersect srv'.present[q] :
               \/ Coming(q, o)'
               \/ o \in srv.feeds \intersect srv.present[q] /\ (Coming(q, o) => Coming(q, o)')
    BY <1>1, <1>7, <1>8, <1>9
<1>11. strayed \subseteq strayed'
    BY <1>1
<1> QED
    BY <1>2, <1>3, <1>5, <1>6, <1>10, <1>11, FeedGrows

\* Who produces is in the room already, and so comes into none.
LEMMA ComesIn ==
    ASSUME Within, srv'.feeds = srv.feeds, \A q \in Rooms : srv'.present[q] \subseteq Members[q]
    PROVE  \A q \in Rooms : srv'.feeds \intersect srv'.present[q]
                                \subseteq srv.feeds \intersect srv.present[q]
BY DEF Within

LEMMA OthersFeed ==
    ASSUME KTypeOK, Within, Feeding, Others
    PROVE  Feeding'
<1>0. Within'
    BY OthersWithin
<1>7. \A q \in Rooms : srv'.present[q] \subseteq Members[q]
    BY <1>0 DEF Within
<1>1. ASSUME NEW r \in MatchRooms, Match(r)
      PROVE  Feeding'
    <2>1. /\ Apart /\ UNCHANGED <<strayed, sent>> /\ srv'.seats = srv.seats \union {r}
          /\ srv'.ring = srv.ring /\ srv'.feeds = srv.feeds /\ Adds(Event("success", r, {}))
        BY <1>1, MatchDoes
    <2>2. /\ Grows /\ \A i : News(i) => inbox'[i] = Event("success", r, {})
          /\ \E i : News(i) /\ inbox'[i] = Event("success", r, {})
        BY <2>1, GrowsIs
    <2>3. /\ \A i : News(i) => inbox'[i].ev # "answer"
          /\ Told("success", r)
        BY <2>2, EventFields DEF Told, Says
    <2>4. \A q \in Rooms : Holds(q)' => Holds(q) \/ Told("success", q)
        BY <2>1, <2>3 DEF Holds
    <2>5. strayed \subseteq strayed'
        BY <2>1
    <2> QED
        BY <1>7, <2>1, <2>2, <2>3, <2>4, <2>5, ComesIn, ApartFeed
<1>2. ASSUME NEW r \in Rooms, NEW p \in Members[r], MateHangsUp(r, p)
      PROVE  Feeding'
    <2>1. /\ Apart /\ UNCHANGED <<strayed, srv, inbox>> /\ sent \subseteq sent'
        BY <1>2, MateHangsUpDoes
    <2>2. Grows /\ \A i : ~News(i)
        BY <2>1, GrowsIs
    <2>3. \A q \in Rooms : Holds(q)' => Holds(q)
        BY <2>1 DEF Holds
    <2> QED
        BY <1>7, <2>1, <2>2, <2>3, ComesIn, ApartFeed
<1>3. ASSUME NEW r \in Rooms, NEW p \in Members[r], MateProduces(r, p)
      PROVE  Feeding'
    BY <1>3, ProducesFeed
<1>4. ASSUME NEW c \in Chats, RingOver(c) \/ \E p \in Members[c] : FriendCalls(c, p)
      PROVE  Feeding'
    <2>1. /\ Apart /\ UNCHANGED <<strayed, sent>> /\ srv'.feeds = srv.feeds
          /\ srv'.seats = srv.seats
          /\ \/ srv'.ring = [srv.ring EXCEPT ![c] = "none"]
             \/ srv'.ring = [srv.ring EXCEPT ![c] = "theirs"]
          /\ Adds(Event("over", c, {})) \/ Adds(Event("incoming", c, {}))
        BY <1>4, RingOverDoes, FriendCallsDoes DEF Emptied
    <2>2. /\ Grows
          /\ \A i : News(i) => inbox'[i] = Event("over", c, {}) \/ inbox'[i] = Event("incoming", c, {})
        BY <2>1, GrowsIs
    <2>3. \A i : News(i) => inbox'[i].ev # "answer"
        BY <2>2, EventFields
    <2>4. srv.ring \in [Chats -> Rings4]
        BY SrvFields
    <2>5. \A d \in Chats : srv'.ring[d] = "active" => srv.ring[d] = "active"
        BY <2>1, <2>4
    <2>6. \A q \in Rooms : Holds(q)' => Holds(q)
        BY <2>1, <2>5 DEF Holds
    <2> QED
        BY <1>7, <2>1, <2>2, <2>3, <2>6, ComesIn, ApartFeed
<1>5. ASSUME NEW c \in Chats, NEW p \in Members[c], FriendAccepts(c, p)
      PROVE  Feeding'
    <2>1. /\ Apart /\ UNCHANGED <<strayed, sent>> /\ srv'.feeds = srv.feeds
          /\ \/ /\ srv.ring[c] = "mine" /\ srv'.ring = [srv.ring EXCEPT ![c] = "active"]
                /\ srv'.seats = srv.seats \union {c}
                /\ AddsTwo(Event("success", c, {}), Event("joined", c, p))
             \/ /\ Adds(Event("joined", c, p)) /\ srv'.seats = srv.seats
                /\ \/ srv'.ring = srv.ring
                   \/ srv'.ring = [srv.ring EXCEPT ![c] = "others"]
        BY <1>5, FriendAcceptsDoes
    <2>2. srv.ring \in [Chats -> Rings4]
        BY SrvFields
    <2>3. CASE /\ srv.ring[c] = "mine" /\ srv'.ring = [srv.ring EXCEPT ![c] = "active"]
               /\ srv'.seats = srv.seats \union {c}
               /\ AddsTwo(Event("success", c, {}), Event("joined", c, p))
        <3>1. /\ Grows /\ Told("success", c)
              /\ \A i : News(i) => \/ inbox'[i] = Event("success", c, {})
                                   \/ inbox'[i] = Event("joined", c, p)
            BY <2>3, ToldFirst
        <3>2. \A i : News(i) => inbox'[i].ev # "answer"
            BY <3>1, EventFields
        <3>3. \A d \in Chats \ {c} : srv'.ring[d] = srv.ring[d]
            BY <2>2, <2>3
        <3>4. \A q \in Rooms : Holds(q)' => Holds(q) \/ Told("success", q)
            BY <2>3, <3>1, <3>3 DEF Holds
        <3> QED
            BY <1>7, <2>1, <3>1, <3>2, <3>4, ComesIn, ApartFeed
    <2>4. CASE /\ Adds(Event("joined", c, p)) /\ srv'.seats = srv.seats
               /\ \/ srv'.ring = srv.ring
                  \/ srv'.ring = [srv.ring EXCEPT ![c] = "others"]
        <3>1. Grows /\ \A i : News(i) => inbox'[i] = Event("joined", c, p)
            BY <2>4, GrowsIs
        <3>2. \A i : News(i) => inbox'[i].ev # "answer"
            BY <3>1, EventFields
        <3>3. \A d \in Chats : srv'.ring[d] = "active" => srv.ring[d] = "active"
            BY <2>2, <2>4
        <3>4. \A q \in Rooms : Holds(q)' => Holds(q)
            BY <2>4, <3>3 DEF Holds
        <3> QED
            BY <1>7, <2>1, <3>1, <3>2, <3>4, ComesIn, ApartFeed
    <2> QED
        BY <2>1, <2>3, <2>4
<1> QED
    BY <1>1, <1>2, <1>3, <1>4, <1>5 DEF Others

LEMMA LostFeeding ==
    ASSUME KTypeOK, Within, Feeding, ConnectionLost
    PROVE  Within' /\ Feeding'
<1>1. Drops /\ inbox' = <<>> /\ Len(inbox') = 0 /\ UNCHANGED <<store, media>>
    BY ConnectionLostDoes
<1>2. \A r \in Rooms : ~Holds(r)'
    BY <1>1 DEF Holds, Drops
<1>3. ASSUME NEW r \in Rooms
      PROVE  /\ srv'.present[r] \subseteq Members[r]
             /\ srv'.feeds \intersect Members[r] \subseteq srv'.present[r]
    BY <1>1 DEF Drops, Within
<1>4. ASSUME NEW c \in Chats
      PROVE  srv'.listed[c] \subseteq Members[c]
    BY <1>1 DEF Drops, Within
<1>5. ASSUME NEW t \in Slots, Setting(task'[t])
      PROVE  task'[t] = task[t] /\ ~Awaits(task[t].at) /\ task[t].room \in strayed'
    BY <1>5, LostTask, LostStrays DEF Setting
<1>6. Received'
    BY <1>5 DEF Received, Awaits
<1>7. strayed' = {} => Greeted'
    BY <1>5 DEF Greeted, Greets
<1>8. Admitted' /\ Fed'
    BY <1>1, <1>2 DEF Admitted, Fed
<1> QED
    BY <1>3, <1>4, <1>6, <1>7, <1>8 DEF Within, Feeding

LEMMA NextFeeding ==
    ASSUME KTypeOK, KTypeOK', Hold, Within, Feeding, [KNext]_kvars
    PROVE  Within' /\ Feeding'
<1>1. CASE \E t \in Slots : CameraOpens(t) \/ CameraFails(t) \/ Setup(t) \/ Resume(t)
    BY <1>1, PageWithin, CameraFeed, SetupFeed, ResumeFeed
<1>2. CASE Events \/ Clicks
    BY <1>2, PageWithin, EventFeed, ClickFeed
<1>3. CASE \E t \in Slots : Serve(t)
    BY <1>3, ServeWithin, ServeFeed
<1>4. CASE Emissions
    BY <1>4, EmissionsWithin, EmissionsFeed
<1>5. CASE Others
    BY <1>5, OthersWithin, OthersFeed
<1>6. CASE UNCHANGED kvars
    <2>1. /\ Apart /\ UNCHANGED <<inbox, strayed, sent, srv>>
        BY <1>6 DEF kvars, Apart
    <2>2. Grows /\ \A i : ~News(i)
        BY <2>1, GrowsIs
    <2>3. \A r \in Rooms : Holds(r)' => Holds(r)
        BY <2>1 DEF Holds
    <2>4. Feeding'
        BY <2>1, <2>2, <2>3, ApartFeed
    <2> QED
        BY <2>1, <2>4 DEF Within
<1>7. CASE ConnectionLost
    BY <1>7, LostFeeding
<1> QED
    BY <1>1, <1>2, <1>3, <1>4, <1>5, <1>6, <1>7 DEF KNext

LEMMA FeedingShows == KTypeOK /\ Feeding => EverybodyConsumed
<1> SUFFICES ASSUME KTypeOK, Feeding, Settled,
                    NEW p \in srv.feeds \intersect srv.present[store.room]
             PROVE  media.consumers[<<store.room, p>>] > 0
    BY DEF EverybodyConsumed
<1>1. /\ inbox = <<>> /\ sent = {} /\ \A t \in Slots : task[t].op = "idle"
    BY IdleFits DEF Settled, Still
<1>2. PICK r \in Rooms : r = store.room
    BY DEF KTypeOK, Placed, Settled
<1>3. Holds(r) /\ Shows(r) /\ Fed
    BY <1>2 DEF Settled, Shows, Feeding
<1>4. Len(inbox) = 0
    BY <1>1
<1>5. ~Later(0, "success", r) /\ ~SettingUp
    BY <1>1, <1>4 DEF Later, SettingUp, Setting
<1>6. Coming(r, p)
    BY <1>2, <1>3, <1>5 DEF Fed, Reached
<1> QED
    BY <1>1, <1>2, <1>4, <1>6 DEF Coming, Consumes

\* Once nothing is on its way and the page shows the match or the call the server holds
\* the user in, whoever produces in its room is consumed, whether the producer or the
\* transport came first (useMediasoup.ts:76, 161-165).
THEOREM PageConsumesAll == KSpec => []EverybodyConsumed
<1>1. KInit => Hold /\ Within /\ Feeding
    BY InitHold, InitFeeding
<1>2. KTypeOK /\ Hold /\ [KNext]_kvars => Hold'
    BY StepHold
<1>3. KTypeOK /\ KTypeOK' /\ Hold /\ Within /\ Feeding /\ [KNext]_kvars => Within' /\ Feeding'
    BY NextFeeding
<1> QED
    BY <1>1, <1>2, <1>3, FeedingShows, PageTypeCorrect, PTL DEF KSpec
=============================================================================
