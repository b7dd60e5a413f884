---------------------------- MODULE MatchProofs ----------------------------
(***************************************************************************)
(* Theorems about MatchQueue, and about the gateway beside it, for every   *)
(* set of users, game types, handler slots and sockets and every bound.    *)
(*                                                                         *)
(* NoWaiterLost is not inductive: it depends on the index the second loop  *)
(* of findMatchingUsers starts at never being beyond the index the first   *)
(* loop stopped at, which is LoopInv.                                      *)
(*                                                                         *)
(* OneMatchUnlessGap counts matches, and becomes inductive by counting all *)
(* the places a request of a user may be (Places): a match, the queue, or  *)
(* the hands of a handler. A handler that pairs a batch without a gap has  *)
(* matched the first of it, in order (Straight).                           *)
(*                                                                         *)
(* What is proved of the queues holds beside the gateway, whose variables  *)
(* keep their shape; a user whose sockets do not overlap can be reached,   *)
(* undisturbed users are told of their match, and whoever is left in a     *)
(* room hears that the match ended (MInv follows a match from the          *)
(* notification through the sockets of its users to the end of the room).  *)
(***************************************************************************)
EXTENDS MatchGateway, TLAPS, FiniteSetTheorems, SequenceTheorems

\* What a handler's locals are between two steps: empty before the pop, in
\* the pairing loop no more users matched than candidates looked at, and
\* users matched by twos.
LoopInv ==
    \A h \in Handlers :
        /\ handler[h].pc \in {"idle", "count", "pop"} =>
              handler[h].cands = <<>> /\ handler[h].matched = <<>>
        /\ handler[h].pc = "pair" => Len(handler[h].matched) < handler[h].i
        /\ Len(handler[h].matched) # 1

\* A reply of ZPOPMIN is a sequence of queue entries.
LEMMA ReplyType ==
    ASSUME TypeOK, NEW g \in GameTypes, NEW reply \in ZPopMinReplies(g)
    PROVE  reply \in Seq(Entry)
<1>1. Queued(g) \subseteq Users
    BY DEF Queued
<1>2. Cardinality(Queued(g)) \in Nat
    BY <1>1, ConstantsAssumption, FS_Subset, FS_CardinalityType
<1> DEFINE n == IF Cardinality(Queued(g)) < PopCount THEN Cardinality(Queued(g))
                                                      ELSE PopCount
<1>3. n \in Nat
    BY <1>2, ConstantsAssumption
<1>4. reply \in [1 .. n -> [member : Queued(g), score : Scores]]
    BY DEF ZPopMinReplies
<1>5. reply \in [1 .. n -> Entry]
    BY <1>1, <1>4 DEF Entry
<1> QED
    BY <1>3, <1>5

\* ZPOPMIN pops only users that are in the sorted set.
LEMMA ReplyQueued ==
    ASSUME TypeOK, NEW g \in GameTypes, NEW reply \in ZPopMinReplies(g)
    PROVE  \A k \in 1 .. Len(reply) : reply[k].member \in Queued(g)
<1>1. Cardinality(Queued(g)) \in Nat
    BY ConstantsAssumption, FS_Subset, FS_CardinalityType DEF Queued
<1> DEFINE n == IF Cardinality(Queued(g)) < PopCount THEN Cardinality(Queued(g))
                                                      ELSE PopCount
<1>2. n \in Nat
    BY <1>1, ConstantsAssumption
<1>3. reply \in [1 .. n -> [member : Queued(g), score : Scores]]
    BY DEF ZPopMinReplies
<1>4. Len(reply) = n
    BY <1>2, <1>3
<1> QED
    BY <1>3, <1>4

\* A handler slot without a handler is a well-typed record.
LEMMA IdleType == IdleHandler \in HandlerState
BY DEF IdleHandler, HandlerState, Phases

\* The record updates the actions make keep a handler well-typed.
LEMMA StartType ==
    ASSUME NEW r \in HandlerState, NEW g \in GameTypes
    PROVE  [r EXCEPT !.pc = "count", !.game = g] \in HandlerState
BY DEF HandlerState, Phases

\* Giving one slot a new record, as starting or ending a handler does.
LEMMA SetType ==
    ASSUME TypeOK, NEW h \in Handlers, NEW r \in HandlerState
    PROVE  [handler EXCEPT ![h] = r] \in [Handlers -> HandlerState]
BY DEF TypeOK, HandlerState

\* Moving one handler to another phase (Enough, LeftoverDone).
LEMMA PcType ==
    ASSUME TypeOK, NEW h \in Handlers, NEW p \in Phases
    PROVE  [handler EXCEPT ![h].pc = p] \in [Handlers -> HandlerState]
BY DEF TypeOK, HandlerState

\* Moving the loop index of one handler (PairGap, Leftover).
LEMMA IndexType ==
    ASSUME TypeOK, NEW h \in Handlers, NEW n \in Nat \ {0}
    PROVE  [handler EXCEPT ![h].i = n] \in [Handlers -> HandlerState]
BY DEF TypeOK, HandlerState

\* Moving from the pairing loop to the second loop (PairDone).
LEMMA PcIndexType ==
    ASSUME TypeOK, NEW h \in Handlers, NEW p \in Phases, NEW n \in Nat \ {0}
    PROVE  [handler EXCEPT ![h].pc = p, ![h].i = n] \in [Handlers -> HandlerState]
BY DEF TypeOK, HandlerState

\* Setting the index of a handler's record that was just updated.
LEMMA RewindType ==
    ASSUME NEW f \in [Handlers -> HandlerState], NEW h \in Handlers, NEW n \in Nat \ {0}
    PROVE  [f EXCEPT ![h].i = n] \in [Handlers -> HandlerState]
BY DEF HandlerState

\* Storing the popped candidates (Pop).
LEMMA PoppedType ==
    ASSUME TypeOK, NEW h \in Handlers, NEW p \in Phases, NEW c \in Seq(Entry)
    PROVE  [handler EXCEPT ![h].pc = p, ![h].cands = c, ![h].i = 1] \in [Handlers -> HandlerState]
<1>1. [handler EXCEPT ![h].pc = p, ![h].cands = c] \in [Handlers -> HandlerState]
    BY DEF TypeOK, HandlerState
<1>2. 1 \in Nat \ {0}
    OBVIOUS
<1> QED
    BY <1>1, <1>2, RewindType

\* Appending a pair to matchedUsers (Pair).
LEMMA PairedType ==
    ASSUME TypeOK, NEW h \in Handlers, NEW m \in Seq(Users), NEW n \in Nat \ {0}
    PROVE  [handler EXCEPT ![h].matched = m, ![h].i = n] \in [Handlers -> HandlerState]
BY DEF TypeOK, HandlerState

\* The server starts well-typed.
LEMMA InitTypeOK == Init => TypeOK
<1> SUFFICES ASSUME Init PROVE TypeOK
    OBVIOUS
<1>1. handler \in [Handlers -> HandlerState]
    BY IdleType DEF Init
<1>2. queue \in [GameTypes -> [Users -> Scores \union {NoScore}]]
    BY DEF Init
<1> QED
    BY <1>1, <1>2, ConstantsAssumption DEF Init, TypeOK, IdleHandler

\* Setting one score of one queue keeps the queues well-typed.
LEMMA ZAddType ==
    ASSUME TypeOK, NEW g \in GameTypes, NEW e \in Entry
    PROVE  ZAdd(g, e) \in [GameTypes -> [Users -> Scores \union {NoScore}]]
BY DEF TypeOK, ZAdd, Entry

\* No handler, cancel, disconnect or crash makes a variable ill-typed.
LEMMA TypeStep == TypeOK /\ [Next]_vars => TypeOK'
<1> SUFFICES ASSUME TypeOK, [Next]_vars PROVE TypeOK'
    OBVIOUS
<1> USE DEF TypeOK, history
<1>1. CASE Tick
    BY <1>1, ConstantsAssumption DEF Tick
<1>2. ASSUME NEW h \in Handlers, NEW u \in Users, NEW g \in GameTypes, Request(h, u, g)
      PROVE  TypeOK'
    <2>1. [member |-> u, score |-> now] \in Entry
        BY DEF Entry, Scores
    <2>2. queue' \in [GameTypes -> [Users -> Scores \union {NoScore}]]
        BY <1>2, <2>1, ZAddType DEF Request
    <2>3. [IdleHandler EXCEPT !.pc = "count", !.game = g] \in HandlerState
        BY IdleType, StartType
    <2>4. handler' \in [Handlers -> HandlerState]
        BY <1>2, <2>3 DEF Request
    <2>5. \A k \in Handlers : handler'[k].pc # "idle" => handler'[k].game \in GameTypes
        BY <1>2 DEF Request, IdleHandler
    <2> QED
        BY <1>2, <2>2, <2>4, <2>5 DEF Request
<1>3. ASSUME NEW h \in Handlers, HandlerStep(h) PROVE TypeOK'
    <2> DEFINE me == handler[h]
    <2>1. me \in HandlerState
        OBVIOUS
    <2>2. IdleHandler \in HandlerState
        BY IdleType
    <2>3. CASE TooFew(h)
        BY <2>3, <2>2 DEF TooFew, IdleHandler
    <2>4. CASE Enough(h)
        <3>1. "pop" \in Phases
            BY DEF Phases
        <3>2. handler' \in [Handlers -> HandlerState]
            BY <2>4, <3>1, PcType DEF Enough
        <3> QED
            BY <2>4, <3>2 DEF Enough
    <2>5. CASE Pop(h)
        <3>1. me.game \in GameTypes
            BY <2>5 DEF Pop
        <3>2. PICK reply \in ZPopMinReplies(me.game) :
                /\ queue' = [queue EXCEPT ![me.game] =
                        [u \in Users |-> IF \E k \in DOMAIN reply : reply[k].member = u
                                         THEN NoScore ELSE @[u]]]
                /\ handler' = [handler EXCEPT
                        ![h].pc = IF Len(reply) < 2 THEN "leftover" ELSE "pair",
                        ![h].cands = reply,
                        ![h].i = 1]
            BY <2>5 DEF Pop
        <3>3. reply \in Seq(Entry)
            BY <3>1, ReplyType
        <3>4. handler' \in [Handlers -> HandlerState]
            <4> DEFINE p == IF Len(reply) < 2 THEN "leftover" ELSE "pair"
            <4>1. p \in Phases
                BY DEF Phases
            <4>2. [handler EXCEPT ![h].pc = p, ![h].cands = reply, ![h].i = 1] \in [Handlers -> HandlerState]
                BY <3>3, <4>1, PoppedType
            <4> QED
                BY <3>2, <4>2
        <3>5. queue' \in [GameTypes -> [Users -> Scores \union {NoScore}]]
            BY <3>1, <3>2
        <3>6. \A k \in Handlers : handler'[k].pc # "idle" => handler'[k].game \in GameTypes
            BY <3>1, <3>2 DEF HandlerState
        <3> QED
            BY <2>5, <3>4, <3>5, <3>6 DEF Pop
    <2>6. CASE Pair(h)
        <3>1. /\ me.i \in 1 .. Len(me.cands)
              /\ me.i + 1 \in 1 .. Len(me.cands)
            BY <2>6 DEF Pair, InPairLoop, HandlerState
        <3>2. me.cands[me.i].member \in Users /\ me.cands[me.i + 1].member \in Users
            <4>1. me.cands \in Seq(Entry)
                BY <2>1 DEF HandlerState
            <4>2. me.cands[me.i] \in Entry /\ me.cands[me.i + 1] \in Entry
                BY <3>1, <4>1
            <4> QED
                BY <4>2 DEF Entry
        <3>3. me.matched \o <<me.cands[me.i].member, me.cands[me.i + 1].member>> \in Seq(Users)
            BY <3>2 DEF HandlerState
        <3>4. handler' \in [Handlers -> HandlerState]
            <4>1. me.i + 2 \in Nat \ {0}
                BY <2>1 DEF HandlerState
            <4> QED
                BY <2>6, <3>3, <4>1, PairedType DEF Pair
        <3> QED
            BY <2>6, <3>4 DEF Pair, InPairLoop, HandlerState
    <2>7. CASE PairGap(h)
        <3>1. me.cands[me.i] \in Entry /\ me.game \in GameTypes
            BY <2>7 DEF PairGap, InPairLoop, HandlerState
        <3>2. queue' \in [GameTypes -> [Users -> Scores \union {NoScore}]]
            BY <2>7, <3>1, ZAddType DEF PairGap
        <3>3. handler' \in [Handlers -> HandlerState]
            <4>1. me.i + 1 \in Nat \ {0}
                BY <2>1 DEF HandlerState
            <4> QED
                BY <2>7, <4>1, IndexType DEF PairGap
        <3> QED
            BY <2>7, <3>2, <3>3 DEF PairGap, InPairLoop, HandlerState
    <2>8. CASE PairDone(h)
        <3>1. "leftover" \in Phases /\ Len(me.matched) + 1 \in Nat \ {0}
            BY <2>1 DEF Phases, HandlerState
        <3>2. handler' \in [Handlers -> HandlerState]
            BY <2>8, <3>1, PcIndexType DEF PairDone
        <3> QED
            BY <2>8, <3>2 DEF PairDone, HandlerState
    <2>9. CASE Leftover(h)
        <3>1. me.cands[me.i] \in Entry /\ me.game \in GameTypes
            BY <2>9 DEF Leftover, HandlerState
        <3>2. queue' \in [GameTypes -> [Users -> Scores \union {NoScore}]]
            BY <2>9, <3>1, ZAddType DEF Leftover
        <3>3. handler' \in [Handlers -> HandlerState]
            <4>1. me.i + 1 \in Nat \ {0}
                BY <2>1 DEF HandlerState
            <4> QED
                BY <2>9, <4>1, IndexType DEF Leftover
        <3> QED
            BY <2>9, <3>2, <3>3 DEF Leftover, HandlerState
    <2>10. CASE LeftoverDone(h)
        <3>1. handler' \in [Handlers -> HandlerState]
            BY <2>10, <2>2 DEF LeftoverDone, HandlerState, Phases
        <3>2. \A k \in Handlers : handler'[k].pc # "idle" => handler'[k].game \in GameTypes
            BY <2>10 DEF LeftoverDone, IdleHandler, HandlerState
        <3> QED
            BY <2>10, <3>1, <3>2 DEF LeftoverDone
    <2>11. CASE Save(h)
        <3>1. [game |-> me.game, users |-> me.matched] \in [game : GameTypes, users : Seq(Users)]
            BY <2>11 DEF Save, HandlerState
        <3>2. handler' \in [Handlers -> HandlerState]
            BY <2>11, <2>2 DEF Save
        <3> QED
            BY <2>11, <3>1, <3>2 DEF Save, IdleHandler
    <2>12. CASE SaveFails(h)
        <3>1. handler' \in [Handlers -> HandlerState]
            BY <2>12, <2>2 DEF SaveFails
        <3> QED
            BY <2>12, <3>1, ConstantsAssumption DEF SaveFails, IdleHandler
    <2> QED
        BY <1>3, <2>3, <2>4, <2>5, <2>6, <2>7, <2>8, <2>9, <2>10, <2>11, <2>12 DEF HandlerStep, QueueStep
<1>4. ASSUME NEW u \in Users, NEW g \in GameTypes, Cancel(u, g) PROVE TypeOK'
    <2>1. queue' \in [GameTypes -> [Users -> Scores \union {NoScore}]]
        BY <1>4 DEF Cancel, ZRem
    <2> QED
        BY <1>4, <2>1 DEF Cancel
<1>5. ASSUME NEW u \in Users, Leave(u) PROVE TypeOK'
    <2>1. queue' \in [GameTypes -> [Users -> Scores \union {NoScore}]]
        BY <1>5 DEF Leave
    <2> QED
        BY <1>5, <2>1 DEF Leave
<1>6. CASE Crash
    <2>1. handler' \in [Handlers -> HandlerState]
        BY <1>6 DEF Crash, IdleHandler, HandlerState, Phases
    <2> QED
        BY <1>6, <2>1, ConstantsAssumption DEF Crash, IdleHandler
<1>7. CASE UNCHANGED vars
    BY <1>7 DEF vars
<1> QED
    BY <1>1, <1>2, <1>3, <1>4, <1>5, <1>6, <1>7 DEF Next

\* Every reachable state is well-typed.
THEOREM TypeCorrect == Spec => []TypeOK
BY InitTypeOK, TypeStep, PTL DEF Spec

-----------------------------------------------------------------------------

\* Idle slots satisfy the loop invariant.
LEMMA LoopInit == Init => LoopInv
BY DEF Init, LoopInv, IdleHandler

\* The two loops of findMatchingUsers keep the loop invariant.
LEMMA LoopStep == TypeOK /\ LoopInv /\ [Next]_vars => LoopInv'
<1> SUFFICES ASSUME TypeOK, LoopInv, [Next]_vars, NEW k \in Handlers
             PROVE  /\ handler'[k].pc \in {"idle", "count", "pop"} =>
                          handler'[k].cands = <<>> /\ handler'[k].matched = <<>>
                    /\ handler'[k].pc = "pair" => Len(handler'[k].matched) < handler'[k].i
             /\ Len(handler'[k].matched) # 1
                    /\ Len(handler'[k].matched) # 1
    BY DEF LoopInv
<1>1. CASE UNCHANGED handler
    BY <1>1 DEF LoopInv
<1>2. ASSUME NEW h \in Handlers, NEW u \in Users, NEW g \in GameTypes, Request(h, u, g)
      PROVE  /\ handler'[k].pc \in {"idle", "count", "pop"} =>
                   handler'[k].cands = <<>> /\ handler'[k].matched = <<>>
             /\ handler'[k].pc = "pair" => Len(handler'[k].matched) < handler'[k].i
             /\ Len(handler'[k].matched) # 1
    BY <1>2 DEF Request, LoopInv, TypeOK, IdleHandler
<1>3. ASSUME NEW h \in Handlers, HandlerStep(h)
      PROVE  /\ handler'[k].pc \in {"idle", "count", "pop"} =>
                   handler'[k].cands = <<>> /\ handler'[k].matched = <<>>
             /\ handler'[k].pc = "pair" => Len(handler'[k].matched) < handler'[k].i
             /\ Len(handler'[k].matched) # 1
    <2>0. handler \in [Handlers -> HandlerState] /\ handler[h] \in HandlerState
        BY DEF TypeOK
    <2>1. CASE TooFew(h) \/ Save(h) \/ SaveFails(h)
        BY <2>0, <2>1 DEF TooFew, Save, SaveFails, LoopInv, IdleHandler
    <2>2. CASE Enough(h)
        BY <2>0, <2>2 DEF Enough, LoopInv, HandlerState
    <2>3. CASE Pop(h)
        BY <2>0, <2>3 DEF Pop, LoopInv, HandlerState
    <2>4. CASE Pair(h)
        <3>1. Len(handler[h].matched) < handler[h].i
            BY <2>4 DEF Pair, InPairLoop, LoopInv
        <3> DEFINE a == handler[h].cands[handler[h].i].member
                   b == handler[h].cands[handler[h].i + 1].member
        <3>2. /\ handler[h].i \in 1 .. Len(handler[h].cands)
              /\ handler[h].i + 1 \in 1 .. Len(handler[h].cands)
              /\ handler[h].cands \in Seq(Entry)
            BY SMTT(30), <2>0, <2>4 DEF Pair, InPairLoop, HandlerState
        <3>3. a \in Users /\ b \in Users
            <4>1. handler[h].cands[handler[h].i] \in Entry
                BY <3>2
            <4>2. handler[h].cands[handler[h].i + 1] \in Entry
                BY <3>2
            <4> QED
                BY <4>1, <4>2 DEF Entry
        <3>4. Len(handler[h].matched \o <<a, b>>) = Len(handler[h].matched) + 2
            BY <2>0, <3>3 DEF HandlerState
        <3>5. /\ handler'[h].matched = handler[h].matched \o <<a, b>>
              /\ handler'[h].i = handler[h].i + 2
              /\ handler'[h].pc = "pair"
            BY <2>0, <2>4 DEF Pair, InPairLoop, HandlerState
        <3>6. k # h => handler'[k] = handler[k]
            BY <2>0, <2>4 DEF Pair
        <3>7. Len(handler[h].matched) \in Nat /\ handler[h].i \in Nat
            BY <2>0 DEF HandlerState
        <3>8. Len(handler'[h].matched) < handler'[h].i /\ Len(handler'[h].matched) # 1
            BY <3>1, <3>4, <3>5, <3>7
        <3> QED
            BY <3>5, <3>6, <3>8 DEF LoopInv
    <2>5. CASE PairGap(h)
        BY <2>0, <2>5 DEF PairGap, InPairLoop, LoopInv, HandlerState
    <2>6. CASE PairDone(h)
        BY <2>0, <2>6 DEF PairDone, LoopInv, HandlerState
    <2>7. CASE Leftover(h)
        BY <2>0, <2>7 DEF Leftover, LoopInv, HandlerState
    <2>8. CASE LeftoverDone(h)
        BY <2>0, <2>8 DEF LeftoverDone, LoopInv, HandlerState, IdleHandler
    <2> QED
        BY <1>3, <2>1, <2>2, <2>3, <2>4, <2>5, <2>6, <2>7, <2>8 DEF HandlerStep, QueueStep
<1>4. CASE Crash
    BY <1>4 DEF Crash, IdleHandler
<1> QED
    BY <1>1, <1>2, <1>3, <1>4 DEF Next, Tick, Cancel, Leave, vars

\* A handler that does not move owes and holds what it did.
LEMMA OthersOwe ==
    ASSUME NEW k \in Handlers, NEW u, NEW g, handler'[k] = handler[k]
    PROVE  Owes(k, u, g)' = Owes(k, u, g) /\ Holds(k, u)' = Holds(k, u)
BY DEF Owes, Holds, InSeq

\* NoWaiterLost, said of one user and one game type.
Kept(u, g) ==
    <<u, g>> \in waiting \ dropped =>
        queue[g][u] # NoScore \/ \E h \in Handlers : Owes(h, u, g)

\* The steps of a handler that has popped users.
LEMMA PopKeeps ==
    ASSUME TypeOK, LoopInv, NEW h \in Handlers, NEW u \in Users, NEW g \in GameTypes,
           Pop(h), Kept(u, g)
    PROVE  Kept(u, g)'
<1> DEFINE me == handler[h]
<1>0. handler \in [Handlers -> HandlerState] /\ me \in HandlerState
    BY DEF TypeOK
<1> SUFFICES ASSUME <<u, g>> \in waiting \ dropped
             PROVE  queue'[g][u] # NoScore \/ \E k \in Handlers : Owes(k, u, g)'
    BY DEF Kept, Pop, history
<1>1. PICK reply \in ZPopMinReplies(me.game) :
        /\ queue' = [queue EXCEPT ![me.game] =
                [v \in Users |-> IF \E k \in DOMAIN reply : reply[k].member = v
                                 THEN NoScore ELSE @[v]]]
        /\ handler' = [handler EXCEPT
                ![h].pc = IF Len(reply) < 2 THEN "leftover" ELSE "pair",
                ![h].cands = reply,
                ![h].i = 1]
    BY DEF Pop
<1>2. me.game \in GameTypes
    BY DEF Pop, TypeOK
<1>3. reply \in Seq(Entry)
    BY <1>2, ReplyType
<1>4. \A k \in Handlers \ {h} : handler'[k] = handler[k]
    BY <1>0, <1>1
<1>5. ~Owes(h, u, g)
    BY <1>0 DEF Owes, InSeq, Pop, LoopInv
<1>6. CASE \E k \in Handlers : Owes(k, u, g)
    BY <1>4, <1>5, <1>6, OthersOwe
<1>7. CASE queue[g][u] # NoScore
    <2>1. CASE g = me.game /\ \E k \in DOMAIN reply : reply[k].member = u
        <3>1. PICK k \in 1 .. Len(reply) : reply[k].member = u
            BY <1>3, <2>1
        <3>2. /\ handler'[h].cands = reply
              /\ handler'[h].game = g
              /\ handler'[h].pc \in {"pair", "leftover"}
              /\ handler'[h].i = 1
            BY <1>0, <1>1, <2>1 DEF HandlerState
        <3>3. Owes(h, u, g)'
            BY <1>3, <3>1, <3>2 DEF Owes
        <3> QED
            BY <3>3
    <2>2. CASE ~(g = me.game /\ \E k \in DOMAIN reply : reply[k].member = u)
        BY <1>1, <1>2, <1>7, <2>2 DEF TypeOK
    <2> QED
        BY <2>1, <2>2
<1> QED
    BY <1>6, <1>7 DEF Kept

\* The two loops of findMatchingUsers and what follows them.
LEMMA LoopKeeps ==
    ASSUME TypeOK, LoopInv, NEW h \in Handlers, NEW u \in Users, NEW g \in GameTypes,
           Pair(h) \/ PairGap(h) \/ PairDone(h) \/ Leftover(h) \/ LeftoverDone(h),
           Kept(u, g)
    PROVE  Kept(u, g)'
<1> DEFINE me == handler[h]
<1>0. /\ handler \in [Handlers -> HandlerState]
      /\ me.cands \in Seq(Entry) /\ me.matched \in Seq(Users)
      /\ me.i \in Nat \ {0} /\ Len(me.cands) \in Nat /\ Len(me.matched) \in Nat
    BY DEF TypeOK, HandlerState
<1>1. waiting' = waiting /\ dropped' = dropped
    BY DEF Pair, PairGap, PairDone, Leftover, LeftoverDone, history
<1> SUFFICES ASSUME <<u, g>> \in waiting \ dropped
             PROVE  queue'[g][u] # NoScore \/ \E k \in Handlers : Owes(k, u, g)'
    BY <1>1 DEF Kept
<1>2. \A k \in Handlers \ {h} : handler'[k] = handler[k]
    BY <1>0 DEF Pair, PairGap, PairDone, Leftover, LeftoverDone
<1>3. ASSUME queue[g][u] # NoScore PROVE queue'[g][u] # NoScore
    <2>1. CASE PairGap(h)
        <3>1. me.cands[me.i] \in Entry /\ me.game \in GameTypes
            BY <1>0, <2>1 DEF PairGap, InPairLoop, TypeOK
        <3> QED
            BY <1>3, <2>1, <3>1 DEF PairGap, ZAdd, TypeOK, Entry, Scores, NoScore
    <2>2. CASE Leftover(h)
        <3>1. me.cands[me.i] \in Entry /\ me.game \in GameTypes
            BY <1>0, <2>2 DEF Leftover, TypeOK
        <3> QED
            BY <1>3, <2>2, <3>1 DEF Leftover, ZAdd, TypeOK, Entry, Scores, NoScore
    <2>3. CASE Pair(h) \/ PairDone(h) \/ LeftoverDone(h)
        BY <1>3, <2>3 DEF Pair, PairDone, LeftoverDone
    <2> QED
        BY <2>1, <2>2, <2>3
<1>4. ASSUME Owes(h, u, g) PROVE queue'[g][u] # NoScore \/ Owes(h, u, g)'
    <2>1. CASE Pair(h)
        <3> DEFINE a == me.cands[me.i].member
                   b == me.cands[me.i + 1].member
        <3>1. /\ me.i \in 1 .. Len(me.cands)
              /\ me.i + 1 \in 1 .. Len(me.cands)
              /\ me.pc = "pair"
            BY <1>0, <2>1 DEF Pair, InPairLoop
        <3>2. a \in Users /\ b \in Users
            <4>1. me.cands[me.i] \in Entry /\ me.cands[me.i + 1] \in Entry
                BY <1>0, <3>1
            <4> QED
                BY <4>1 DEF Entry
        <3> DEFINE m == me.matched \o <<a, b>>
        <3>3. /\ handler'[h].matched = m
              /\ handler'[h].i = me.i + 2
              /\ handler'[h].pc = "pair"
              /\ handler'[h].cands = me.cands
              /\ handler'[h].game = me.game
            BY <1>0, <2>1 DEF Pair, InPairLoop, HandlerState
        <3>4. /\ Len(m) = Len(me.matched) + 2
              /\ \A k \in 1 .. Len(me.matched) : m[k] = me.matched[k]
              /\ m[Len(me.matched) + 1] = a
              /\ m[Len(me.matched) + 2] = b
            BY <1>0, <3>2
        <3>5. me.game = g
            BY <1>4 DEF Owes
        <3> HIDE DEF m
        <3>6. CASE InSeq(u, me.matched)
            <4>1. PICK k \in 1 .. Len(me.matched) : me.matched[k] = u
                BY <3>6 DEF InSeq
            <4>2. m[k] = u /\ k \in 1 .. Len(m)
                BY <1>0, <3>4, <4>1
            <4>3. InSeq(u, m)
                BY <4>2 DEF InSeq
            <4> QED
                BY <3>3, <3>5, <4>3 DEF Owes, InSeq
        <3>7. CASE \E k \in 1 .. Len(me.cands) : k >= me.i /\ me.cands[k].member = u
            <4>1. PICK k \in 1 .. Len(me.cands) : k >= me.i /\ me.cands[k].member = u
                BY <3>7
            <4>2. CASE k = me.i \/ k = me.i + 1
                <5>1. u = a \/ u = b
                    BY <4>1, <4>2
                <5>2. /\ Len(me.matched) + 1 \in 1 .. Len(m)
                      /\ Len(me.matched) + 2 \in 1 .. Len(m)
                    BY <1>0, <3>4
                <5>3. InSeq(u, m)
                    BY <3>4, <5>1, <5>2 DEF InSeq
                <5> QED
                    BY <3>3, <3>5, <5>3 DEF Owes, InSeq
            <4>3. CASE k >= me.i + 2
                <5>1. \E l \in 1 .. Len(handler'[h].cands) :
                        l >= handler'[h].i /\ handler'[h].cands[l].member = u
                    BY <3>3, <4>1, <4>3
                <5> QED
                    BY <3>3, <3>5, <5>1 DEF Owes
            <4> QED
                BY <1>0, <4>1, <4>2, <4>3
        <3> QED
            BY <1>4, <3>6, <3>7 DEF Owes
    <2>2. CASE PairGap(h) \/ Leftover(h)
        <3>1. /\ me.i \in 1 .. Len(me.cands)
              /\ me.pc \in {"pair", "leftover"}
              /\ me.game \in GameTypes
              /\ queue' = ZAdd(me.game, me.cands[me.i])
            BY <1>0, <2>2 DEF PairGap, Leftover, InPairLoop, TypeOK
        <3>2. me.cands[me.i] \in Entry
            BY <1>0, <3>1
        <3>3. /\ handler'[h].matched = me.matched
              /\ handler'[h].i = me.i + 1
              /\ handler'[h].pc = me.pc
              /\ handler'[h].cands = me.cands
              /\ handler'[h].game = me.game
            BY <1>0, <2>2 DEF PairGap, Leftover, HandlerState
        <3>4. me.game = g
            BY <1>4 DEF Owes
        <3>5. CASE InSeq(u, me.matched)
            BY <3>3, <3>4, <3>5 DEF Owes, InSeq
        <3>6. CASE \E k \in 1 .. Len(me.cands) : k >= me.i /\ me.cands[k].member = u
            <4>1. PICK k \in 1 .. Len(me.cands) : k >= me.i /\ me.cands[k].member = u
                BY <3>6
            <4>2. CASE k = me.i
                BY <3>1, <3>2, <3>4, <4>1, <4>2 DEF ZAdd, TypeOK, Entry, Scores, NoScore
            <4>3. CASE k >= me.i + 1
                <5>1. \E l \in 1 .. Len(handler'[h].cands) :
                        l >= handler'[h].i /\ handler'[h].cands[l].member = u
                    BY <3>3, <4>1, <4>3
                <5> QED
                    BY <3>1, <3>3, <3>4, <5>1 DEF Owes
            <4> QED
                BY <1>0, <4>1, <4>2, <4>3
        <3> QED
            BY <1>4, <3>5, <3>6 DEF Owes
    <2>3. CASE PairDone(h)
        <3>1. Len(me.matched) + 1 <= me.i
            BY <1>0, <2>3 DEF PairDone, LoopInv
        <3>2. /\ handler'[h].matched = me.matched
              /\ handler'[h].i = Len(me.matched) + 1
              /\ handler'[h].pc = "leftover"
              /\ handler'[h].cands = me.cands
              /\ handler'[h].game = me.game
            BY <1>0, <2>3 DEF PairDone, HandlerState
        <3>3. CASE InSeq(u, me.matched)
            BY <1>4, <3>2, <3>3 DEF Owes, InSeq
        <3>4. CASE \E k \in 1 .. Len(me.cands) : k >= me.i /\ me.cands[k].member = u
            BY <1>0, <1>4, <3>1, <3>2, <3>4 DEF Owes
        <3> QED
            BY <1>4, <3>3, <3>4 DEF Owes
    <2>4. CASE LeftoverDone(h)
        <3>1. me.pc = "leftover" /\ me.i > Len(me.cands)
            BY <2>4 DEF LeftoverDone
        <3>2. InSeq(u, me.matched)
            BY <1>0, <1>4, <3>1 DEF Owes
        <3>3. CASE Len(me.matched) >= 2
            <4>1. /\ handler'[h].matched = me.matched
                  /\ handler'[h].game = me.game
                BY <1>0, <2>4, <3>3 DEF LeftoverDone, HandlerState
            <4> QED
                BY <1>4, <3>2, <4>1 DEF Owes, InSeq
        <3>4. CASE Len(me.matched) < 2
            <4>1. Len(me.matched) # 1
                BY DEF LoopInv
            <4>2. \A n \in Nat : n < 2 /\ n # 1 => n = 0
                OBVIOUS
            <4>3. Len(me.matched) = 0
                BY <1>0, <3>4, <4>1, <4>2, Zenon
            <4> QED
                BY <3>2, <4>3 DEF InSeq
        <3> QED
            BY <1>0, <3>3, <3>4
    <2> QED
        BY <2>1, <2>2, <2>3, <2>4
<1>5. CASE \E k \in Handlers \ {h} : Owes(k, u, g)
    BY <1>2, <1>5, OthersOwe
<1> QED
    BY <1>3, <1>4, <1>5 DEF Kept

\* The steps after which a handler has nobody in hand.
LEMMA ReleaseKeeps ==
    ASSUME TypeOK, LoopInv, NEW h \in Handlers, NEW u \in Users, NEW g \in GameTypes,
           TooFew(h) \/ Enough(h) \/ Save(h) \/ SaveFails(h),
           Kept(u, g)
    PROVE  Kept(u, g)'
<1> DEFINE me == handler[h]
<1>0. handler \in [Handlers -> HandlerState]
    BY DEF TypeOK
<1>1. \A k \in Handlers \ {h} : handler'[k] = handler[k]
    BY <1>0 DEF TooFew, Enough, Save, SaveFails
<1>2. queue' = queue
    BY DEF TooFew, Enough, Save, SaveFails
<1>3. <<u, g>> \in (waiting \ dropped)' =>
          <<u, g>> \in waiting \ dropped /\ ~Owes(h, u, g)
    <2>1. CASE TooFew(h) \/ Enough(h)
        <3>1. me.cands = <<>> /\ me.matched = <<>>
            BY <2>1 DEF TooFew, Enough, LoopInv
        <3> QED
            BY <2>1, <3>1 DEF TooFew, Enough, history, Owes, InSeq
    <2>2. CASE Save(h)
        BY <2>2 DEF Save
    <2>3. CASE SaveFails(h)
        BY <2>3 DEF SaveFails
    <2> QED
        BY <2>1, <2>2, <2>3
<1> QED
    BY <1>1, <1>2, <1>3, OthersOwe DEF Kept

\* Every step keeps whoever waits in the queue or in a handler's debt.
LEMMA KeptStep == TypeOK /\ LoopInv /\ NoWaiterLost /\ [Next]_vars => NoWaiterLost'
<1> SUFFICES ASSUME TypeOK, LoopInv, NoWaiterLost, [Next]_vars,
                    NEW u \in Users, NEW g \in GameTypes
             PROVE  Kept(u, g)'
    BY DEF NoWaiterLost, Kept
<1>0. Kept(u, g) /\ handler \in [Handlers -> HandlerState]
    BY DEF NoWaiterLost, Kept, TypeOK
<1>1. CASE Tick \/ UNCHANGED vars
    BY <1>0, <1>1, OthersOwe DEF Tick, vars, history, Kept
<1>2. ASSUME NEW h \in Handlers, NEW v \in Users, NEW f \in GameTypes, Request(h, v, f)
      PROVE  Kept(u, g)'
    <2>1. \A k \in Handlers \ {h} : handler'[k] = handler[k]
        BY <1>0, <1>2 DEF Request
    <2>2. ~Owes(h, u, g)
        BY <1>2 DEF Request, LoopInv, Owes, InSeq
    <2>3. CASE v = u /\ f = g
        BY <1>2, <2>3 DEF Request, ZAdd, Kept, TypeOK, NoScore
    <2>4. CASE ~(v = u /\ f = g)
        <3>1. queue'[g][u] = queue[g][u]
            BY <1>2, <2>4 DEF Request, ZAdd, TypeOK
        <3>2. <<u, g>> \in waiting' \ dropped' => <<u, g>> \in waiting \ dropped
            BY <1>2, <2>4 DEF Request
        <3> QED
            BY <1>0, <2>1, <2>2, <3>1, <3>2, OthersOwe DEF Kept
    <2> QED
        BY <2>3, <2>4
<1>3. ASSUME NEW h \in Handlers, HandlerStep(h) PROVE Kept(u, g)'
    BY <1>0, <1>3, PopKeeps, LoopKeeps, ReleaseKeeps DEF HandlerStep, QueueStep
<1>4. ASSUME NEW v \in Users, NEW f \in GameTypes, Cancel(v, f) PROVE Kept(u, g)'
    <2>1. CASE v = u /\ f = g
        BY <1>4, <2>1 DEF Cancel, Kept
    <2>2. CASE ~(v = u /\ f = g)
        <3>1. queue'[g][u] = queue[g][u]
            BY <1>4, <2>2 DEF Cancel, ZRem, TypeOK
        <3> QED
            BY <1>0, <1>4, <3>1, OthersOwe DEF Cancel, Kept
    <2> QED
        BY <2>1, <2>2
<1>5. ASSUME NEW v \in Users, Leave(v) PROVE Kept(u, g)'
    <2>1. CASE v = u
        BY <1>5, <2>1 DEF Leave, Kept
    <2>2. CASE v # u
        <3>1. queue'[g][u] = queue[g][u]
            BY <1>5, <2>2 DEF Leave, TypeOK
        <3> QED
            BY <1>0, <1>5, <3>1, OthersOwe DEF Leave, Kept
    <2> QED
        BY <2>1, <2>2
<1>6. CASE Crash
    BY <1>0, <1>6 DEF Crash, Kept
<1> QED
    BY <1>1, <1>2, <1>3, <1>4, <1>5, <1>6 DEF Next

\* No handler loses a user it popped: whoever waits is queued or owed, however
\* the handlers, withdrawals and crashes interleave.
THEOREM WaitersKept == Spec => []NoWaiterLost
<1>1. Init => NoWaiterLost
    BY DEF Init, NoWaiterLost
<1>2. Init => TypeOK /\ LoopInv /\ NoWaiterLost
    BY <1>1, InitTypeOK, LoopInit
<1>3. TypeOK /\ LoopInv /\ NoWaiterLost /\ [Next]_vars => (TypeOK /\ LoopInv /\ NoWaiterLost)'
    BY TypeStep, LoopStep, KeptStep
<1> QED
    BY <1>2, <1>3, PTL DEF Spec

-----------------------------------------------------------------------------

\* WithdrawalSticks, said of one user and one game type.
Out(u, g) ==
    <<u, g>> \in withdrawn =>
        /\ queue[g][u] = NoScore
        /\ \A h \in Handlers : handler[h].game = g => ~Holds(h, u)

\* Every step keeps a withdrawn user out of the queue and of all hands.
LEMMA OutStep == TypeOK /\ LoopInv /\ WithdrawalSticks /\ [Next]_vars => WithdrawalSticks'
<1> SUFFICES ASSUME TypeOK, LoopInv, WithdrawalSticks, [Next]_vars,
                    NEW u \in Users, NEW g \in GameTypes, <<u, g>> \in withdrawn'
             PROVE  /\ queue'[g][u] = NoScore
                    /\ \A k \in Handlers : handler'[k].game = g => ~Holds(k, u)'
    BY DEF WithdrawalSticks
<1> DEFINE Done == /\ queue'[g][u] = NoScore
                   /\ \A k \in Handlers : handler'[k].game = g => ~Holds(k, u)'
<1>0. Out(u, g) /\ handler \in [Handlers -> HandlerState]
    BY DEF WithdrawalSticks, Out, TypeOK
<1>1. CASE Tick \/ UNCHANGED vars
    BY <1>0, <1>1, OthersOwe DEF Tick, vars, history, Out
<1>2. ASSUME NEW h \in Handlers, NEW v \in Users, NEW f \in GameTypes, Request(h, v, f)
      PROVE  Done
    <2>1. <<u, g>> \in withdrawn /\ ~(v = u /\ f = g)
        BY <1>2 DEF Request
    <2>2. queue'[g][u] = queue[g][u]
        BY <1>2, <2>1 DEF Request, ZAdd, TypeOK
    <2>3. \A k \in Handlers \ {h} : handler'[k] = handler[k]
        BY <1>0, <1>2 DEF Request
    <2>4. handler'[h].cands = <<>>
        BY <1>0, <1>2 DEF Request, IdleHandler
    <2>5. ~Holds(h, u)'
        BY <2>4 DEF Holds
    <2> QED
        BY <1>0, <2>1, <2>2, <2>3, <2>5, OthersOwe DEF Out
<1>3. ASSUME NEW h \in Handlers, HandlerStep(h) PROVE Done
    <2> DEFINE me == handler[h]
    <2>0. <<u, g>> \in withdrawn
        BY <1>3 DEF HandlerStep, QueueStep, TooFew, Enough, Pop, Pair, PairGap, PairDone, Leftover,
                    LeftoverDone, Save, SaveFails, history
    <2>1. /\ queue[g][u] = NoScore
          /\ \A k \in Handlers : handler[k].game = g => ~Holds(k, u)
        BY <1>0, <2>0 DEF Out
    <2>2. \A k \in Handlers \ {h} : handler'[k] = handler[k]
        BY <1>0, <1>3 DEF HandlerStep, QueueStep, TooFew, Enough, Pop, Pair, PairGap, PairDone, Leftover,
                          LeftoverDone, Save, SaveFails
    <2>3. CASE TooFew(h) \/ Save(h) \/ SaveFails(h)
        <3>1. handler'[h].cands = <<>> /\ queue' = queue
            BY <1>0, <2>3 DEF TooFew, Save, SaveFails, IdleHandler
        <3>2. ~Holds(h, u)'
            BY <3>1 DEF Holds
        <3> QED
            BY <2>1, <2>2, <3>1, <3>2, OthersOwe
    <2>4. CASE Enough(h) \/ Pair(h) \/ PairDone(h)
        <3>1. /\ handler'[h].cands = me.cands
              /\ handler'[h].game = me.game
              /\ queue' = queue
            BY ZenonT(30), <1>0, <2>4 DEF Enough, Pair, PairDone, HandlerState
        <3> QED
            BY <2>1, <2>2, <3>1, OthersOwe DEF Holds
    <2>5. CASE PairGap(h) \/ Leftover(h)
        <3>1. /\ handler'[h].cands = me.cands
              /\ handler'[h].game = me.game
              /\ me.i \in 1 .. Len(me.cands)
              /\ me.game \in GameTypes
              /\ queue' = ZAdd(me.game, me.cands[me.i])
            BY <1>0, <2>5 DEF PairGap, Leftover, InPairLoop, HandlerState, TypeOK
        <3>2. me.cands[me.i] \in Entry
            BY <1>0, <3>1 DEF HandlerState
        <3>3. me.game = g => me.cands[me.i].member # u
            BY <2>1, <3>1 DEF Holds
        <3>4. queue'[g][u] = queue[g][u]
            BY <3>1, <3>2, <3>3 DEF ZAdd, TypeOK, Entry
        <3> QED
            BY <2>1, <2>2, <3>1, <3>4, OthersOwe DEF Holds
    <2>6. CASE LeftoverDone(h)
        <3>1. queue' = queue
            BY <2>6 DEF LeftoverDone
        <3>2. handler'[h].game = g => ~Holds(h, u)'
            <4>1. CASE Len(me.matched) >= 2
                <5>1. handler'[h].cands = me.cands /\ handler'[h].game = me.game
                    BY <1>0, <2>6, <4>1 DEF LeftoverDone, HandlerState
                <5> QED
                    BY <2>1, <5>1 DEF Holds
            <4>2. CASE ~(Len(me.matched) >= 2)
                <5>1. handler'[h].cands = <<>>
                    BY <1>0, <2>6, <4>2 DEF LeftoverDone, IdleHandler
                <5> QED
                    BY <5>1 DEF Holds
            <4> QED
                BY <4>1, <4>2
        <3> QED
            BY <2>1, <2>2, <3>1, <3>2, OthersOwe
    <2>7. CASE Pop(h)
        <3>1. PICK reply \in ZPopMinReplies(me.game) :
                /\ queue' = [queue EXCEPT ![me.game] =
                        [v \in Users |-> IF \E k \in DOMAIN reply : reply[k].member = v
                                         THEN NoScore ELSE @[v]]]
                /\ handler' = [handler EXCEPT
                        ![h].pc = IF Len(reply) < 2 THEN "leftover" ELSE "pair",
                        ![h].cands = reply,
                        ![h].i = 1]
            BY <2>7 DEF Pop
        <3>2. me.game \in GameTypes
            BY <2>7 DEF Pop, TypeOK
        <3>3. queue'[g][u] = NoScore
            BY <2>1, <3>1, <3>2 DEF TypeOK
        <3>4. handler'[h].cands = reply /\ handler'[h].game = me.game
            BY <1>0, <3>1 DEF HandlerState
        <3>5. \A k \in 1 .. Len(reply) : reply[k].member \in Queued(me.game)
            BY <3>2, ReplyQueued
        <3>6. me.game = g => ~Holds(h, u)'
            BY <2>1, <3>4, <3>5 DEF Holds, Queued
        <3> QED
            BY <2>1, <2>2, <3>3, <3>4, <3>6, OthersOwe
    <2> QED
        BY <1>3, <2>3, <2>4, <2>5, <2>6, <2>7 DEF HandlerStep, QueueStep
<1>4. ASSUME NEW v \in Users, NEW f \in GameTypes, Cancel(v, f) PROVE Done
    <2>1. handler' = handler
        BY <1>4 DEF Cancel
    <2>2. CASE <<u, g>> \in withdrawn
        <3>1. queue'[g][u] = NoScore
            BY <1>0, <1>4, <2>2 DEF Cancel, ZRem, TypeOK, Out
        <3> QED
            BY <1>0, <2>1, <2>2, <3>1, OthersOwe DEF Out
    <2>3. CASE <<u, g>> \notin withdrawn
        <3>1. v = u /\ f = g /\ \A k \in Handlers : ~Holds(k, u)
            BY <1>4, <2>3 DEF Cancel
        <3>2. queue'[g][u] = NoScore
            BY <1>4, <3>1 DEF Cancel, ZRem, TypeOK
        <3> QED
            BY <2>1, <3>1, <3>2, OthersOwe
    <2> QED
        BY <2>2, <2>3
<1>5. ASSUME NEW v \in Users, Leave(v) PROVE Done
    <2>1. handler' = handler
        BY <1>5 DEF Leave
    <2>2. CASE <<u, g>> \in withdrawn
        <3>1. queue'[g][u] = NoScore
            BY <1>0, <1>5, <2>2 DEF Leave, TypeOK, Out
        <3> QED
            BY <1>0, <2>1, <2>2, <3>1, OthersOwe DEF Out
    <2>3. CASE <<u, g>> \notin withdrawn
        <3>1. v = u /\ \A k \in Handlers : ~Holds(k, u)
            BY <1>5, <2>3 DEF Leave
        <3>2. queue'[g][u] = NoScore
            BY <1>5, <3>1 DEF Leave, TypeOK
        <3> QED
            BY <2>1, <3>1, <3>2, OthersOwe
    <2> QED
        BY <2>2, <2>3
<1>6. CASE Crash
    <2>1. queue'[g][u] = NoScore
        BY <1>0, <1>6 DEF Crash, Out
    <2>2. \A k \in Handlers : handler'[k].cands = <<>>
        BY <1>6 DEF Crash, IdleHandler
    <2> QED
        BY <2>1, <2>2 DEF Holds
<1> QED
    BY <1>1, <1>2, <1>3, <1>4, <1>5, <1>6 DEF Next

\* A withdrawal made while no handler holds the user is final until the user
\* asks again.
THEOREM WithdrawnStayOut == Spec => []WithdrawalSticks
<1>1. Init => WithdrawalSticks
    BY DEF Init, WithdrawalSticks
<1>2. Init => TypeOK /\ LoopInv /\ WithdrawalSticks
    BY <1>1, InitTypeOK, LoopInit
<1>3. TypeOK /\ LoopInv /\ WithdrawalSticks /\ [Next]_vars
        => (TypeOK /\ LoopInv /\ WithdrawalSticks)'
    BY TypeStep, LoopStep, OutStep
<1> QED
    BY <1>2, <1>3, PTL DEF Spec

-----------------------------------------------------------------------------
(* One match for one request                                               *)

\* The handler still has to put u into a match or back, in whatever queue.
Pending(r, u) ==
    \/ InSeq(u, r.matched)
    \/ /\ r.pc \in {"pair", "leftover"}
       /\ \E k \in 1 .. Len(r.cands) : k >= r.i /\ r.cands[k].member = u

\* Where the requests of u are: in matches, in queues and in handlers.
Places(u) ==
    ({0} \X MatchesOf(u)) \union ({1} \X {g \in GameTypes : queue[g][u] # NoScore})
    \union ({2} \X {h \in Handlers : Pending(handler[h], u)})

AtMost(u) == IsFiniteSet(Places(u)) /\ Cardinality(Places(u)) <= requests[u]

\* A handler popped each user once, and matches users it popped.
Batch(r) ==
    /\ \A k, l \in 1 .. Len(r.cands) : r.cands[k].member = r.cands[l].member => k = l
    /\ \A j \in 1 .. Len(r.matched) :
          \E k \in 1 .. Len(r.cands) : r.cands[k].member = r.matched[j]

\* Before the first gap the users matched are the candidates looked at, in order:
\* the second loop starts where the first one stopped.
Straight(r) ==
    /\ r.pc = "pair" => Len(r.matched) = r.i - 1
    /\ r.pc = "leftover" => Len(r.matched) < r.i
    /\ r.pc \in {"pair", "leftover"} =>
          \A j \in 1 .. Len(r.matched) : j <= Len(r.cands) /\ r.matched[j] = r.cands[j].member

HasBatch(h) ==
    /\ Batch(handler[h])
    /\ (\E u \in Users \ stretched : Holds(h, u)) => Straight(handler[h])

BInv ==
    /\ TypeOK /\ LoopInv
    /\ \A h \in Handlers : HasBatch(h)
    /\ \A u \in Users \ stretched : AtMost(u)

LEMMA MovesOne ==
    ASSUME NEW P, IsFiniteSet(P), NEW Q, NEW x \in P, NEW y, Q \subseteq (P \ {x}) \union {y}
    PROVE  IsFiniteSet(Q) /\ Cardinality(Q) <= Cardinality(P)
<1>1. /\ IsFiniteSet(P \ {x}) /\ Cardinality(P \ {x}) = Cardinality(P) - 1
      /\ Cardinality(P) \in Nat
    BY FS_RemoveElement, FS_CardinalityType
<1>2. /\ IsFiniteSet((P \ {x}) \union {y})
      /\ Cardinality((P \ {x}) \union {y}) <= Cardinality(P)
    <2>1. PICK R : R = P \ {x} /\ IsFiniteSet(R) /\ Cardinality(R) = Cardinality(P) - 1
        BY <1>1
    <2>2. IsFiniteSet(R \union {y})
          /\ Cardinality(R \union {y}) = IF y \in R THEN Cardinality(R) ELSE Cardinality(R) + 1
        BY <2>1, FS_AddElement
    <2>3. Cardinality(R \union {y}) <= Cardinality(P)
        BY <1>1, <2>1, <2>2
    <2> QED
        BY <2>1, <2>2, <2>3
<1>3. IsFiniteSet(Q) /\ Cardinality(Q) <= Cardinality((P \ {x}) \union {y})
    BY <1>2, FS_Subset
<1>4. Cardinality(Q) \in Nat /\ Cardinality((P \ {x}) \union {y}) \in Nat
    BY <1>2, <1>3, FS_CardinalityType
<1> QED
    BY <1>1, <1>2, <1>3, <1>4

LEMMA AddsOne ==
    ASSUME NEW P, IsFiniteSet(P), NEW Q, NEW y, Q \subseteq P \union {y}
    PROVE  IsFiniteSet(Q) /\ Cardinality(Q) <= Cardinality(P) + 1
<1>1. /\ IsFiniteSet(P \union {y}) /\ Cardinality(P \union {y}) <= Cardinality(P) + 1
      /\ Cardinality(P) \in Nat
    <2>1. IsFiniteSet(P \union {y})
          /\ Cardinality(P \union {y}) = IF y \in P THEN Cardinality(P) ELSE Cardinality(P) + 1
        BY FS_AddElement
    <2>2. Cardinality(P) \in Nat
        BY FS_CardinalityType
    <2> QED
        BY <2>1, <2>2
<1>2. IsFiniteSet(Q) /\ Cardinality(Q) <= Cardinality(P \union {y})
    BY <1>1, FS_Subset
<1>3. Cardinality(Q) \in Nat /\ Cardinality(P \union {y}) \in Nat
    BY <1>1, <1>2, FS_CardinalityType
<1> QED
    BY <1>1, <1>2, <1>3

\* A step without a request moves what is asked to one other place at most.
Moves(u) ==
    \/ Places(u)' \subseteq Places(u)
    \/ \E x \in Places(u), y \in (0 .. 2) \X (Nat \union GameTypes \union Handlers) :
          Places(u)' \subseteq (Places(u) \ {x}) \union {y}

LEMMA MovesKeep ==
    ASSUME TypeOK, NEW u \in Users, AtMost(u), requests'[u] = requests[u], Moves(u)
    PROVE  AtMost(u)'
<1>1. PICK P : P = Places(u) /\ IsFiniteSet(P) /\ Cardinality(P) <= requests[u]
    BY DEF AtMost
<1>2. PICK Q : Q = Places(u)'
    OBVIOUS
<1>3. IsFiniteSet(Q) /\ Cardinality(Q) <= Cardinality(P)
    <2>1. CASE Q \subseteq P
        BY <1>1, <2>1, FS_Subset
    <2>2. CASE \E x \in P, y \in (0 .. 2) \X (Nat \union GameTypes \union Handlers) :
                  Q \subseteq (P \ {x}) \union {y}
        BY <1>1, <2>2, MovesOne
    <2> QED
        BY <1>1, <1>2, <2>1, <2>2 DEF Moves
<1>4. Cardinality(P) \in Nat /\ Cardinality(Q) \in Nat /\ requests[u] \in Nat
    BY <1>1, <1>3, FS_CardinalityType DEF TypeOK
<1> QED
    BY <1>1, <1>2, <1>3, <1>4 DEF AtMost

LEMMA FewerPlaces ==
    ASSUME NEW u, MatchesOf(u)' \subseteq MatchesOf(u),
           \A g \in GameTypes : queue'[g][u] # NoScore => queue[g][u] # NoScore,
           \A h \in Handlers : Pending(handler'[h], u) => Pending(handler[h], u)
    PROVE  Moves(u)
<1>1. MatchesOf(u)' \subseteq MatchesOf(u)
    OBVIOUS
<1>2. {g \in GameTypes : queue'[g][u] # NoScore} \subseteq {g \in GameTypes : queue[g][u] # NoScore}
    OBVIOUS
<1>3. {h \in Handlers : Pending(handler[h], u)'} \subseteq {h \in Handlers : Pending(handler[h], u)}
    BY DEF Pending, InSeq
<1>4. Places(u)' \subseteq Places(u)
    BY <1>1, <1>2, <1>3 DEF Places
<1> QED
    BY <1>4 DEF Moves

\* The slots and the users a handler's step leaves alone.
LEMMA OthersHave ==
    ASSUME NEW k \in Handlers, HasBatch(k), handler'[k] = handler[k], stretched \subseteq stretched'
    PROVE  HasBatch(k)'
BY DEF HasBatch, Holds, Batch, Straight

LEMMA IdleHas ==
    ASSUME NEW h \in Handlers, handler'[h].cands = <<>>, handler'[h].matched = <<>>
    PROVE  HasBatch(h)' /\ \A u : ~Pending(handler'[h], u)
BY DEF HasBatch, Batch, Holds, Pending, InSeq

\* A handler's step with the queues and matches as they were.
LEMMA HandlerMoves ==
    ASSUME BInv, NEW h \in Handlers, UNCHANGED <<queue, matches, requests>>,
           \A k \in Handlers \ {h} : handler'[k] = handler[k],
           stretched \subseteq stretched',
           HasBatch(h)',
           \A u \in Users \ stretched' : Pending(handler'[h], u) => Pending(handler[h], u)
    PROVE  /\ \A k \in Handlers : HasBatch(k)'
           /\ \A u \in Users \ stretched' : AtMost(u)'
<1>1. \A k \in Handlers : HasBatch(k)'
    BY OthersHave DEF BInv
<1>2. ASSUME NEW u \in Users, u \notin stretched' PROVE AtMost(u)'
    <2>1. \A k \in Handlers : Pending(handler'[k], u) => Pending(handler[k], u)
        BY <1>2
    <2>2. MatchesOf(u)' \subseteq MatchesOf(u)
        BY DEF MatchesOf, InSeq
    <2>3. Moves(u)
        BY <2>1, <2>2, FewerPlaces
    <2> QED
        BY <1>2, <2>3, MovesKeep DEF BInv
<1> QED
    BY <1>1, <1>2

BStep == /\ \A k \in Handlers : HasBatch(k)'
         /\ \A u \in Users \ stretched' : AtMost(u)'

LEMMA IdleStepPlaces ==
    ASSUME BInv, NEW h \in Handlers, TooFew(h) \/ Enough(h) \/ SaveFails(h)
    PROVE  BStep
<1>0. handler \in [Handlers -> HandlerState] /\ handler[h] \in HandlerState
    BY DEF BInv, TypeOK
<1>1. /\ UNCHANGED <<queue, matches, requests, stretched>>
      /\ \A k \in Handlers \ {h} : handler'[k] = handler[k]
    BY <1>0 DEF TooFew, Enough, SaveFails, history
<1>2. handler'[h].cands = <<>> /\ handler'[h].matched = <<>>
    <2>1. CASE TooFew(h) \/ SaveFails(h)
        BY <1>0, <2>1 DEF TooFew, SaveFails, IdleHandler
    <2>2. CASE Enough(h)
        BY <1>0, <2>2 DEF Enough, HandlerState, BInv, LoopInv
    <2> QED
        BY <2>1, <2>2
<1>3. HasBatch(h)' /\ \A u : ~Pending(handler'[h], u)
    BY <1>2, IdleHas
<1> QED
    BY <1>1, <1>3, HandlerMoves DEF BStep

LEMMA PairPlaces == ASSUME BInv, NEW h \in Handlers, Pair(h) PROVE BStep
<1> DEFINE me == handler[h]
           a == me.cands[me.i].member
           b == me.cands[me.i + 1].member
<1>0. /\ handler \in [Handlers -> HandlerState] /\ me \in HandlerState
      /\ me.cands \in Seq(Entry) /\ me.matched \in Seq(Users)
      /\ me.i \in Nat \ {0} /\ Len(me.cands) \in Nat /\ Len(me.matched) \in Nat
    BY DEF BInv, TypeOK, HandlerState
<1>1. /\ UNCHANGED <<queue, matches, requests, stretched>>
      /\ \A k \in Handlers \ {h} : handler'[k] = handler[k]
    BY <1>0 DEF Pair, history
<1>2. me.i \in 1 .. Len(me.cands) /\ me.i + 1 \in 1 .. Len(me.cands) /\ me.pc = "pair"
    BY <1>0 DEF Pair, InPairLoop
<1>3. a \in Users /\ b \in Users
    <2>1. me.cands[me.i] \in Entry /\ me.cands[me.i + 1] \in Entry
        BY <1>0, <1>2
    <2> QED
        BY <2>1 DEF Entry
<1> DEFINE m == me.matched \o <<a, b>>
<1>4. /\ handler'[h].matched = m /\ handler'[h].i = me.i + 2
      /\ handler'[h].pc = "pair" /\ handler'[h].cands = me.cands
    BY <1>0, <1>2 DEF Pair, HandlerState
<1>5. /\ Len(m) = Len(me.matched) + 2
      /\ \A k \in 1 .. Len(me.matched) : m[k] = me.matched[k]
      /\ m[Len(me.matched) + 1] = a /\ m[Len(me.matched) + 2] = b
    BY <1>0, <1>3
<1> HIDE DEF m
<1>6. \A j \in 1 .. Len(m) : \/ j \in 1 .. Len(me.matched) /\ m[j] = me.matched[j]
                             \/ j = Len(me.matched) + 1 /\ m[j] = a
                             \/ j = Len(me.matched) + 2 /\ m[j] = b
    BY SMTT(30), <1>0, <1>5
<1>7. Batch(handler'[h])
    <2>1. Batch(me)
        BY DEF BInv, HasBatch
    <2>2. \A j \in 1 .. Len(m) : \E k \in 1 .. Len(me.cands) : me.cands[k].member = m[j]
        BY <1>2, <1>6, <2>1 DEF Batch
    <2> QED
        BY <1>4, <2>1, <2>2 DEF Batch
<1>8. ASSUME Straight(me) PROVE Straight(handler'[h])
    <2>1. Len(me.matched) = me.i - 1
        BY <1>2, <1>8 DEF Straight
    <2>2. ASSUME NEW j \in 1 .. Len(m) PROVE j <= Len(me.cands) /\ m[j] = me.cands[j].member
        <3>1. CASE j \in 1 .. Len(me.matched) /\ m[j] = me.matched[j]
            BY <1>2, <1>8, <3>1 DEF Straight
        <3>2. CASE j = Len(me.matched) + 1 /\ m[j] = a
            <4>1. j = me.i
                BY <1>0, <2>1, <3>2
            <4> QED
                BY <1>2, <3>2, <4>1
        <3>3. CASE j = Len(me.matched) + 2 /\ m[j] = b
            <4>1. j = me.i + 1
                BY <1>0, <2>1, <3>3
            <4> QED
                BY <1>2, <3>3, <4>1
        <3> QED
            BY <1>6, <3>1, <3>2, <3>3
    <2>3. Len(m) = (me.i + 2) - 1
        BY <1>0, <1>5, <2>1
    <2> QED
        BY <1>4, <2>2, <2>3 DEF Straight
<1>9. HasBatch(h)'
    <2>1. \A u : Holds(h, u)' <=> Holds(h, u)
        BY <1>4 DEF Holds
    <2>2. Batch(handler[h])' /\ (Straight(me) => Straight(handler[h])')
        BY <1>7, <1>8 DEF Batch, Straight
    <2> QED
        BY <1>1, <2>1, <2>2 DEF BInv, HasBatch
<1>10. ASSUME NEW u \in Users, Pending(handler'[h], u) PROVE Pending(me, u)
    <2>1. CASE InSeq(u, m)
        <3>1. PICK j \in 1 .. Len(m) : m[j] = u
            BY <2>1 DEF InSeq
        <3>2. CASE j \in 1 .. Len(me.matched) /\ m[j] = me.matched[j]
            BY <3>1, <3>2 DEF Pending, InSeq
        <3>3. CASE u = a \/ u = b
            <4>1. PICK k \in 1 .. Len(me.cands) : k >= me.i /\ me.cands[k].member = u
                BY <1>0, <1>2, <3>3
            <4> QED
                BY <1>2, <4>1 DEF Pending
        <3> QED
            BY <1>6, <3>1, <3>2, <3>3
    <2>2. CASE \E k \in 1 .. Len(me.cands) : k >= me.i + 2 /\ me.cands[k].member = u
        <3>1. PICK k \in 1 .. Len(me.cands) : k >= me.i + 2 /\ me.cands[k].member = u
            BY <2>2
        <3>2. k >= me.i
            BY <1>0, <3>1
        <3> QED
            BY <1>2, <3>1, <3>2 DEF Pending
    <2> QED
        BY <1>4, <1>10, <2>1, <2>2 DEF Pending
<1> QED
    BY <1>1, <1>9, <1>10, HandlerMoves DEF BStep

\* The loops are left: without a gap, the index is where it was.
LEMMA DonePlaces ==
    ASSUME BInv, NEW h \in Handlers, PairDone(h) \/ LeftoverDone(h) PROVE BStep
<1> DEFINE me == handler[h]
<1>0. /\ handler \in [Handlers -> HandlerState] /\ me \in HandlerState
      /\ me.cands \in Seq(Entry) /\ me.matched \in Seq(Users)
      /\ me.i \in Nat \ {0} /\ Len(me.cands) \in Nat /\ Len(me.matched) \in Nat
    BY DEF BInv, TypeOK, HandlerState
<1>1. /\ UNCHANGED <<queue, matches, requests, stretched>>
      /\ \A k \in Handlers \ {h} : handler'[k] = handler[k]
    BY <1>0 DEF PairDone, LeftoverDone, history
<1>2. CASE PairDone(h)
    <2>1. /\ handler'[h].matched = me.matched /\ handler'[h].i = Len(me.matched) + 1
          /\ handler'[h].pc = "leftover" /\ handler'[h].cands = me.cands /\ me.pc = "pair"
        BY <1>0, <1>2 DEF PairDone, HandlerState
    <2>2. \A u : Holds(h, u)' <=> Holds(h, u)
        BY <2>1 DEF Holds
    <2>3. Straight(me) => Straight(handler[h])'
        BY <1>0, <2>1 DEF Straight
    <2>4. HasBatch(h)'
        BY <1>1, <2>1, <2>2, <2>3 DEF BInv, HasBatch, Batch
    <2>5. ASSUME NEW u \in Users \ stretched, Pending(handler'[h], u) PROVE Pending(me, u)
        <3>1. CASE InSeq(u, me.matched)
            BY <3>1 DEF Pending
        <3>2. CASE \E k \in 1 .. Len(me.cands) : k >= Len(me.matched) + 1 /\ me.cands[k].member = u
            <4>1. Straight(me)
                BY <3>2 DEF BInv, HasBatch, Holds
            <4>2. Len(me.matched) + 1 = me.i
                BY <1>0, <2>1, <4>1 DEF Straight
            <4> QED
                BY <2>1, <3>2, <4>2 DEF Pending
        <3> QED
            BY <2>1, <2>5, <3>1, <3>2 DEF Pending
    <2> QED
        BY <1>1, <2>4, <2>5, HandlerMoves DEF BStep
<1>3. CASE LeftoverDone(h) /\ Len(me.matched) >= 2
    <2>1. /\ handler'[h].matched = me.matched /\ handler'[h].pc = "save"
          /\ handler'[h].cands = me.cands
        BY <1>0, <1>3 DEF LeftoverDone, HandlerState
    <2>2. HasBatch(h)'
        BY <2>1 DEF BInv, HasBatch, Batch, Straight
    <2>3. \A u \in Users : Pending(handler'[h], u) => Pending(me, u)
        BY <2>1 DEF Pending
    <2> QED
        BY <1>1, <2>2, <2>3, HandlerMoves DEF BStep
<1>4. CASE LeftoverDone(h) /\ ~(Len(me.matched) >= 2)
    <2>1. handler'[h].cands = <<>> /\ handler'[h].matched = <<>>
        BY <1>0, <1>4 DEF LeftoverDone, IdleHandler
    <2>2. HasBatch(h)' /\ \A u : ~Pending(handler'[h], u)
        BY <2>1, IdleHas
    <2> QED
        BY <1>1, <2>2, HandlerMoves DEF BStep
<1> QED
    BY <1>2, <1>3, <1>4
\* A gap: everybody in the batch is remembered, and the others are elsewhere.
LEMMA GapPlaces == ASSUME BInv, NEW h \in Handlers, PairGap(h) PROVE BStep
<1> DEFINE me == handler[h]
<1>0. /\ handler \in [Handlers -> HandlerState] /\ me \in HandlerState
      /\ me.cands \in Seq(Entry) /\ me.matched \in Seq(Users)
      /\ me.i \in Nat \ {0} /\ Len(me.cands) \in Nat /\ Len(me.matched) \in Nat
    BY DEF BInv, TypeOK, HandlerState
<1>1. /\ UNCHANGED <<matches, requests>> /\ \A k \in Handlers \ {h} : handler'[k] = handler[k]
      /\ stretched' = stretched \union {u \in Users : Holds(h, u)}
      /\ queue' = ZAdd(me.game, me.cands[me.i]) /\ me.i \in 1 .. Len(me.cands)
      /\ me.game \in GameTypes
    BY <1>0 DEF PairGap, InPairLoop, BInv, TypeOK
<1>2. /\ handler'[h].matched = me.matched /\ handler'[h].cands = me.cands
    BY <1>0 DEF PairGap, HandlerState
<1>3. \A u : Holds(h, u)' <=> Holds(h, u)
    BY <1>2 DEF Holds
<1>4. HasBatch(h)'
    BY <1>1, <1>2, <1>3 DEF BInv, HasBatch, Batch
<1>5. \A k \in Handlers : HasBatch(k)'
    BY <1>1, <1>4, OthersHave DEF BInv
<1>6. ASSUME NEW u \in Users, u \notin stretched' PROVE AtMost(u)'
    <2>1. u \notin stretched /\ ~Holds(h, u)
        BY <1>1, <1>6
    <2>2. me.cands[me.i].member # u /\ me.cands[me.i] \in Entry
        BY <1>0, <1>1, <2>1 DEF Holds
    <2>3. \A g \in GameTypes : queue'[g][u] = queue[g][u]
        BY <1>1, <2>2 DEF ZAdd, BInv, TypeOK, Entry
    <2>4. ~Pending(handler'[h], u)
        BY <1>2, <2>1 DEF Pending, Holds, InSeq, BInv, HasBatch, Batch
    <2>5. MatchesOf(u)' \subseteq MatchesOf(u)
        BY <1>1 DEF MatchesOf, InSeq
    <2>6. Moves(u)
        BY <1>1, <2>3, <2>4, <2>5, FewerPlaces
    <2> QED
        BY <1>1, <2>1, <2>6, MovesKeep DEF BInv
<1> QED
    BY <1>5, <1>6 DEF BStep

\* A user put back had not been matched: the second loop began behind them.
LEMMA LeftoverPlaces == ASSUME BInv, NEW h \in Handlers, Leftover(h) PROVE BStep
<1> DEFINE me == handler[h]
<1>0. /\ handler \in [Handlers -> HandlerState] /\ me \in HandlerState
      /\ me.cands \in Seq(Entry) /\ me.matched \in Seq(Users)
      /\ me.i \in Nat \ {0} /\ Len(me.cands) \in Nat /\ Len(me.matched) \in Nat
    BY DEF BInv, TypeOK, HandlerState
<1>1. /\ UNCHANGED <<matches, requests, stretched>>
      /\ \A k \in Handlers \ {h} : handler'[k] = handler[k]
      /\ queue' = ZAdd(me.game, me.cands[me.i]) /\ me.i \in 1 .. Len(me.cands)
      /\ me.game \in GameTypes /\ me.pc = "leftover"
    BY <1>0 DEF Leftover, history, BInv, TypeOK
<1>2. /\ handler'[h].matched = me.matched /\ handler'[h].cands = me.cands
      /\ handler'[h].i = me.i + 1 /\ handler'[h].pc = "leftover"
    BY <1>0, <1>1 DEF Leftover, HandlerState
<1>3. \A u : Holds(h, u)' <=> Holds(h, u)
    BY <1>2 DEF Holds
<1>4. Straight(me) => Straight(handler[h])'
    BY <1>0, <1>1, <1>2 DEF Straight
<1>5. HasBatch(h)'
    BY <1>1, <1>2, <1>3, <1>4 DEF BInv, HasBatch, Batch
<1>6. \A k \in Handlers : HasBatch(k)'
    BY <1>1, <1>5, OthersHave DEF BInv
<1>7. me.cands[me.i] \in Entry /\ me.cands[me.i].member \in Users
    <2>1. me.cands[me.i] \in Entry
        BY <1>0, <1>1
    <2> QED
        BY <2>1 DEF Entry
<1>8. ASSUME NEW u \in Users, u \notin stretched' PROVE Moves(u)
    <2>1. MatchesOf(u)' = MatchesOf(u)
        BY <1>1 DEF MatchesOf, InSeq
    <2>2. Pending(handler'[h], u) => Pending(me, u)
        <3>1. \A k \in 1 .. Len(me.cands) : k >= me.i + 1 => k >= me.i
            BY <1>0
        <3> QED
            BY <1>1, <1>2, <3>1 DEF Pending
    <2>3. CASE me.cands[me.i].member # u
        <3>1. \A g \in GameTypes : queue'[g][u] = queue[g][u]
            BY <1>1, <1>7, <2>3 DEF ZAdd, BInv, TypeOK
        <3> QED
            BY <1>1, <2>1, <2>2, <3>1, FewerPlaces
    <2>4. CASE me.cands[me.i].member = u
        <3>1. Straight(me) /\ Batch(me)
            BY <1>1, <1>8, <2>4 DEF BInv, HasBatch, Holds
        <3>2. ~InSeq(u, me.matched)
            <4> SUFFICES ASSUME NEW j \in 1 .. Len(me.matched), me.matched[j] = u PROVE FALSE
                BY DEF InSeq
            <4>1. j <= Len(me.cands) /\ me.cands[j].member = u
                BY <1>1, <3>1 DEF Straight
            <4>2. j \in 1 .. Len(me.cands)
                BY <1>0, <4>1
            <4>3. j = me.i
                BY <1>1, <2>4, <3>1, <4>1, <4>2 DEF Batch
            <4> QED
                BY <1>0, <1>1, <3>1, <4>3 DEF Straight
        <3>3. ASSUME NEW k \in 1 .. Len(me.cands), k >= me.i + 1, me.cands[k].member = u PROVE FALSE
            <4>1. k = me.i
                BY <1>1, <2>4, <3>1, <3>3 DEF Batch
            <4> QED
                BY <1>0, <3>3, <4>1
        <3>4. ~Pending(handler'[h], u)
            BY <1>2, <3>2, <3>3 DEF Pending
        <3>5. \A g \in GameTypes : g # me.game => queue'[g][u] = queue[g][u]
            BY <1>1, <1>7 DEF ZAdd, BInv, TypeOK
        <3>6. Pending(me, u)
            BY <1>0, <1>1, <2>4 DEF Pending
        <3>7. <<2, h>> \in Places(u)
            BY <3>6 DEF Places
        <3>8. Places(u)' \subseteq (Places(u) \ {<<2, h>>}) \union {<<1, me.game>>}
            <4>1. {k \in Handlers : Pending(handler[k], u)'}
                    \subseteq {k \in Handlers : Pending(handler[k], u)} \ {h}
                BY <1>1, <3>4 DEF Pending, InSeq
            <4>2. {g \in GameTypes : queue'[g][u] # NoScore}
                    \subseteq {g \in GameTypes : queue[g][u] # NoScore} \union {me.game}
                BY <3>5
            <4> QED
                BY <2>1, <4>1, <4>2 DEF Places
        <3>9. <<1, me.game>> \in (0 .. 2) \X (Nat \union GameTypes \union Handlers)
            BY <1>1
        <3> QED
            BY <3>7, <3>8, <3>9 DEF Moves
    <2> QED
        BY <2>3, <2>4
<1> QED
    BY <1>1, <1>6, <1>8, MovesKeep DEF BInv, BStep

\* Redis pops each user once, out of the queue.
LEMMA PopPlaces == ASSUME BInv, NEW h \in Handlers, Pop(h) PROVE BStep
<1> DEFINE me == handler[h]
<1>0. /\ handler \in [Handlers -> HandlerState] /\ me \in HandlerState
      /\ me.pc = "pop" /\ me.game \in GameTypes /\ me.cands = <<>> /\ me.matched = <<>>
    BY DEF BInv, TypeOK, HandlerState, Pop, LoopInv
<1>1. PICK reply \in ZPopMinReplies(me.game) :
        /\ queue' = [queue EXCEPT ![me.game] =
                [v \in Users |-> IF \E k \in DOMAIN reply : reply[k].member = v
                                 THEN NoScore ELSE @[v]]]
        /\ handler' = [handler EXCEPT
                ![h].pc = IF Len(reply) < 2 THEN "leftover" ELSE "pair",
                ![h].cands = reply,
                ![h].i = 1]
    BY DEF Pop
<1>2. /\ reply \in Seq(Entry) /\ \A k \in 1 .. Len(reply) : reply[k].member \in Queued(me.game)
    BY <1>0, ReplyType, ReplyQueued DEF BInv
<1>3. \A k, l \in 1 .. Len(reply) : k < l => reply[k].member # reply[l].member
    <2>1. Cardinality(Queued(me.game)) \in Nat
        BY ConstantsAssumption, FS_Subset, FS_CardinalityType DEF Queued
    <2> DEFINE n == IF Cardinality(Queued(me.game)) < PopCount THEN Cardinality(Queued(me.game))
                                                                ELSE PopCount
    <2>2. n \in Nat
        BY <2>1, ConstantsAssumption
    <2>3. /\ reply \in [1 .. n -> [member : Queued(me.game), score : Scores]]
          /\ \A k, l \in 1 .. n : k < l => reply[k].member # reply[l].member
        BY DEF ZPopMinReplies
    <2>4. Len(reply) = n
        BY <2>2, <2>3
    <2> QED
        BY <2>3, <2>4
<1>4. /\ UNCHANGED <<matches, requests, stretched>>
      /\ \A k \in Handlers \ {h} : handler'[k] = handler[k]
    BY <1>0 DEF Pop, history
<1>5. /\ handler'[h].cands = reply /\ handler'[h].matched = <<>> /\ handler'[h].i = 1
      /\ handler'[h].pc \in {"pair", "leftover"}
    BY <1>0, <1>1 DEF HandlerState
<1>6. HasBatch(h)'
    <2>1. \A k, l \in 1 .. Len(reply) : reply[k].member = reply[l].member => k = l
        BY <1>2, <1>3
    <2>2. Batch(handler[h])'
        BY <1>5, <2>1 DEF Batch
    <2>3. Straight(handler[h])'
        BY <1>5 DEF Straight
    <2> QED
        BY <2>2, <2>3 DEF HasBatch
<1>7. \A k \in Handlers : HasBatch(k)'
    BY <1>4, <1>6, OthersHave DEF BInv
<1>8. ASSUME NEW u \in Users, u \notin stretched' PROVE Moves(u)
    <2>1. MatchesOf(u)' = MatchesOf(u)
        BY <1>4 DEF MatchesOf, InSeq
    <2>2. \A g \in GameTypes : queue'[g][u] # NoScore => queue[g][u] # NoScore
        BY <1>0, <1>1 DEF BInv, TypeOK
    <2>3. CASE \A k \in 1 .. Len(reply) : reply[k].member # u
        <3>1. ~Pending(handler'[h], u)
            BY <1>5, <2>3 DEF Pending, InSeq
        <3> QED
            BY <1>4, <2>1, <2>2, <3>1, FewerPlaces
    <2>4. CASE \E k \in 1 .. Len(reply) : reply[k].member = u
        <3>1. queue[me.game][u] # NoScore /\ queue'[me.game][u] = NoScore
            <4>1. \E k \in DOMAIN reply : reply[k].member = u
                BY <1>2, <2>4
            <4>2. u \in Queued(me.game)
                BY <1>2, <2>4
            <4> QED
                BY <1>0, <1>1, <4>1, <4>2 DEF BInv, TypeOK, Queued
        <3>2. <<1, me.game>> \in Places(u)
            BY <1>0, <3>1 DEF Places
        <3>3. Places(u)' \subseteq (Places(u) \ {<<1, me.game>>}) \union {<<2, h>>}
            <4>1. {k \in Handlers : Pending(handler[k], u)'}
                    \subseteq {k \in Handlers : Pending(handler[k], u)} \union {h}
                BY <1>4 DEF Pending, InSeq
            <4>2. {g \in GameTypes : queue'[g][u] # NoScore}
                    \subseteq {g \in GameTypes : queue[g][u] # NoScore} \ {me.game}
                BY <2>2, <3>1
            <4> QED
                BY <2>1, <4>1, <4>2 DEF Places
        <3>4. <<2, h>> \in (0 .. 2) \X (Nat \union GameTypes \union Handlers)
            OBVIOUS
        <3> QED
            BY <3>2, <3>3, <3>4 DEF Moves
    <2> QED
        BY <2>3, <2>4
<1> QED
    BY <1>4, <1>7, <1>8, MovesKeep DEF BInv, BStep

\* A match takes its users out of the handler.
LEMMA SavePlaces == ASSUME BInv, NEW h \in Handlers, Save(h) PROVE BStep
<1> DEFINE me == handler[h]
<1>0. /\ handler \in [Handlers -> HandlerState] /\ me \in HandlerState /\ me.pc = "save"
      /\ handler' = [handler EXCEPT ![h] = IdleHandler]
      /\ UNCHANGED <<queue, requests, stretched>>
    BY DEF BInv, TypeOK, Save
<1>1. \A k \in Handlers \ {h} : handler'[k] = handler[k]
    BY <1>0
<1>2. handler'[h].cands = <<>> /\ handler'[h].matched = <<>>
    BY <1>0 DEF IdleHandler
<1>3. HasBatch(h)' /\ \A u : ~Pending(handler'[h], u)
    BY <1>2, IdleHas
<1>4. \A k \in Handlers : HasBatch(k)'
    BY <1>0, <1>1, <1>3, OthersHave DEF BInv
<1>5. PICK n \in Nat : n = Len(matches)
    BY DEF BInv, TypeOK
<1>6. /\ Len(matches') = n + 1 /\ matches'[n + 1].users = me.matched
      /\ \A k \in 1 .. n : matches'[k] = matches[k]
    BY <1>5 DEF BInv, TypeOK, Save
<1>7. ASSUME NEW u \in Users, u \notin stretched' PROVE Moves(u)
    <2>1. ASSUME NEW k \in MatchesOf(u)'
          PROVE  k \in MatchesOf(u) \/ (k = n + 1 /\ InSeq(u, me.matched))
        <3>1. k \in 1 .. n + 1 /\ InSeq(u, matches'[k].users)
            BY <1>6, <2>1 DEF MatchesOf, InSeq
        <3>2. k \in 1 .. n \/ k = n + 1
            BY <1>5, <3>1
        <3>3. CASE k \in 1 .. n
            BY <1>5, <1>6, <3>1, <3>3 DEF MatchesOf
        <3>4. CASE k = n + 1
            BY <1>6, <3>1, <3>4
        <3> QED
            BY <3>2, <3>3, <3>4
    <2>2. CASE ~InSeq(u, me.matched)
        <3>1. MatchesOf(u)' \subseteq MatchesOf(u)
            BY <2>1, <2>2
        <3> QED
            BY <1>0, <1>1, <1>3, <3>1, FewerPlaces
    <2>3. CASE InSeq(u, me.matched)
        <3>1. <<2, h>> \in Places(u)
            BY <2>3 DEF Places, Pending
        <3>2. Places(u)' \subseteq (Places(u) \ {<<2, h>>}) \union {<<0, n + 1>>}
            <4>1. {k \in Handlers : Pending(handler[k], u)'}
                    \subseteq {k \in Handlers : Pending(handler[k], u)} \ {h}
                BY <1>1, <1>3 DEF Pending, InSeq
            <4>2. MatchesOf(u)' \subseteq MatchesOf(u) \union {n + 1}
                BY <2>1
            <4> QED
                BY <1>0, <4>1, <4>2 DEF Places
        <3>3. <<0, n + 1>> \in (0 .. 2) \X (Nat \union GameTypes \union Handlers)
            BY <1>5
        <3> QED
            BY <3>1, <3>2, <3>3 DEF Moves
    <2> QED
        BY <2>2, <2>3
<1> QED
    BY <1>0, <1>4, <1>7, MovesKeep DEF BInv, BStep

\* A request is one more place in the queue.
LEMMA RequestPlaces ==
    ASSUME BInv, NEW h \in Handlers, NEW w \in Users, NEW g \in GameTypes, Request(h, w, g)
    PROVE  BStep
<1>0. /\ handler \in [Handlers -> HandlerState] /\ UNCHANGED <<matches, stretched>>
      /\ queue' = ZAdd(g, [member |-> w, score |-> now])
      /\ handler' = [handler EXCEPT ![h] = [IdleHandler EXCEPT !.pc = "count", !.game = g]]
      /\ requests' = [requests EXCEPT ![w] = @ + 1]
    BY DEF BInv, TypeOK, Request
<1>1. \A k \in Handlers \ {h} : handler'[k] = handler[k]
    BY <1>0
<1>2. handler'[h].cands = <<>> /\ handler'[h].matched = <<>>
    BY <1>0 DEF IdleHandler
<1>3. HasBatch(h)' /\ \A u : ~Pending(handler'[h], u)
    BY <1>2, IdleHas
<1>4. \A k \in Handlers : HasBatch(k)'
    BY <1>0, <1>1, <1>3, OthersHave DEF BInv
<1>5. \A u : MatchesOf(u)' = MatchesOf(u)
    BY <1>0 DEF MatchesOf, InSeq
<1>6. \A u \in Users, f \in GameTypes : u # w \/ f # g => queue'[f][u] = queue[f][u]
    BY <1>0 DEF ZAdd, BInv, TypeOK
<1>7. ASSUME NEW u \in Users, u \notin stretched', u # w PROVE AtMost(u)'
    <2>1. Moves(u)
        BY <1>1, <1>3, <1>5, <1>6, <1>7, FewerPlaces
    <2>2. requests'[u] = requests[u]
        BY <1>0, <1>7 DEF BInv, TypeOK
    <2> QED
        BY <1>0, <1>7, <2>1, <2>2, MovesKeep DEF BInv
<1>8. ASSUME w \notin stretched' PROVE AtMost(w)'
    <2>1. PICK P : P = Places(w) /\ IsFiniteSet(P) /\ Cardinality(P) <= requests[w]
        BY <1>0, <1>8 DEF BInv, AtMost
    <2>2. PICK Q : Q = Places(w)'
        OBVIOUS
    <2>3. Q \subseteq P \union {<<1, g>>}
        <3>1. {k \in Handlers : Pending(handler[k], w)'}
                \subseteq {k \in Handlers : Pending(handler[k], w)}
            BY <1>1, <1>3 DEF Pending, InSeq
        <3>2. {f \in GameTypes : queue'[f][w] # NoScore}
                \subseteq {f \in GameTypes : queue[f][w] # NoScore} \union {g}
            BY <1>6
        <3> QED
            BY <1>5, <2>1, <2>2, <3>1, <3>2 DEF Places
    <2>4. IsFiniteSet(Q) /\ Cardinality(Q) <= Cardinality(P) + 1
        BY <2>1, <2>3, AddsOne
    <2>5. /\ Cardinality(P) \in Nat /\ Cardinality(Q) \in Nat /\ requests[w] \in Nat
          /\ requests'[w] = requests[w] + 1
        BY <1>0, <2>1, <2>4, FS_CardinalityType DEF BInv, TypeOK
    <2> QED
        BY <2>1, <2>2, <2>4, <2>5 DEF AtMost
<1> QED
    BY <1>4, <1>7, <1>8 DEF BStep

\* Withdrawing, leaving, a crash and the clock take places away at most.
LEMMA OtherPlaces ==
    ASSUME BInv,
           \/ \E u \in Users, g \in GameTypes : Cancel(u, g)
           \/ \E u \in Users : Leave(u)
           \/ Crash \/ Tick \/ UNCHANGED vars
    PROVE  BStep
<1>0. handler \in [Handlers -> HandlerState] /\ UNCHANGED <<matches, requests, stretched>>
    BY DEF BInv, TypeOK, Cancel, Leave, Crash, Tick, vars, history
<1>1. \A u : MatchesOf(u)' = MatchesOf(u)
    BY <1>0 DEF MatchesOf, InSeq
<1>2. \A u \in Users, g \in GameTypes : queue'[g][u] # NoScore => queue[g][u] # NoScore
    <2>1. ASSUME NEW v \in Users, NEW f \in GameTypes, Cancel(v, f)
          PROVE  \A u \in Users, g \in GameTypes : queue'[g][u] # NoScore => queue[g][u] # NoScore
        BY <2>1 DEF Cancel, ZRem, BInv, TypeOK
    <2>2. ASSUME NEW v \in Users, Leave(v)
          PROVE  \A u \in Users, g \in GameTypes : queue'[g][u] # NoScore => queue[g][u] # NoScore
        BY <2>2 DEF Leave, BInv, TypeOK
    <2>3. Crash \/ Tick \/ UNCHANGED vars => queue' = queue
        BY DEF Crash, Tick, vars
    <2> QED
        BY <2>1, <2>2, <2>3
<1>3. \A k \in Handlers :
        handler'[k] = handler[k] \/ (handler'[k].cands = <<>> /\ handler'[k].matched = <<>>)
    BY DEF Cancel, Leave, Crash, Tick, vars, IdleHandler
<1>4. \A k \in Handlers : HasBatch(k)' /\ \A u : Pending(handler'[k], u) => Pending(handler[k], u)
    <2> SUFFICES ASSUME NEW k \in Handlers
                 PROVE  HasBatch(k)' /\ \A u : Pending(handler'[k], u) => Pending(handler[k], u)
        OBVIOUS
    <2>1. CASE handler'[k] = handler[k]
        BY <1>0, <2>1, OthersHave DEF BInv
    <2>2. CASE handler'[k].cands = <<>> /\ handler'[k].matched = <<>>
        BY <2>2, IdleHas
    <2> QED
        BY <1>3, <2>1, <2>2
<1>5. ASSUME NEW u \in Users, u \notin stretched' PROVE AtMost(u)'
    <2>1. Moves(u)
        BY <1>1, <1>2, <1>4, FewerPlaces
    <2> QED
        BY <1>0, <1>5, <2>1, MovesKeep DEF BInv
<1> QED
    BY <1>4, <1>5 DEF BStep

LEMMA PlacesStep == BInv /\ [Next]_vars => BInv'
<1> SUFFICES ASSUME BInv, [Next]_vars PROVE BInv'
    OBVIOUS
<1>1. TypeOK' /\ LoopInv'
    BY TypeStep, LoopStep DEF BInv
<1>2. ASSUME NEW h \in Handlers, HandlerStep(h) PROVE BStep
    BY <1>2, IdleStepPlaces, PairPlaces, DonePlaces, GapPlaces, LeftoverPlaces, PopPlaces, SavePlaces
       DEF HandlerStep, QueueStep
<1>3. BStep
    BY <1>2, RequestPlaces, OtherPlaces DEF Next
<1> QED
    BY <1>1, <1>3 DEF BInv, BStep

LEMMA PlacesInit == Init => BInv
<1> SUFFICES ASSUME Init PROVE BInv
    OBVIOUS
<1>1. TypeOK /\ LoopInv
    BY InitTypeOK, LoopInit
<1>2. \A h \in Handlers : HasBatch(h) /\ \A u : ~Pending(handler[h], u)
    BY DEF Init, IdleHandler, HasBatch, Batch, Holds, Pending, InSeq
<1>3. ASSUME NEW u \in Users PROVE AtMost(u)
    <2>1. MatchesOf(u) = {} /\ \A g \in GameTypes : queue[g][u] = NoScore
        BY DEF Init, MatchesOf
    <2>2. Places(u) = {}
        BY <1>2, <2>1 DEF Places
    <2> QED
        BY <2>2, FS_EmptySet DEF AtMost, Init
<1> QED
    BY <1>1, <1>2, <1>3 DEF BInv

LEMMA PlacesBound == ASSUME BInv PROVE OneMatchUnlessGap
<1> SUFFICES ASSUME NEW u \in Users \ stretched PROVE Cardinality(MatchesOf(u)) <= requests[u]
    BY DEF OneMatchUnlessGap
<1>1. PICK P : P = Places(u) /\ IsFiniteSet(P) /\ Cardinality(P) <= requests[u]
    BY DEF BInv, AtMost
<1>2. PICK S : S = {0} \X MatchesOf(u)
    OBVIOUS
<1>3. S \subseteq P
    BY <1>1, <1>2 DEF Places
<1>4. IsFiniteSet(S) /\ Cardinality(S) <= Cardinality(P)
    BY <1>1, <1>3, FS_Subset
<1>5. IsFiniteSet(MatchesOf(u))
    <2>1. Len(matches) \in Nat
        BY DEF BInv, TypeOK
    <2> QED
        <3>1. IsFiniteSet(1 .. Len(matches)) /\ MatchesOf(u) \in SUBSET (1 .. Len(matches))
            BY <2>1, FS_Interval DEF MatchesOf
        <3> QED
            BY <3>1, FS_Subset
<1>6. Cardinality(S) = Cardinality(MatchesOf(u))
    <2>1. IsFiniteSet({0}) /\ Cardinality({0}) = 1
        BY FS_Singleton
    <2>2. Cardinality({0} \X MatchesOf(u)) = Cardinality({0}) * Cardinality(MatchesOf(u))
        BY <1>5, <2>1, FS_Product
    <2>3. Cardinality(MatchesOf(u)) \in Nat
        BY <1>5, FS_CardinalityType
    <2> QED
        BY <1>2, <2>1, <2>2, <2>3
<1>7. /\ Cardinality(P) \in Nat /\ Cardinality(MatchesOf(u)) \in Nat
      /\ requests[u] \in Nat
    BY <1>1, <1>5, FS_CardinalityType DEF BInv, TypeOK
<1> QED
    BY <1>1, <1>4, <1>6, <1>7

\* A request leads to at most one match for every user who was never popped in
\* a batch with a gap: popping is atomic, and the two loops of findMatchingUsers
\* give each popped user one place to go, whatever handlers, withdrawals, failed
\* saves and crashes come in between.
THEOREM OneMatchForOneRequest == Spec => []OneMatchUnlessGap
<1>1. BInv => OneMatchUnlessGap
    BY PlacesBound
<1> QED
    BY <1>1, PlacesInit, PlacesStep, PTL DEF Spec

-----------------------------------------------------------------------------
(* The match gateway                                                       *)

JobType ==
    [pc : JobPhases, ids : SUBSET Sockets, at : Nat \ {0}, to : Sockets \union {NoSocket}]
MatchType == [game : GameTypes, users : Seq(Users)]
SocketType == [pc : SocketPhases, live : BOOLEAN, room : Nat]

\* A match has users, and so has one that is about to be saved.
Formed ==
    /\ \A h \in Handlers : handler[h].pc = "save" => handler[h].matched # <<>>
    /\ \A k \in 1 .. Len(matches) : matches[k].users # <<>>

\* A notification looks at one of the users of its match.
Ready(j, users) ==
    /\ j.pc \in {"read", "join", "keys", "tell", "emit"} => j.at \in 1 .. Len(users)
    /\ j.pc \in {"read", "join"} => j.at = 1
    /\ j.pc = "emit" => j.to \in Sockets

Notifying == \A k \in 1 .. Len(job) : Ready(job[k], MatchUsers(k))

GInv == TypeOK /\ LoopInv /\ Formed /\ GTypeOK /\ Notifying

-----------------------------------------------------------------------------
(* The queues beside the gateway                                           *)

\* A step of the gateway is one of the queues, or none of their business, but
\* for the count of faults.
LEMMA QueueSide ==
    ASSUME [GNext]_allVars
    PROVE  \/ [Next]_vars
           \/ /\ UNCHANGED <<now, queue, handler, matches, history>>
              /\ faults < MaxFaults /\ faults' = faults + 1
<1>1. CASE UNCHANGED allVars
    BY <1>1 DEF allVars
<1>2. CASE Tick
    BY <1>2 DEF Next
<1>3. ASSUME NEW s \in Sockets, Open(s) \/ DropEarly(s) \/ Drop(s) \/ SocketStep(s)
      PROVE  [Next]_vars
    <2>1. s[1] \in Users
        BY DEF Sockets
    <2>2. PICK u \in Users : u = s[1]
        BY <2>1
    <2>3. UNCHANGED vars \/ Leave(u)
        BY <1>3, <2>2 DEF Open, DropEarly, Drop, SocketStep, Arrive, SetKey, ReadRoom, EndRoom
    <2> QED
        BY <2>3 DEF Next
<1>4. ASSUME NEW h \in Handlers, NEW u \in Users, NEW g \in GameTypes, GRequest(h, u, g)
      PROVE  [Next]_vars
    BY <1>4 DEF GRequest, Next
<1>5. ASSUME NEW u \in Users, NEW g \in GameTypes, GCancel(u, g) PROVE [Next]_vars
    BY <1>5 DEF GCancel, Next
<1>6. ASSUME NEW h \in Handlers, GHandlerStep(h) PROVE [Next]_vars
    BY <1>6 DEF GHandlerStep, GSave, HandlerStep, Next
<1>7. ASSUME NEW k \in 1 .. Len(job), JobStep(k)
      PROVE  \/ UNCHANGED vars
             \/ /\ UNCHANGED <<now, queue, handler, matches, history>>
                /\ faults < MaxFaults /\ faults' = faults + 1
    BY <1>7 DEF JobStep, NotifyRead, NotifyJoin, NotifyKey, TellRead, TellEmit, TellFails
<1>8. CASE GCrash
    BY <1>8 DEF GCrash, Next
<1> QED
    BY <1>1, <1>2, <1>3, <1>4, <1>5, <1>6, <1>7, <1>8 DEF GNext

QueueInv == BInv /\ NoWaiterLost /\ WithdrawalSticks

LEMMA QueueInvStep == QueueInv /\ [GNext]_allVars => QueueInv'
<1> SUFFICES ASSUME QueueInv, [GNext]_allVars PROVE QueueInv'
    OBVIOUS
<1>1. CASE [Next]_vars
    BY <1>1, PlacesStep, KeptStep, OutStep DEF QueueInv, BInv
<1>2. CASE /\ UNCHANGED <<now, queue, handler, matches, history>>
           /\ faults < MaxFaults /\ faults' = faults + 1
    <2>1. TypeOK'
        BY <1>2, ConstantsAssumption DEF QueueInv, BInv, TypeOK, history
    <2>2. BInv'
        <3>1. LoopInv'
            BY <1>2 DEF QueueInv, BInv, LoopInv
        <3>2. ASSUME NEW h \in Handlers PROVE HasBatch(h)'
            BY <1>2 DEF QueueInv, BInv, history, HasBatch, Batch, Straight, Holds
        <3>3. ASSUME NEW u \in Users \ stretched' PROVE AtMost(u)'
            <4>1. Places(u)' = Places(u)
                BY <1>2 DEF Places, MatchesOf, Pending, InSeq
            <4>2. requests' = requests /\ stretched' = stretched
                BY <1>2 DEF history
            <4> QED
                BY <4>1, <4>2 DEF AtMost, QueueInv, BInv
        <3> QED
            BY <2>1, <3>1, <3>2, <3>3 DEF BInv
    <2>3. NoWaiterLost' /\ WithdrawalSticks'
        BY <1>2 DEF QueueInv, NoWaiterLost, WithdrawalSticks, history, Owes, Holds, InSeq
    <2> QED
        BY <2>1, <2>2, <2>3 DEF QueueInv
<1> QED
    BY <1>1, <1>2, QueueSide

LEMMA QueueInvInit == GInit => QueueInv
BY PlacesInit DEF GInit, Init, QueueInv, NoWaiterLost, WithdrawalSticks

LEMMA QueueInvHolds == GSpec => []QueueInv
BY QueueInvInit, QueueInvStep, PTL DEF GSpec

\* With sockets, notifications and their failures around it, matchmaking still
\* loses no waiter, takes no withdrawn user back, and makes one match of one
\* request unless a batch had a gap.
THEOREM QueueIsKept ==
    GSpec => [](TypeOK /\ NoWaiterLost /\ WithdrawalSticks /\ OneMatchUnlessGap)
<1>1. QueueInv => TypeOK /\ NoWaiterLost /\ WithdrawalSticks /\ OneMatchUnlessGap
    BY PlacesBound DEF QueueInv, BInv
<1> QED
    BY <1>1, QueueInvHolds, PTL

-----------------------------------------------------------------------------
(* Users whose sockets do not overlap                                      *)

InUse(s) == sock[s].pc \notin {"off", "gone", "lost"}

\* Such a user has one connection in hand at most, so that nobody else touches
\* the key it has written.
Alone ==
    /\ sock \in [Sockets -> SocketType]
    /\ DOMAIN socketKey = Users
    /\ \A s, t \in Sockets : s[1] = t[1] /\ s[1] \notin overlap /\ InUse(s) /\ InUse(t) => s = t
    /\ SocketReachable

LEMMA AloneInit == GInit => Alone
BY DEF GInit, Alone, SocketType, SocketPhases, NoRoomRead, NoRoom, InUse, Usable, SocketReachable

LEMMA AloneOpen == ASSUME Alone, NEW s \in Sockets, Open(s) PROVE Alone'
<1>1. /\ sock' = [sock EXCEPT ![s].pc = "arriving", ![s].live = TRUE]
      /\ UNCHANGED socketKey
      /\ overlap \subseteq overlap'
    BY DEF Open
<1>2. sock' \in [Sockets -> SocketType]
    BY <1>1 DEF Alone, SocketType, SocketPhases
<1>3. s[1] \in overlap' \/ \A t \in Sockets : t[1] = s[1] => ~InUse(t)
    <2>1. ASSUME NEW t \in Sockets, t[1] = s[1], InUse(t), s[1] \notin overlap' PROVE FALSE
        <3>1. t[2] \in Opened(s[1]) /\ t = <<s[1], t[2]>>
            BY <2>1 DEF Opened, InUse, Sockets
        <3>2. \A n \in Opened(s[1]) : sock[<<s[1], n>>].pc \in {"gone", "lost"}
            BY <2>1 DEF Open
        <3> QED
            BY <2>1, <3>1, <3>2 DEF InUse
    <2> QED
        BY <2>1
<1>4. \A t \in Sockets : t # s => sock'[t] = sock[t]
    BY <1>1 DEF Alone
<1>5. sock'[s].pc = "arriving"
    BY <1>1 DEF Alone, SocketType
<1>6. \A t, q \in Sockets : t[1] = q[1] /\ t[1] \notin overlap' /\ InUse(t)' /\ InUse(q)' => t = q
    BY <1>1, <1>3, <1>4 DEF Alone, InUse
<1>7. SocketReachable'
    BY <1>1, <1>4, <1>5 DEF Alone, SocketReachable, Usable
<1> QED
    BY <1>1, <1>2, <1>6, <1>7 DEF Alone

\* A socket in use goes on in its handlers.
LEMMA AloneGoes ==
    ASSUME Alone, NEW s \in Sockets, InUse(s), sock' \in [Sockets -> SocketType], UNCHANGED overlap,
           \A t \in Sockets : t # s => sock'[t] = sock[t],
           DOMAIN socketKey' = Users,
           \A u \in Users : u # s[1] => socketKey'[u] = socketKey[u],
           Usable(s)' => socketKey'[s[1]] = s
    PROVE  Alone'
<1>1. \A t, q \in Sockets : t[1] = q[1] /\ t[1] \notin overlap' /\ InUse(t)' /\ InUse(q)' => t = q
    BY DEF Alone, InUse
<1>2. ASSUME NEW t \in Sockets, Usable(t)', t[1] \notin overlap' PROVE socketKey'[t[1]] = t
    <2>1. CASE t = s
        BY <1>2, <2>1
    <2>2. CASE t # s
        <3>1. Usable(t) /\ InUse(t)
            BY <1>2, <2>2 DEF Usable, InUse
        <3>2. t[1] # s[1]
            BY <1>2, <2>2, <3>1 DEF Alone
        <3>3. t[1] \in Users
            BY DEF Sockets
        <3> QED
            BY <1>2, <3>1, <3>2, <3>3 DEF Alone, SocketReachable
    <2> QED
        BY <2>1, <2>2
<1> QED
    BY <1>1, <1>2 DEF Alone, SocketReachable

LEMMA AloneSocket ==
    ASSUME Alone, NEW s \in Sockets, DropEarly(s) \/ Drop(s) \/ SocketStep(s),
           roomKey \in [Users -> Nat]
    PROVE  Alone'
<1>1. s[1] \in Users /\ sock[s] \in SocketType
    BY DEF Sockets, Alone
<1>2. InUse(s)
    BY DEF DropEarly, Drop, SocketStep, Arrive, SetKey, ReadRoom, EndRoom, InUse, Usable
<1>3. UNCHANGED overlap
    BY DEF DropEarly, Drop, SocketStep, Arrive, SetKey, ReadRoom, EndRoom
<1>4. CASE DropEarly(s)
    BY <1>1, <1>2, <1>3, <1>4, AloneGoes DEF DropEarly, Alone, SocketType, SocketPhases, Usable
<1>5. CASE Drop(s)
    BY <1>1, <1>2, <1>3, <1>5, AloneGoes DEF Drop, Alone, SocketType, SocketPhases, Usable
<1>6. CASE Arrive(s)
    BY <1>1, <1>2, <1>3, <1>6, AloneGoes DEF Arrive, SetPc, Alone, SocketType, SocketPhases, Usable
<1>7. CASE SetKey(s)
    BY <1>1, <1>2, <1>3, <1>7, AloneGoes DEF SetKey, SetPc, Alone, SocketType, SocketPhases, Usable
<1>8. CASE ReadRoom(s)
    BY <1>1, <1>2, <1>3, <1>8, AloneGoes DEF ReadRoom, Alone, SocketType, SocketPhases, Usable
<1>9. CASE EndRoom(s)
    BY <1>1, <1>2, <1>3, <1>9, AloneGoes DEF EndRoom, SetPc, Alone, SocketType, SocketPhases, Usable
<1> QED
    BY <1>4, <1>5, <1>6, <1>7, <1>8, <1>9 DEF SocketStep

LEMMA AloneCrash == ASSUME Alone, GCrash PROVE Alone'
<1>1. /\ UNCHANGED <<socketKey, overlap>>
      /\ sock' = [s \in Sockets |->
                    [sock[s] EXCEPT !.pc = IF @ = "off" THEN "off" ELSE "lost", !.live = FALSE]]
    BY DEF GCrash
<1>2. \A s \in Sockets : /\ sock'[s] \in SocketType /\ sock'[s].live = FALSE
                         /\ sock'[s].pc \in {"off", "lost"}
    BY <1>1 DEF Alone, SocketType, SocketPhases
<1> QED
    BY <1>1, <1>2 DEF Alone, InUse, Usable, SocketReachable

LEMMA AloneStep == Alone /\ roomKey \in [Users -> Nat] /\ [GNext]_allVars => Alone'
<1> SUFFICES ASSUME Alone, roomKey \in [Users -> Nat], [GNext]_allVars PROVE Alone'
    OBVIOUS
<1>1. CASE UNCHANGED <<sock, socketKey, overlap>>
    BY <1>1 DEF Alone, InUse, Usable, SocketReachable
<1>2. ASSUME NEW s \in Sockets, Open(s) \/ DropEarly(s) \/ Drop(s) \/ SocketStep(s) PROVE Alone'
    BY <1>2, AloneOpen, AloneSocket
<1>3. ASSUME NEW k \in 1 .. Len(job), JobStep(k) PROVE UNCHANGED <<sock, socketKey, overlap>>
    BY <1>3 DEF JobStep, NotifyRead, NotifyJoin, NotifyKey, TellRead, TellEmit, TellFails
<1>4. ASSUME NEW h \in Handlers, GHandlerStep(h) PROVE UNCHANGED <<sock, socketKey, overlap>>
    BY <1>4 DEF GHandlerStep, GSave, gateway
<1> QED
    BY <1>1, <1>2, <1>3, <1>4, AloneCrash DEF GNext, GRequest, GCancel, gateway, allVars

-----------------------------------------------------------------------------
(* Notifications                                                           *)

\* A match about to be saved has users.
LEMMA FormedStep == TypeOK /\ LoopInv /\ Formed /\ [GNext]_allVars => Formed'
<1> SUFFICES ASSUME TypeOK, LoopInv, Formed, [GNext]_allVars PROVE Formed'
    OBVIOUS
<1>1. CASE UNCHANGED <<handler, matches>>
    BY <1>1 DEF Formed
<1>2. ASSUME NEW h \in Handlers, QueueStep(h) PROVE Formed'
    <2>1. UNCHANGED matches
        BY <1>2 DEF QueueStep, TooFew, Enough, Pop, Pair, PairGap, PairDone, Leftover, LeftoverDone, SaveFails
    <2>2. \A k \in Handlers : k # h => handler'[k] = handler[k]
        BY <1>2 DEF QueueStep, TooFew, Enough, Pop, Pair, PairGap, PairDone, Leftover, LeftoverDone,
           SaveFails, TypeOK
    <2>3. handler'[h].pc = "save" => handler'[h].matched # <<>>
        <3>1. CASE LeftoverDone(h)
            <4>1. CASE Len(handler[h].matched) >= 2
                <5>1. handler'[h].matched = handler[h].matched
                    BY <3>1, <4>1 DEF LeftoverDone, TypeOK, HandlerState
                <5> QED
                    BY <4>1, <5>1
            <4>2. CASE ~(Len(handler[h].matched) >= 2)
                BY <3>1, <4>2 DEF LeftoverDone, TypeOK, IdleHandler
            <4> QED
                BY <4>1, <4>2
        <3>2. CASE ~LeftoverDone(h)
            <4> USE DEF TypeOK, HandlerState
            <4>1. CASE TooFew(h) \/ SaveFails(h)
                BY <4>1 DEF TooFew, SaveFails, IdleHandler
            <4>2. CASE Enough(h) \/ PairDone(h)
                BY <4>2 DEF Enough, PairDone
            <4>3. CASE Pop(h)
                BY <4>3 DEF Pop
            <4>4. CASE Pair(h) \/ PairGap(h)
                BY <4>4 DEF Pair, PairGap, InPairLoop
            <4>5. CASE Leftover(h)
                BY <4>5 DEF Leftover
            <4> QED
                BY <1>2, <3>2, <4>1, <4>2, <4>3, <4>4, <4>5 DEF QueueStep
        <3> QED
            BY <3>1, <3>2
    <2> QED
        BY <2>1, <2>2, <2>3 DEF Formed
<1>3. ASSUME NEW h \in Handlers, GSave(h) PROVE Formed'
    <2>1. /\ handler' = [handler EXCEPT ![h] = IdleHandler]
          /\ handler[h].matched # <<>>
          /\ matches' = Append(matches, [game |-> handler[h].game, users |-> handler[h].matched])
        BY <1>3 DEF GSave, Save, Formed
    <2>2. \A k \in Handlers : handler'[k].pc = "save" => handler'[k].matched # <<>>
        BY <2>1 DEF Formed, TypeOK, IdleHandler
    <2>3. \A k \in 1 .. Len(matches') : matches'[k].users # <<>>
        BY <2>1 DEF Formed, TypeOK
    <2> QED
        BY <2>2, <2>3 DEF Formed
<1>4. CASE GCrash
    BY <1>4 DEF GCrash, Crash, Formed, IdleHandler
<1>5. ASSUME NEW h \in Handlers, NEW u \in Users, NEW g \in GameTypes, GRequest(h, u, g) PROVE Formed'
    <2>1. /\ UNCHANGED matches
          /\ handler' = [handler EXCEPT ![h] = [IdleHandler EXCEPT !.pc = "count", !.game = g]]
        BY <1>5 DEF GRequest, Request
    <2>2. \A k \in Handlers : handler'[k].pc = "save" => k # h
        BY <2>1 DEF TypeOK, IdleHandler
    <2>3. \A k \in Handlers : k # h => handler'[k] = handler[k]
        BY <2>1 DEF TypeOK
    <2> QED
        BY <2>1, <2>2, <2>3 DEF Formed
<1>6. ASSUME NEW s \in Sockets, Open(s) \/ DropEarly(s) \/ Drop(s) \/ SocketStep(s)
      PROVE  UNCHANGED <<handler, matches>>
    BY <1>6 DEF Open, DropEarly, Drop, SocketStep, Arrive, SetKey, ReadRoom, EndRoom, Leave, vars
<1>7. ASSUME NEW k \in 1 .. Len(job), JobStep(k) PROVE UNCHANGED <<handler, matches>>
    BY <1>7 DEF JobStep, NotifyRead, NotifyJoin, NotifyKey, TellRead, TellEmit, TellFails, vars
<1>8. ASSUME NEW u \in Users, NEW g \in GameTypes, GCancel(u, g) PROVE UNCHANGED <<handler, matches>>
    BY <1>8 DEF GCancel, Cancel
<1> QED
    BY <1>1, <1>2, <1>3, <1>4, <1>5, <1>6, <1>7, <1>8 DEF GNext, GHandlerStep, Tick, vars, allVars

LEMMA GInvInit == GInit => GInv /\ Alone
<1> SUFFICES ASSUME GInit PROVE GInv /\ Alone
    OBVIOUS
<1>1. TypeOK /\ LoopInv /\ Alone
    BY InitTypeOK, LoopInit, AloneInit DEF GInit
<1>2. matches = <<>> /\ job = <<>> /\ Formed
    BY DEF GInit, Init, Formed, IdleHandler
<1>3. Notifying
    BY <1>2 DEF Notifying
<1>4. GTypeOK
    <2>1. sock \in [Sockets -> [pc : SocketPhases, live : BOOLEAN, room : Nat]]
        BY DEF GInit, SocketPhases, NoRoomRead, NoRoom
    <2> QED
        BY <1>2, <2>1 DEF GInit, GTypeOK, NoRoom, NoSocket
<1> QED
    BY <1>1, <1>2, <1>3, <1>4 DEF GInv

\* A socket's handlers leave notifications and matches alone.
LEMMA GTypeSocket ==
    ASSUME GInv, NEW s \in Sockets, Open(s) \/ DropEarly(s) \/ Drop(s) \/ SocketStep(s)
    PROVE  GTypeOK' /\ Notifying'
<1>1. s[1] \in Users
    BY DEF Sockets
<1>2. UNCHANGED <<job, told, matches>>
    BY DEF Open, DropEarly, Drop, SocketStep, Arrive, SetKey, ReadRoom, EndRoom, Leave, vars
<1>3. sock' \in [Sockets -> SocketType]
    <2>1. sock \in [Sockets -> SocketType] /\ roomKey[s[1]] \in Nat
        BY <1>1 DEF GInv, GTypeOK, SocketType
    <2>2. CASE ReadRoom(s)
        BY <2>1, <2>2 DEF ReadRoom, SocketType, SocketPhases
    <2>3. CASE Open(s)
        BY <2>1, <2>3 DEF Open, SocketType, SocketPhases
    <2>5. CASE DropEarly(s)
        BY <2>1, <2>5 DEF DropEarly, SocketType, SocketPhases
    <2>6. CASE Drop(s)
        BY <2>1, <2>6 DEF Drop, SocketType, SocketPhases
    <2>4. CASE Arrive(s) \/ SetKey(s) \/ EndRoom(s)
        BY <2>1, <2>4 DEF Arrive, SetKey, EndRoom, SetPc, SocketType, SocketPhases
    <2> QED
        BY <2>2, <2>3, <2>4, <2>5, <2>6 DEF SocketStep
<1>4. socketKey' \in [Users -> Sockets \union {NoSocket}]
    BY <1>1 DEF Open, DropEarly, Drop, SocketStep, Arrive, SetKey, ReadRoom, EndRoom, GInv, GTypeOK
<1>5. roomKey' \in [Users -> 0 .. Len(matches)]
    <2>1. 0 \in 0 .. Len(matches) /\ roomKey \in [Users -> 0 .. Len(matches)]
        BY DEF GInv, GTypeOK, TypeOK
    <2>2. roomKey' = roomKey \/ roomKey' = [roomKey EXCEPT ![s[1]] = 0]
        BY DEF Open, DropEarly, Drop, SocketStep, Arrive, SetKey, ReadRoom, EndRoom, NoRoom
    <2> QED
        BY <2>1, <2>2
<1>6. rooms' \subseteq rooms /\ ended' \subseteq ended \union rooms /\ overlap' \subseteq Users
    BY <1>1 DEF Open, DropEarly, Drop, SocketStep, Arrive, SetKey, ReadRoom, EndRoom, GInv, GTypeOK
<1>7. Notifying'
    BY <1>2 DEF GInv, Notifying, MatchUsers
<1> QED
    BY <1>2, <1>3, <1>4, <1>5, <1>6, <1>7 DEF GInv, GTypeOK, SocketType

\* A notification goes on.
LEMMA GTypeJob ==
    ASSUME GInv, NEW k \in 1 .. Len(job), NEW j, j \in JobType, Ready(j, MatchUsers(k)),
           job' = [job EXCEPT ![k] = j], UNCHANGED <<sock, socketKey, overlap, ended, matches>>,
           roomKey' \in [Users -> 0 .. Len(matches)],
           rooms' \subseteq Sockets \X (1 .. Len(matches)), told' \subseteq Sockets \X (1 .. Len(matches))
    PROVE  GTypeOK' /\ Notifying'
<1>1. job \in Seq(JobType)
    BY DEF GInv, GTypeOK, JobType
<1>2. job' \in Seq(JobType) /\ Len(job') = Len(job)
    BY <1>1
<1>3. \A q \in 1 .. Len(job) : job'[q] = IF q = k THEN j ELSE job[q]
    BY <1>1
<1>4. Notifying'
    BY <1>2, <1>3 DEF GInv, Notifying, MatchUsers
<1> QED
    BY <1>2, <1>4 DEF GInv, GTypeOK, JobType

LEMMA GTypeJobStep ==
    ASSUME GInv, NEW k \in 1 .. Len(job), JobStep(k) PROVE GTypeOK' /\ Notifying'
<1>6. job \in Seq(JobType)
    BY DEF GInv, GTypeOK, JobType
<1>1. PICK j0 \in JobType : j0 = job[k]
    BY <1>6
<1>2. PICK users \in Seq(Users) : users = MatchUsers(k)
    <2>1. matches \in Seq(MatchType) /\ k \in 1 .. Len(matches)
        BY DEF GInv, GTypeOK, TypeOK, MatchType
    <2>2. matches[k] \in MatchType
        BY <2>1
    <2> QED
        BY <2>2 DEF MatchUsers, MatchType
<1>3. Ready(j0, users)
    BY <1>1, <1>2 DEF GInv, Notifying
<1>4. /\ roomKey \in [Users -> 0 .. Len(matches)] /\ rooms \subseteq Sockets \X (1 .. Len(matches))
      /\ told \subseteq Sockets \X (1 .. Len(matches)) /\ k \in 1 .. Len(matches)
      /\ k \in 0 .. Len(matches)
      /\ \A u \in Users : socketKey[u] \in Sockets \union {NoSocket}
    BY DEF GInv, GTypeOK
<1>5. UNCHANGED <<matches, sock, socketKey, overlap, ended>>
    BY DEF JobStep, NotifyRead, NotifyJoin, NotifyKey, TellRead, TellEmit, TellFails, vars
<1>7. users = matches[k].users /\ k <= Len(matches)
    BY <1>2, <1>4 DEF MatchUsers
<1>8. CASE NotifyRead(k)
    <2>1. PICK ids \in SUBSET Sockets : ids = {socketKey[users[i]] : i \in DOMAIN users} \ {NoSocket}
        <3>1. \A i \in DOMAIN users : users[i] \in Users
            OBVIOUS
        <3> QED
            BY <1>4, <3>1
    <2>2. PICK pc \in {"tell", "join"} : pc = IF ids = {} THEN "tell" ELSE "join"
        OBVIOUS
    <2>3. PICK j : j = [j0 EXCEPT !.ids = ids, !.pc = pc]
        OBVIOUS
    <2>4. j.pc = pc /\ j.at = j0.at /\ j \in JobType
        BY <1>1, <2>3 DEF JobType, JobPhases
    <2>5. job' = [job EXCEPT ![k] = j] /\ UNCHANGED <<roomKey, rooms, told>>
        BY ZenonT(30), <1>1, <1>2, <1>6, <1>8, <2>1, <2>2, <2>3 DEF NotifyRead
    <2>6. Ready(j, users)
        BY <1>1, <1>3, <1>8, <2>2, <2>4 DEF Ready, NotifyRead
    <2> QED
        BY <1>2, <1>4, <1>5, <2>4, <2>5, <2>6, GTypeJob
<1>9. CASE NotifyJoin(k)
    <2>1. PICK j : j = [j0 EXCEPT !.pc = "keys"]
        OBVIOUS
    <2>2. j.pc = "keys" /\ j.at = j0.at /\ j \in JobType
        BY <1>1, <2>1 DEF JobType, JobPhases
    <2>3. job' = [job EXCEPT ![k] = j] /\ UNCHANGED <<roomKey, told>>
        BY <1>1, <1>6, <1>9, <2>1 DEF NotifyJoin
    <2>4. Ready(j, users)
        BY <1>1, <1>3, <1>9, <2>2 DEF Ready, NotifyJoin
    <2>5. rooms' \subseteq Sockets \X (1 .. Len(matches))
        BY <1>1, <1>4, <1>9 DEF NotifyJoin, JobType
    <2> QED
        BY <1>2, <1>4, <1>5, <2>2, <2>3, <2>4, <2>5, GTypeJob
<1>10. CASE NotifyKey(k)
    <2>1. PICK last \in BOOLEAN : (last <=> LastUser(k)) /\ (last <=> j0.at = Len(users))
        BY <1>1, <1>2 DEF LastUser
    <2>2. PICK pc \in {"tell", "keys"} : pc = IF last THEN "tell" ELSE "keys"
        OBVIOUS
    <2>3. PICK at \in Nat \ {0} : at = IF last THEN 1 ELSE j0.at + 1
        BY DEF JobType
    <2>4. PICK j : j = [j0 EXCEPT !.pc = pc, !.at = at]
        OBVIOUS
    <2>5. j.pc = pc /\ j.at = at /\ j \in JobType
        BY <2>4 DEF JobType, JobPhases
    <2>6. job' = [job EXCEPT ![k] = j] /\ UNCHANGED <<rooms, told>>
        BY <1>1, <1>6, <1>10, <2>1, <2>2, <2>3, <2>4 DEF NotifyKey
    <2>7. at \in 1 .. Len(users)
        <3>1. j0.at \in 1 .. Len(users) /\ Len(users) \in Nat
            BY <1>1, <1>3, <1>10 DEF Ready, NotifyKey
        <3> QED
            BY <3>1, <2>1, <2>3
    <2>8. Ready(j, users)
        BY <2>5, <2>7 DEF Ready
    <2>9. roomKey' \in [Users -> 0 .. Len(matches)]
        BY <1>4, <1>10 DEF NotifyKey
    <2> QED
        BY <1>2, <1>4, <1>5, <2>5, <2>6, <2>8, <2>9, GTypeJob
<1>11. CASE TellRead(k)
    <2>1. PICK to \in Sockets \union {NoSocket} : to = socketKey[users[j0.at]]
        BY <1>1, <1>3, <1>4, <1>11 DEF Ready, TellRead
    <2>2. PICK last \in BOOLEAN : (last <=> LastUser(k)) /\ (last <=> j0.at = Len(users))
        BY <1>1, <1>2 DEF LastUser
    <2>3. PICK pc \in {"emit", "done", "tell"} :
            pc = IF to # NoSocket THEN "emit" ELSE IF last THEN "done" ELSE "tell"
        OBVIOUS
    <2>4. PICK at \in Nat \ {0} : at = IF to = NoSocket /\ ~last THEN j0.at + 1 ELSE j0.at
        BY DEF JobType
    <2>5. PICK j : j = [j0 EXCEPT !.to = to, !.pc = pc, !.at = at]
        OBVIOUS
    <2>6. j.pc = pc /\ j.at = at /\ j.to = to /\ j \in JobType
        BY <2>5 DEF JobType, JobPhases
    <2>7. job' = [job EXCEPT ![k] = j] /\ UNCHANGED <<roomKey, rooms, told>>
        BY <1>1, <1>2, <1>6, <1>11, <2>1, <2>2, <2>3, <2>4, <2>5 DEF TellRead
    <2>8. at \in 1 .. Len(users)
        <3>1. j0.at \in 1 .. Len(users) /\ Len(users) \in Nat
            BY <1>1, <1>3, <1>11 DEF Ready, TellRead
        <3> QED
            BY <3>1, <2>2, <2>4
    <2>9. Ready(j, users)
        BY <2>3, <2>6, <2>8 DEF Ready
    <2> QED
        BY <1>2, <1>4, <1>5, <2>6, <2>7, <2>9, GTypeJob
<1>12. CASE TellEmit(k)
    <2>1. PICK last \in BOOLEAN : (last <=> LastUser(k)) /\ (last <=> j0.at = Len(users))
        BY <1>1, <1>2 DEF LastUser
    <2>2. PICK pc \in {"tell", "done"} : pc = IF last THEN "done" ELSE "tell"
        OBVIOUS
    <2>3. PICK at \in Nat \ {0} : at = IF last THEN j0.at ELSE j0.at + 1
        BY DEF JobType
    <2>4. PICK j : j = [j0 EXCEPT !.pc = pc, !.at = at]
        OBVIOUS
    <2>5. j.pc = pc /\ j.at = at /\ j \in JobType
        BY <2>4 DEF JobType, JobPhases
    <2>6. job' = [job EXCEPT ![k] = j] /\ UNCHANGED <<roomKey, rooms>>
        BY <1>1, <1>6, <1>12, <2>1, <2>2, <2>3, <2>4 DEF TellEmit
    <2>7. at \in 1 .. Len(users)
        <3>1. j0.at \in 1 .. Len(users) /\ Len(users) \in Nat
            BY <1>1, <1>3, <1>12 DEF Ready, TellEmit
        <3> QED
            BY <3>1, <2>1, <2>3
    <2>8. Ready(j, users)
        BY <2>2, <2>5, <2>7 DEF Ready
    <2>9. told' \subseteq Sockets \X (1 .. Len(matches))
        BY <1>1, <1>3, <1>4, <1>12 DEF TellEmit, Ready
    <2> QED
        BY <1>2, <1>4, <1>5, <2>5, <2>6, <2>8, <2>9, GTypeJob
<1>13. CASE TellFails(k)
    <2>1. PICK j : j = [j0 EXCEPT !.pc = "failed"]
        OBVIOUS
    <2>2. j.pc = "failed" /\ j \in JobType
        BY <2>1 DEF JobType, JobPhases
    <2>3. job' = [job EXCEPT ![k] = j] /\ UNCHANGED <<roomKey, rooms, told>>
        BY <1>1, <1>6, <1>13, <2>1 DEF TellFails
    <2> QED
        BY <1>2, <1>4, <1>5, <2>2, <2>3, GTypeJob DEF Ready
<1> QED
    BY <1>8, <1>9, <1>10, <1>11, <1>12, <1>13 DEF JobStep

\* A new match brings a notification of its own.
LEMMA GTypeSave == ASSUME GInv, NEW h \in Handlers, GSave(h) PROVE GTypeOK' /\ Notifying'
<1>1. PICK match \in MatchType :
        /\ matches' = Append(matches, match) /\ match.users # <<>>
    <2>1. handler[h].pc = "save" /\ handler[h] \in HandlerState /\ handler[h].game \in GameTypes
        BY DEF GSave, Save, GInv, TypeOK
    <2>2. [game |-> handler[h].game, users |-> handler[h].matched]
            \in MatchType
        BY <2>1 DEF HandlerState, MatchType
    <2>3. handler[h].matched # <<>>
        BY <2>1 DEF GInv, Formed
    <2> QED
        BY <2>2, <2>3 DEF GSave, Save
<1>2. PICK j \in JobType : j = [pc |-> "read", ids |-> {}, at |-> 1, to |-> NoSocket]
    <2>1. [pc |-> "read", ids |-> {}, at |-> 1, to |-> NoSocket] \in JobType
        BY DEF JobType, JobPhases
    <2> QED
        BY <2>1
<1>3. job' = Append(job, j) /\ UNCHANGED <<sock, socketKey, roomKey, rooms, overlap, told, ended>>
    BY <1>2 DEF GSave
<1>4. PICK n \in Nat : n = Len(matches) /\ n = Len(job)
    BY DEF GInv, TypeOK, GTypeOK
<1>5. /\ job \in Seq(JobType)
      /\ matches \in Seq(MatchType)
    BY DEF GInv, GTypeOK, TypeOK, JobType, MatchType
<1>6. /\ Len(matches') = n + 1 /\ Len(job') = n + 1 /\ job' \in Seq(JobType)
      /\ \A k \in 1 .. n : matches'[k] = matches[k] /\ job'[k] = job[k]
      /\ matches'[n + 1] = match /\ job'[n + 1] = j
    <2>1. Len(matches') = n + 1 /\ matches'[n + 1] = match /\ \A k \in 1 .. n : matches'[k] = matches[k]
        <3>1. PICK before \in Seq(MatchType) : before = matches
            BY <1>5
        <3>2. matches' = Append(before, match) /\ n = Len(before)
            BY <1>1, <1>4, <3>1
        <3>3. /\ Len(Append(before, match)) = n + 1 /\ Append(before, match)[n + 1] = match
              /\ \A k \in 1 .. n : Append(before, match)[k] = before[k]
            BY <3>2, AppendProperties
        <3> QED
            BY <3>1, <3>2, <3>3
    <2>2. Len(job') = n + 1 /\ job'[n + 1] = j /\ \A k \in 1 .. n : job'[k] = job[k]
        BY <1>3, <1>4, <1>5
    <2>3. job' \in Seq(JobType)
        BY <1>3, <1>5
    <2> QED
        BY <2>1, <2>2, <2>3
<1>7. 0 .. n \subseteq 0 .. n + 1 /\ 1 .. n \subseteq 1 .. n + 1
    BY <1>4
<1>8. GTypeOK'
    <2>1. roomKey \in [Users -> 0 .. n + 1]
        BY <1>4, <1>7 DEF GInv, GTypeOK
    <2>2. \A S : S \subseteq Sockets \X (1 .. n) => S \subseteq Sockets \X (1 .. n + 1)
        BY <1>7
    <2> QED
        BY <1>3, <1>4, <1>6, <2>1, <2>2 DEF GInv, GTypeOK, JobType
<1>9. Notifying'
    <2>1. ASSUME NEW k \in 1 .. n PROVE Ready(job[k], matches[k].users)
        BY <1>4 DEF GInv, Notifying, MatchUsers
    <2>2. Ready(j, match.users)
        <3>1. match.users \in Seq(Users) /\ Len(match.users) >= 1
            BY <1>1 DEF MatchType
        <3> QED
            BY <1>2, <3>1 DEF Ready
    <2>3. ASSUME NEW k \in 1 .. n + 1 PROVE Ready(job'[k], matches'[k].users)
        BY <1>4, <1>6, <2>1, <2>2
    <2> QED
        BY <1>6, <2>3 DEF Notifying, MatchUsers
<1> QED
    BY <1>8, <1>9

LEMMA GTypeCrash == ASSUME GInv, GCrash PROVE GTypeOK' /\ Notifying'
<1>1. /\ UNCHANGED <<matches, socketKey, roomKey, overlap, told, ended>> /\ rooms' = {}
      /\ sock' = [s \in Sockets |->
                    [sock[s] EXCEPT !.pc = IF @ = "off" THEN "off" ELSE "lost", !.live = FALSE]]
      /\ job' = [k \in DOMAIN job |-> [job[k] EXCEPT !.pc = IF @ = "done" THEN "done" ELSE "failed"]]
    BY DEF GCrash, Crash
<1>2. sock' \in [Sockets -> [pc : SocketPhases, live : BOOLEAN, room : Nat]]
    BY <1>1 DEF GInv, GTypeOK, SocketPhases
<1>3. job \in Seq(JobType)
    BY DEF GInv, GTypeOK, JobType
<1>4. ASSUME NEW k \in 1 .. Len(job)
      PROVE  job'[k] \in JobType /\ job'[k].pc \in {"done", "failed"}
    <2>1. PICK j \in JobType : j = job[k]
        BY <1>3
    <2>2. PICK pc \in {"done", "failed"} : pc = IF j.pc = "done" THEN "done" ELSE "failed"
        OBVIOUS
    <2>3. k \in DOMAIN job
        BY <1>3
    <2>4. job'[k] = [j EXCEPT !.pc = pc]
        BY <1>1, <2>1, <2>2, <2>3 DEF JobType
    <2>5. [j EXCEPT !.pc = pc] \in JobType /\ [j EXCEPT !.pc = pc].pc = pc
        BY DEF JobType, JobPhases
    <2> QED
        BY <2>4, <2>5
<1>5. job' \in Seq(JobType) /\ Len(job') = Len(job)
    <2>1. PICK n \in Nat : n = Len(job) /\ DOMAIN job = 1 .. n
        BY <1>3
    <2>2. job' \in [1 .. n -> JobType]
        BY <1>1, <1>4, <2>1
    <2> QED
        BY <2>1, <2>2
<1>6. Notifying'
    BY <1>4, <1>5 DEF Notifying, Ready
<1> QED
    BY <1>1, <1>2, <1>5, <1>6 DEF GInv, GTypeOK, JobType

LEMMA GInvStep == GInv /\ Alone /\ [GNext]_allVars => (GInv /\ Alone)'
<1> SUFFICES ASSUME GInv, Alone, [GNext]_allVars PROVE (GInv /\ Alone)'
    OBVIOUS
<1>1. TypeOK' /\ LoopInv'
    <2>1. CASE [Next]_vars
        BY <2>1, TypeStep, LoopStep DEF GInv
    <2>2. CASE /\ UNCHANGED <<now, queue, handler, matches, history>>
               /\ faults < MaxFaults /\ faults' = faults + 1
        BY <2>2, ConstantsAssumption DEF GInv, TypeOK, LoopInv, history
    <2> QED
        BY <2>1, <2>2, QueueSide
<1>2. Formed'
    BY FormedStep DEF GInv
<1>3. Alone'
    <2>1. roomKey \in [Users -> Nat]
        BY DEF GInv, GTypeOK
    <2> QED
        BY <2>1, AloneStep
<1>4. GTypeOK' /\ Notifying'
    <2>1. CASE UNCHANGED <<gateway, matches>>
        BY <2>1 DEF gateway, GInv, GTypeOK, Notifying, MatchUsers
    <2>2. ASSUME NEW s \in Sockets, Open(s) \/ DropEarly(s) \/ Drop(s) \/ SocketStep(s)
          PROVE  GTypeOK' /\ Notifying'
        BY <2>2, GTypeSocket
    <2>3. ASSUME NEW k \in 1 .. Len(job), JobStep(k) PROVE GTypeOK' /\ Notifying'
        BY <2>3, GTypeJobStep
    <2>4. ASSUME NEW h \in Handlers, GHandlerStep(h) PROVE GTypeOK' /\ Notifying'
        <3>1. CASE GSave(h)
            BY <3>1, GTypeSave
        <3>2. CASE QueueStep(h) /\ UNCHANGED gateway
            <4>1. UNCHANGED matches
                BY <3>2 DEF QueueStep, TooFew, Enough, Pop, Pair, PairGap, PairDone, Leftover,
                   LeftoverDone, SaveFails
            <4> QED
                BY <2>1, <3>2, <4>1
        <3> QED
            BY <2>4, <3>1, <3>2 DEF GHandlerStep
    <2>5. ASSUME NEW h \in Handlers, NEW u \in Users, NEW g \in GameTypes, GRequest(h, u, g)
          PROVE  UNCHANGED <<gateway, matches>>
        BY <2>5 DEF GRequest, Request
    <2>6. ASSUME NEW u \in Users, NEW g \in GameTypes, GCancel(u, g) PROVE UNCHANGED <<gateway, matches>>
        BY <2>6 DEF GCancel, Cancel
    <2>7. CASE GCrash
        BY <2>7, GTypeCrash
    <2> QED
        BY <2>1, <2>2, <2>3, <2>4, <2>5, <2>6, <2>7 DEF GNext, Tick, allVars, vars
<1> QED
    BY <1>1, <1>2, <1>3, <1>4 DEF GInv

LEMMA GInvHolds == GSpec => [](GInv /\ Alone)
BY GInvInit, GInvStep, PTL DEF GSpec

\* The gateway's variables keep their shape, and every match has one
\* notification, about users it has.
THEOREM GatewayTypeCorrect == GSpec => []GTypeOK
<1>1. GInv => GTypeOK
    BY DEF GInv
<1> QED
    BY <1>1, GInvHolds, PTL

\* Without overlapping sockets, the key of a connected user names the socket
\* they have.
THEOREM SocketsAreReachable == GSpec => []SocketReachable
<1>1. Alone => SocketReachable
    BY DEF Alone
<1> QED
    BY <1>1, GInvHolds, PTL

-----------------------------------------------------------------------------
(* Who is told, and who hears the end                                      *)

\* The server has written the key of s.
Keyed(s) == sock[s].pc \notin {"off", "arriving", "keying"}
Known(u) == \E n \in 1 .. MaxSockets : Keyed(<<u, n>>)

\* u has opened one socket, and is still there.
Only(u) == Opened(u) = {1}
Still(u) == Only(u) /\ Usable(<<u, 1>>)

\* Sockets are opened in order, and a socket key names a socket of its user.
Opening ==
    /\ \A u \in Users : Opened(u) # {} => 1 \in Opened(u)
    /\ \A u \in overlap : \E n \in Opened(u) : n # 1
    /\ \A s \in Sockets : sock[s].live => sock[s].pc \in {"arriving", "keying", "up"}
    /\ \A u \in Users : socketKey[u] # NoSocket => socketKey[u][1] = u /\ Keyed(socketKey[u])

\* Whoever matchmaking deals with came through a socket.
Asks(u) ==
    \/ \E g \in GameTypes : queue[g][u] # NoScore
    \/ \E h \in Handlers : Holds(h, u)
    \/ MatchesOf(u) # {}

AllKnown == \A u \in Users : Asks(u) => Known(u)

\* The notification j has set the room key of its i-th user, or told them.
KeysPast(j, i) == (j.pc = "keys" /\ i < j.at) \/ j.pc \in {"tell", "emit", "done"}
TellsPast(j, i) == (j.pc \in {"tell", "emit"} /\ i < j.at) \/ j.pc = "done"

\* How far the notification of match k is with its i-th user, u.
Reached(k, i, u) ==
    /\ job[k].pc = "join" => <<u, 1>> \in job[k].ids
    /\ job[k].pc \in {"keys", "tell", "emit", "done"} => <<<<u, 1>>, k>> \in rooms
    /\ KeysPast(job[k], i) => roomKey[u] # NoRoom
    /\ TellsPast(job[k], i) => <<<<u, 1>>, k>> \in told
    /\ job[k].pc = "emit" /\ i = job[k].at => job[k].to = <<u, 1>>

\* u is the i-th user of match k.
Plays(u, k, i) == k \in 1 .. Len(job) /\ i \in 1 .. Len(MatchUsers(k)) /\ MatchUsers(k)[i] = u

Reaching == \A u \in Users, k, i \in Nat : Plays(u, k, i) /\ Still(u) => Reached(k, i, u)

\* u has had one socket and one match.
Sole(u, k) == Only(u) /\ MatchesOf(u) = {k}

RoomKept ==
    \A u \in Users, k, i \in Nat :
        Plays(u, k, i) /\ KeysPast(job[k], i) /\ Sole(u, k) /\ Still(u) => roomKey[u] = k

\* On its way out s carries the match to the room that has to hear of it.
Leaves(s, k) ==
    /\ sock[s].pc \in {"up", "leaving"} => roomKey[s[1]] = k
    /\ sock[s].pc = "ending" => sock[s].room = k
    /\ sock[s].pc = "gone" => {m \in rooms : m[2] = k} \subseteq ended

Emitting ==
    \A k \in 1 .. Len(job) : job[k].pc = "emit" =>
        Keyed(job[k].to) /\ Plays(job[k].to[1], k, job[k].at)

WasTold(s, k) ==
    /\ Keyed(s) /\ k \in MatchesOf(s[1])
    /\ job[k].pc \in {"tell", "emit", "done", "failed"}
    /\ Sole(s[1], k) => Leaves(s, k)

Telling == Emitting /\ \A s \in Sockets, k \in Nat : <<s, k>> \in told => WasTold(s, k)

MInv == Opening /\ AllKnown /\ Reaching /\ RoomKept /\ Telling

\* The steps of the gateway, by what they touch.
LEMMA Sides ==
    ASSUME [GNext]_allVars
    PROVE  \/ UNCHANGED <<gateway, matches>>
           \/ \E s \in Sockets : Open(s) \/ DropEarly(s) \/ Drop(s) \/ SocketStep(s)
           \/ \E k \in 1 .. Len(job) : JobStep(k)
           \/ \E h \in Handlers : GSave(h)
           \/ GCrash
<1>1. CASE UNCHANGED allVars
    BY <1>1 DEF allVars, vars
<1>2. CASE Tick /\ UNCHANGED gateway
    BY <1>2 DEF Tick
<1>3. ASSUME NEW h \in Handlers, NEW u \in Users, NEW g \in GameTypes, GRequest(h, u, g)
      PROVE  UNCHANGED <<gateway, matches>>
    BY <1>3 DEF GRequest, Request
<1>4. ASSUME NEW u \in Users, NEW g \in GameTypes, GCancel(u, g) PROVE UNCHANGED <<gateway, matches>>
    BY <1>4 DEF GCancel, Cancel
<1>5. ASSUME NEW h \in Handlers, QueueStep(h), UNCHANGED gateway PROVE UNCHANGED <<gateway, matches>>
    BY <1>5 DEF QueueStep, TooFew, Enough, Pop, Pair, PairGap, PairDone, Leftover, LeftoverDone, SaveFails
<1> QED
    BY <1>1, <1>2, <1>3, <1>4, <1>5 DEF GNext, GHandlerStep

LEMMA UserSocket ==
    ASSUME NEW s \in Sockets
    PROVE  s[1] \in Users /\ s[2] \in 1 .. MaxSockets /\ s = <<s[1], s[2]>>
BY DEF Sockets

\* Sockets go forward.
LEMMA Forward ==
    ASSUME GTypeOK, [GNext]_allVars, NEW t \in Sockets
    PROVE  /\ Keyed(t) => Keyed(t)'
           /\ sock[t].pc # "off" => sock'[t].pc # "off"
           /\ Keyed(t) /\ sock'[t].live => sock[t].live
<1>1. sock \in [Sockets -> SocketType]
    BY DEF GTypeOK, SocketType
<1>2. CASE UNCHANGED sock
    BY <1>2 DEF Keyed
<1>3. ASSUME NEW s \in Sockets, Open(s) \/ DropEarly(s) \/ Drop(s) \/ SocketStep(s)
      PROVE  /\ Keyed(t) => Keyed(t)'
             /\ sock[t].pc # "off" => sock'[t].pc # "off"
             /\ Keyed(t) /\ sock'[t].live => sock[t].live
    <2>1. CASE t # s
        BY <1>1, <1>3, <2>1 DEF Open, DropEarly, Drop, SocketStep, Arrive, SetKey, ReadRoom, EndRoom,
           SetPc, Keyed
    <2>2. CASE t = s
        BY <1>1, <1>3, <2>2 DEF Open, DropEarly, Drop, SocketStep, Arrive, SetKey, ReadRoom, EndRoom,
           SetPc, Keyed, SocketType, Usable
    <2> QED
        BY <2>1, <2>2
<1>4. ASSUME NEW k \in 1 .. Len(job), JobStep(k) PROVE UNCHANGED sock
    BY <1>4 DEF JobStep, NotifyRead, NotifyJoin, NotifyKey, TellRead, TellEmit, TellFails
<1>5. CASE GCrash
    BY <1>1, <1>5 DEF GCrash, Keyed, SocketType
<1> QED
    BY <1>2, <1>3, <1>4, <1>5, Sides DEF gateway, GSave

\* A known user who has one socket now had it before.
LEMMA Back ==
    ASSUME GTypeOK, Opening, [GNext]_allVars, NEW u \in Users, Known(u)
    PROVE  /\ Only(u)' => Only(u) /\ <<u, 1>> \in Sockets /\ Keyed(<<u, 1>>)
           /\ Still(u)' => Still(u)
<1>1. PICK n \in 1 .. MaxSockets : Keyed(<<u, n>>)
    BY DEF Known
<1>2. ASSUME NEW k \in Opened(u) PROVE k \in Opened(u)'
    <2>1. <<u, k>> \in Sockets /\ sock[<<u, k>>].pc # "off"
        BY DEF Opened, Sockets
    <2>2. sock'[<<u, k>>].pc # "off"
        BY <2>1, Forward
    <2> QED
        BY <2>2 DEF Opened
<1>3. n \in Opened(u)
    BY <1>1 DEF Opened, Keyed
<1>4. ASSUME Only(u)' PROVE Only(u) /\ <<u, 1>> \in Sockets /\ Keyed(<<u, 1>>)
    <2>1. n = 1
        BY <1>2, <1>3, <1>4 DEF Only
    <2>2. Opened(u) = {1}
        BY <1>2, <1>3, <1>4, <2>1 DEF Only
    <2> QED
        BY <1>1, <2>1, <2>2 DEF Only, Sockets
<1>5. ASSUME Still(u)' PROVE Still(u)
    <2>1. Only(u) /\ <<u, 1>> \in Sockets /\ Keyed(<<u, 1>>)
        BY <1>4, <1>5 DEF Still
    <2>2. sock'[<<u, 1>>].live
        BY <1>5 DEF Still, Usable
    <2>3. sock[<<u, 1>>].live
        BY <2>1, <2>2, Forward
    <2> QED
        BY <2>1, <2>3 DEF Still, Usable, Opening, Keyed
<1> QED
    BY <1>4, <1>5

\* The one socket of a user.
LEMMA OnlySocket ==
    ASSUME GTypeOK, NEW s \in Sockets, Only(s[1]), sock[s].pc # "off" PROVE s = <<s[1], 1>>
<1>1. s[2] \in Opened(s[1])
    BY UserSocket DEF Opened
<1> QED
    BY <1>1, UserSocket DEF Only

LEMMA OpeningInit == ASSUME GInit PROVE Opening
<1>1. \A s \in Sockets : sock[s].pc = "off" /\ sock[s].live = FALSE
    BY DEF GInit, NoRoomRead
<1>2. ASSUME NEW u \in Users PROVE Opened(u) = {}
    BY <1>1 DEF Opened, Sockets
<1> QED
    BY <1>1, <1>2 DEF Opening, GInit
\* A step that opens no socket leaves the opened ones as they are.
LEMMA OpenedSame ==
    ASSUME GTypeOK, [GNext]_allVars, ~\E s \in Sockets : Open(s), NEW u \in Users
    PROVE  Opened(u)' = Opened(u)
<1>1. ASSUME NEW n \in 1 .. MaxSockets PROVE sock'[<<u, n>>].pc = "off" <=> sock[<<u, n>>].pc = "off"
    <2>1. PICK t \in Sockets : t = <<u, n>>
        BY DEF Sockets
    <2>2. sock \in [Sockets -> SocketType]
        BY DEF GTypeOK, SocketType
    <2>3. ASSUME sock[t].pc = "off" PROVE sock'[t].pc = "off"
        <3>1. CASE UNCHANGED sock
            BY <2>3, <3>1
        <3>2. ASSUME NEW s \in Sockets, DropEarly(s) \/ Drop(s) \/ SocketStep(s)
              PROVE  sock'[t].pc = "off"
            <4>1. sock[s].pc # "off"
                BY <3>2 DEF DropEarly, Drop, SocketStep, Arrive, SetKey, ReadRoom, EndRoom, Usable
            <4> QED
                BY <2>2, <2>3, <3>2, <4>1 DEF DropEarly, Drop, SocketStep, Arrive, SetKey, ReadRoom,
                   EndRoom, SetPc
        <3>3. ASSUME NEW k \in 1 .. Len(job), JobStep(k) PROVE UNCHANGED sock
            BY <3>3 DEF JobStep, NotifyRead, NotifyJoin, NotifyKey, TellRead, TellEmit, TellFails
        <3>4. CASE GCrash
            BY <2>2, <2>3, <3>4 DEF GCrash, SocketType
        <3> QED
            BY <3>1, <3>2, <3>3, <3>4, Sides DEF gateway, GSave
    <2> QED
        BY <2>1, <2>3, Forward
<1> QED
    BY <1>1 DEF Opened

LEMMA OpenedMore ==
    ASSUME GTypeOK, Opening, NEW s \in Sockets, Open(s)
    PROVE  /\ \A u \in Users : u # s[1] => Opened(u)' = Opened(u)
           /\ Opened(s[1])' = Opened(s[1]) \union {s[2]}
           /\ s[2] \notin Opened(s[1])
           /\ Opened(s[1]) = {} => s[2] = 1
<1>1. sock \in [Sockets -> SocketType]
    BY DEF GTypeOK, SocketType
<1>2. /\ \A t \in Sockets : t # s => sock'[t] = sock[t]
      /\ sock'[s].pc = "arriving" /\ sock[s].pc = "off"
    BY <1>1 DEF Open, SocketType
<1>3. s[1] \in Users /\ s[2] \in 1 .. MaxSockets /\ s = <<s[1], s[2]>>
    BY UserSocket
<1>4. \A u \in Users, n \in 1 .. MaxSockets : <<u, n>> \in Sockets
    BY DEF Sockets
<1>5. \A u \in Users, n \in 1 .. MaxSockets :
        <<u, n>> # s => sock'[<<u, n>>].pc = sock[<<u, n>>].pc
    BY <1>2, <1>4
<1>6. \A u \in Users : u # s[1] => Opened(u)' = Opened(u)
    BY <1>3, <1>5 DEF Opened
<1>7. \A n \in 1 .. MaxSockets : n # s[2] => <<s[1], n>> # s
    BY <1>3
<1>8. Opened(s[1])' = Opened(s[1]) \union {s[2]}
    BY <1>2, <1>3, <1>5, <1>7 DEF Opened
<1>9. s[2] \notin Opened(s[1])
    BY <1>2, <1>3 DEF Opened
<1>10. Opened(s[1]) = {} => s[2] = 1
    BY FS_EmptySet DEF Open
<1> QED
    BY <1>6, <1>8, <1>9, <1>10

\* Sockets are alive until their disconnect handler.
LEMMA LiveStep ==
    ASSUME GTypeOK, Opening, [GNext]_allVars, NEW t \in Sockets, sock'[t].live
    PROVE  sock'[t].pc \in {"arriving", "keying", "up"}
<1>1. sock \in [Sockets -> SocketType]
    BY DEF GTypeOK, SocketType
<1>2. CASE UNCHANGED sock
    BY <1>2 DEF Opening
<1>3. ASSUME NEW s \in Sockets, Open(s) \/ DropEarly(s) \/ Drop(s) \/ SocketStep(s)
      PROVE  sock'[t].pc \in {"arriving", "keying", "up"}
    <2>1. CASE t # s
        BY <1>1, <1>3, <2>1 DEF Open, DropEarly, Drop, SocketStep, Arrive, SetKey, ReadRoom, EndRoom,
           SetPc, Opening
    <2>2. CASE t = s
        BY <1>1, <1>3, <2>2 DEF Open, DropEarly, Drop, SocketStep, Arrive, SetKey, ReadRoom, EndRoom,
           SetPc, SocketType, Usable, Opening
    <2> QED
        BY <2>1, <2>2
<1>4. ASSUME NEW k \in 1 .. Len(job), JobStep(k) PROVE UNCHANGED sock
    BY <1>4 DEF JobStep, NotifyRead, NotifyJoin, NotifyKey, TellRead, TellEmit, TellFails
<1>5. CASE GCrash
    BY <1>1, <1>5 DEF GCrash, SocketType
<1> QED
    BY <1>2, <1>3, <1>4, <1>5, Sides DEF gateway, GSave

LEMMA OpeningStep == ASSUME GTypeOK, Opening, [GNext]_allVars PROVE Opening'
<1>1. /\ \A u \in Users : Opened(u)' # {} => 1 \in Opened(u)'
      /\ \A u \in overlap' : \E n \in Opened(u)' : n # 1
    <2>1. CASE ~\E s \in Sockets : Open(s)
        <3>1. overlap' = overlap
            BY <2>1, Sides DEF gateway, DropEarly, Drop, SocketStep, Arrive, SetKey, ReadRoom, EndRoom,
               JobStep, NotifyRead, NotifyJoin, NotifyKey, TellRead, TellEmit, TellFails, GSave, GCrash
        <3>2. overlap \subseteq Users
            BY DEF GTypeOK
        <3> QED
            BY <2>1, <3>1, <3>2, OpenedSame DEF Opening
    <2>2. ASSUME NEW s \in Sockets, Open(s)
          PROVE  /\ \A u \in Users : Opened(u)' # {} => 1 \in Opened(u)'
                 /\ \A u \in overlap' : \E n \in Opened(u)' : n # 1
        <3>1. /\ \A u \in Users : u # s[1] => Opened(u)' = Opened(u)
              /\ Opened(s[1])' = Opened(s[1]) \union {s[2]}
              /\ s[2] \notin Opened(s[1])
              /\ Opened(s[1]) = {} => s[2] = 1
            BY <2>2, OpenedMore
        <3>2. s[1] \in Users /\ overlap \subseteq Users
            BY UserSocket DEF GTypeOK
        <3>3. \A u \in Users : Opened(u)' # {} => 1 \in Opened(u)'
            BY <3>1, <3>2 DEF Opening
        <3>4. ASSUME NEW u \in overlap' PROVE \E n \in Opened(u)' : n # 1
            <4>1. CASE u \in overlap
                <5>1. PICK n \in Opened(u) : n # 1
                    BY <4>1 DEF Opening
                <5>2. n \in Opened(u)'
                    BY <3>1, <3>2, <4>1, <5>1
                <5> QED
                    BY <5>1, <5>2
            <4>2. CASE u \notin overlap
                <5>1. u = s[1] /\ Opened(u) # {}
                    BY <2>2, <4>2 DEF Open
                <5>2. 1 \in Opened(u)
                    BY <3>2, <5>1 DEF Opening
                <5> QED
                    BY <3>1, <5>1, <5>2
            <4> QED
                BY <4>1, <4>2
        <3> QED
            BY <3>3, <3>4
    <2> QED
        BY <2>1, <2>2
<1>2. \A s \in Sockets : sock'[s].live => sock'[s].pc \in {"arriving", "keying", "up"}
    BY LiveStep
<1>3. ASSUME NEW u \in Users, socketKey'[u] # NoSocket
      PROVE  socketKey'[u][1] = u /\ Keyed(socketKey[u])'
    <2>1. CASE socketKey'[u] = socketKey[u]
        <3>1. PICK t \in Sockets : t = socketKey[u]
            BY <1>3, <2>1 DEF GTypeOK
        <3>2. t[1] = u /\ Keyed(t)
            BY <1>3, <2>1, <3>1 DEF Opening
        <3>3. Keyed(t)'
            BY <3>2, Forward
        <3> QED
            BY <2>1, <3>1, <3>2, <3>3 DEF Keyed
    <2>2. CASE socketKey'[u] # socketKey[u]
        <3>1. PICK s \in Sockets : SetKey(s) \/ EndRoom(s)
            BY <2>2, Sides DEF gateway, Open, DropEarly, Drop, SocketStep, Arrive, ReadRoom,
               JobStep, NotifyRead, NotifyJoin, NotifyKey, TellRead, TellEmit, TellFails, GSave, GCrash
        <3>2. socketKey \in [Users -> Sockets \union {NoSocket}] /\ sock \in [Sockets -> SocketType]
            BY DEF GTypeOK, SocketType
        <3>3. u = s[1] /\ SetKey(s) /\ socketKey'[u] = s
            BY <1>3, <2>2, <3>1, <3>2 DEF SetKey, EndRoom
        <3>4. sock'[s].pc \in {"up", "gone"}
            BY <3>2, <3>3 DEF SetKey, SetPc, SocketType
        <3> QED
            BY <3>3, <3>4 DEF Keyed
    <2> QED
        BY <2>1, <2>2
<1> QED
    BY <1>1, <1>2, <1>3 DEF Opening

-----------------------------------------------------------------------------
(* Matchmaking knows its users                                             *)

LEMMA KnownStays ==
    ASSUME GTypeOK, [GNext]_allVars, NEW u \in Users, Known(u) PROVE Known(u)'
<1>1. PICK n \in 1 .. MaxSockets : Keyed(<<u, n>>)
    BY DEF Known
<1>2. <<u, n>> \in Sockets
    BY DEF Sockets
<1>3. Keyed(<<u, n>>)'
    BY <1>1, <1>2, Forward
<1> QED
    BY <1>3 DEF Known
\* A handler that goes on with the users it popped, or drops them, and queues
\* nobody but one of them.
LEMMA AsksOn ==
    ASSUME TypeOK, NEW h \in Handlers, QueueStep(h), NEW u \in Users, Asks(u)' PROVE Asks(u)
<1>1. UNCHANGED matches
    BY DEF QueueStep, TooFew, Enough, Pop, Pair, PairGap, PairDone, Leftover, LeftoverDone, SaveFails
<1>2. handler \in [Handlers -> HandlerState]
    BY DEF TypeOK
<1>3. \A k \in Handlers : k # h => handler'[k] = handler[k]
    BY <1>2 DEF QueueStep, TooFew, Enough, Pop, Pair, PairGap, PairDone, Leftover, LeftoverDone, SaveFails
<1>4. PICK me \in HandlerState : me = handler[h]
    BY <1>2
<1>5. CASE Pop(h)
    <2>0. PICK reply \in ZPopMinReplies(handler[h].game) :
            /\ queue' = [queue EXCEPT ![handler[h].game] =
                        [v \in Users |-> IF \E k \in DOMAIN reply : reply[k].member = v
                                         THEN NoScore ELSE @[v]]]
            /\ handler' = [handler EXCEPT
                        ![h].pc = IF Len(reply) < 2 THEN "leftover" ELSE "pair",
                        ![h].cands = reply,
                        ![h].i = 1]
        BY <1>5 DEF Pop
    <2>1. handler'[h].cands = reply
        BY <1>2, <2>0 DEF HandlerState
    <2>2. me.game \in GameTypes
        BY <1>4, <1>5 DEF Pop, TypeOK
    <2>3. \A k \in 1 .. Len(reply) : reply[k].member \in Users /\ queue[me.game][reply[k].member] # NoScore
        BY <1>4, <2>2, ReplyType, ReplyQueued DEF Entry, Queued
    <2>4. \A g \in GameTypes : queue'[g][u] # NoScore => queue[g][u] # NoScore
        BY <1>4, <2>0, <2>2 DEF TypeOK
    <2>5. ASSUME NEW k \in Handlers, Holds(k, u)' PROVE Holds(k, u) \/ queue[me.game][u] # NoScore
        BY <1>3, <2>1, <2>3, <2>5 DEF Holds
    <2> QED
        BY <1>1, <2>2, <2>4, <2>5 DEF Asks, MatchesOf
<1>6. CASE ~Pop(h)
    <2>1. ASSUME NEW k \in Handlers, Holds(k, u)' PROVE Holds(k, u)
        <3>1. CASE k # h
            BY <1>3, <2>1, <3>1 DEF Holds
        <3>2. CASE k = h
            <4>1. handler'[h].cands = me.cands \/ handler'[h].cands = <<>>
                <5> USE <1>2, <1>4 DEF HandlerState, IdleHandler
                <5>1. CASE TooFew(h) \/ SaveFails(h)
                    BY <5>1 DEF TooFew, SaveFails
                <5>2. CASE LeftoverDone(h)
                    BY <5>2 DEF LeftoverDone
                <5>3. CASE Enough(h) \/ PairDone(h)
                    BY <5>3 DEF Enough, PairDone
                <5>4. CASE Pair(h) \/ PairGap(h)
                    BY ZenonT(30), <5>4 DEF Pair, PairGap
                <5>5. CASE Leftover(h)
                    BY <5>5 DEF Leftover
                <5> QED
                    BY <1>6, <5>1, <5>2, <5>3, <5>4, <5>5 DEF QueueStep
            <4> QED
                BY <1>4, <2>1, <3>2, <4>1 DEF Holds
        <3> QED
            BY <3>1, <3>2
    <2>2. ASSUME NEW g \in GameTypes, queue'[g][u] # NoScore PROVE Asks(u)
        <3>1. CASE UNCHANGED queue
            BY <2>2, <3>1 DEF Asks
        <3>2. CASE queue' = ZAdd(me.game, me.cands[me.i]) /\ me.i \in 1 .. Len(me.cands)
            <4>1. me.cands[me.i] \in Entry
                BY <1>4, <3>2 DEF HandlerState
            <4>2. PICK e \in Entry : e = me.cands[me.i]
                BY <4>1
            <4>3. queue[g][u] # NoScore \/ u = e.member
                BY <2>2, <3>2, <4>2 DEF ZAdd, TypeOK, Entry
            <4> QED
                BY <1>4, <3>2, <4>2, <4>3 DEF Asks, Holds
        <3>3. PairGap(h) \/ Leftover(h) => me.i \in 1 .. Len(me.cands)
            <4>1. me.i \in Nat \ {0} /\ Len(me.cands) \in Nat
                BY DEF HandlerState
            <4> QED
                BY <1>4, <4>1 DEF PairGap, Leftover, InPairLoop
        <3>4. \/ UNCHANGED queue
              \/ queue' = ZAdd(me.game, me.cands[me.i]) /\ me.i \in 1 .. Len(me.cands)
            BY <1>4, <1>6, <3>3 DEF QueueStep, TooFew, Enough, Pair, PairGap, PairDone, Leftover,
               LeftoverDone, SaveFails
        <3> QED
            BY <3>1, <3>2, <3>4
    <2> QED
        BY <1>1, <2>1, <2>2 DEF Asks, MatchesOf
<1> QED
    BY <1>5, <1>6

LEMMA SaveAsks ==
    ASSUME BInv, NEW h \in Handlers, Save(h), NEW u \in Users, Asks(u)' PROVE Asks(u)
<1>1. handler \in [Handlers -> HandlerState] /\ matches \in Seq(MatchType)
    BY DEF BInv, TypeOK, MatchType
<1>2. PICK me \in HandlerState : me = handler[h]
    BY <1>1
<1>3. /\ UNCHANGED queue /\ handler' = [handler EXCEPT ![h] = IdleHandler]
      /\ matches' = Append(matches, [game |-> me.game, users |-> me.matched])
    BY <1>2 DEF Save
<1>4. PICK match : match = [game |-> me.game, users |-> me.matched]
    OBVIOUS
<1>5. ASSUME NEW k \in Handlers, Holds(k, u)' PROVE Holds(k, u)
    BY <1>1, <1>3, <1>5 DEF Holds, IdleHandler
<1>6. match \in MatchType /\ match.users = me.matched
    <2>1. me.game \in GameTypes
        BY <1>2 DEF Save, BInv, TypeOK
    <2> QED
        BY <1>4, <2>1 DEF HandlerState, MatchType
<1>7. ASSUME NEW k \in MatchesOf(u)' PROVE Asks(u)
    <2>1. k \in 1 .. Len(matches) + 1 /\ InSeq(u, matches'[k].users)
        <3>1. Len(matches') = Len(matches) + 1
            BY <1>1, <1>3, <1>4, <1>6
        <3> QED
            BY <1>7, <3>1 DEF MatchesOf
    <2>2. CASE k \in 1 .. Len(matches)
        <3>1. matches'[k] = matches[k]
            BY <1>1, <1>3, <1>4, <1>6, <2>2
        <3> QED
            BY <2>1, <2>2, <3>1 DEF MatchesOf, Asks
    <2>3. CASE k = Len(matches) + 1
        <3>1. matches'[k] = match
            BY <1>1, <1>3, <1>4, <1>6, <2>3
        <3>2. PICK j \in 1 .. Len(me.matched) : me.matched[j] = u
            BY <1>6, <2>1, <3>1 DEF InSeq
        <3>3. Batch(me)
            BY <1>2 DEF BInv, HasBatch
        <3>4. \E q \in 1 .. Len(me.cands) : me.cands[q].member = u
            BY <3>2, <3>3 DEF Batch
        <3> QED
            BY <1>2, <3>4 DEF Asks, Holds
    <2> QED
        BY <1>1, <2>1, <2>2, <2>3
<1> QED
    BY <1>3, <1>5, <1>7 DEF Asks

LEMMA AllKnownInit == ASSUME GInit PROVE AllKnown
BY DEF GInit, Init, AllKnown, Asks, Holds, IdleHandler, MatchesOf, NoScore

LEMMA AllKnownStep ==
    ASSUME GTypeOK, BInv, AllKnown, [GNext]_allVars PROVE AllKnown'
<1>1. ASSUME NEW u \in Users, Asks(u)' PROVE Asks(u) \/ Known(u)
    <2>1. CASE UNCHANGED <<queue, handler, matches>>
        BY <1>1, <2>1 DEF Asks, Holds, MatchesOf
    <2>2. ASSUME NEW v \in Users, Leave(v) PROVE Asks(u)
        BY <1>1, <2>2 DEF Leave, Asks, Holds, MatchesOf, BInv, TypeOK
    <2>3. ASSUME NEW s \in Sockets, Open(s) \/ DropEarly(s) \/ Drop(s) \/ SocketStep(s)
          PROVE  UNCHANGED <<queue, handler, matches>> \/ \E v \in Users : Leave(v)
        BY <2>3, UserSocket DEF Open, DropEarly, Drop, SocketStep, Arrive, SetKey, ReadRoom, EndRoom, vars
    <2>4. ASSUME NEW h \in Handlers, NEW v \in Users, NEW g \in GameTypes, GRequest(h, v, g)
          PROVE  Asks(u) \/ Known(u)
        <3>1. CASE u = v
            <4>1. PICK n \in 1 .. MaxSockets : Usable(<<u, n>>)
                BY <2>4, <3>1 DEF GRequest, HasSocket
            <4> QED
                BY <4>1 DEF Usable, Known, Keyed
        <3>2. CASE u # v
            <4>1. \A k \in GameTypes : queue'[k][u] = queue[k][u]
                BY <2>4, <3>2 DEF GRequest, Request, ZAdd, BInv, TypeOK
            <4>2. \A k \in Handlers : Holds(k, u)' => Holds(k, u)
                BY <2>4 DEF GRequest, Request, Holds, IdleHandler, BInv, TypeOK
            <4>3. UNCHANGED matches
                BY <2>4 DEF GRequest, Request
            <4> QED
                BY <1>1, <4>1, <4>2, <4>3 DEF Asks, MatchesOf
        <3> QED
            BY <3>1, <3>2
    <2>5. ASSUME NEW v \in Users, NEW g \in GameTypes, GCancel(v, g) PROVE Asks(u)
        BY <1>1, <2>5 DEF GCancel, Cancel, ZRem, Asks, Holds, MatchesOf, BInv, TypeOK
    <2>6. ASSUME NEW h \in Handlers, GHandlerStep(h) PROVE Asks(u)
        BY <1>1, <2>6, AsksOn, SaveAsks DEF GHandlerStep, GSave, BInv
    <2>7. ASSUME NEW k \in 1 .. Len(job), JobStep(k) PROVE UNCHANGED <<queue, handler, matches>>
        BY <2>7 DEF JobStep, NotifyRead, NotifyJoin, NotifyKey, TellRead, TellEmit, TellFails, vars
    <2>8. CASE GCrash
        <3>1. ASSUME NEW h \in Handlers PROVE ~Holds(h, u)'
            <4>1. handler'[h] = IdleHandler
                BY <2>8 DEF GCrash, Crash
            <4> QED
                BY <4>1 DEF Holds, IdleHandler
        <3> QED
            BY <1>1, <2>8, <3>1 DEF GCrash, Crash, Asks, MatchesOf
    <2> QED
        BY <2>1, <2>2, <2>3, <2>4, <2>5, <2>6, <2>7, <2>8 DEF GNext, Tick, allVars, vars
<1> QED
    BY <1>1, KnownStays DEF AllKnown
-----------------------------------------------------------------------------
(* What a step of a notification does                                      *)

LEMMA MatchFacts ==
    ASSUME GInv, NEW k \in 1 .. Len(job)
    PROVE  /\ k \in Nat \ {0} /\ k \in 1 .. Len(matches) /\ MatchUsers(k) = matches[k].users
           /\ MatchUsers(k) \in Seq(Users) /\ Len(MatchUsers(k)) \in Nat
           /\ \A i \in 1 .. Len(MatchUsers(k)) :
                 MatchUsers(k)[i] \in Users /\ k \in MatchesOf(MatchUsers(k)[i])
<1>1. matches \in Seq(MatchType) /\ k \in 1 .. Len(matches) /\ k \in Nat \ {0}
    BY DEF GInv, GTypeOK, TypeOK, MatchType
<1>2. matches[k] \in MatchType
    BY <1>1
<1>3. MatchUsers(k) \in Seq(Users) /\ MatchUsers(k) = matches[k].users
    BY <1>2 DEF MatchUsers, MatchType
<1>4. PICK users \in Seq(Users) : users = MatchUsers(k)
    BY <1>3
<1>5. ASSUME NEW i \in 1 .. Len(users) PROVE users[i] \in Users /\ k \in MatchesOf(users[i])
    BY <1>1, <1>3, <1>4 DEF MatchesOf, InSeq
<1> QED
    BY <1>1, <1>3, <1>4, <1>5

LEMMA PlaysFacts ==
    ASSUME GInv, NEW u, NEW k, NEW i, Plays(u, k, i) PROVE u \in Users /\ k \in MatchesOf(u)
BY MatchFacts DEF Plays

LEMMA JobShape ==
    ASSUME GInv, NEW k \in 1 .. Len(job), JobStep(k)
    PROVE  /\ job \in Seq(JobType) /\ job[k] \in JobType
           /\ Len(job') = Len(job)
           /\ \A q \in 1 .. Len(job) : q # k => job'[q] = job[q]
           /\ UNCHANGED <<matches, sock, socketKey, overlap, ended>>
<1>1. job \in Seq(JobType)
    BY DEF GInv, GTypeOK, JobType
<1>2. job[k] \in JobType
    BY <1>1
<1>3. Len(job') = Len(job) /\ \A q \in 1 .. Len(job) : q # k => job'[q] = job[q]
    BY <1>1 DEF JobStep, NotifyRead, NotifyJoin, NotifyKey, TellRead, TellEmit, TellFails
<1> QED
    BY <1>1, <1>2, <1>3 DEF JobStep, NotifyRead, NotifyJoin, NotifyKey, TellRead, TellEmit, TellFails,
       vars

LEMMA ReadFields ==
    ASSUME GInv, NEW k \in 1 .. Len(job), NotifyRead(k)
    PROVE  /\ job[k].pc = "read" /\ job'[k].at = job[k].at
           /\ job'[k].ids = {socketKey[MatchUsers(k)[i]] : i \in DOMAIN MatchUsers(k)} \ {NoSocket}
           /\ job'[k].pc = IF job'[k].ids = {} THEN "tell" ELSE "join"
           /\ UNCHANGED <<roomKey, rooms, told>>
<1>1. job \in Seq(JobType) /\ job[k] \in JobType
    BY JobShape DEF JobStep
<1>2. PICK ids : ids = {socketKey[MatchUsers(k)[i]] : i \in DOMAIN MatchUsers(k)} \ {NoSocket}
    OBVIOUS
<1>3. PICK pc : pc = IF ids = {} THEN "tell" ELSE "join"
    OBVIOUS
<1>4. job' = [job EXCEPT ![k] = [job[k] EXCEPT !.ids = ids, !.pc = pc]]
    BY <1>1, <1>2, <1>3 DEF NotifyRead
<1>5. job'[k].at = job[k].at /\ job'[k].ids = ids /\ job'[k].pc = pc
    BY <1>1, <1>4 DEF JobType
<1> QED
    BY <1>2, <1>3, <1>5 DEF NotifyRead

LEMMA JoinFields ==
    ASSUME GInv, NEW k \in 1 .. Len(job), NotifyJoin(k)
    PROVE  /\ job[k].pc = "join" /\ job'[k].pc = "keys" /\ job'[k].at = job[k].at
           /\ rooms' = rooms \union {<<s, k>> : s \in {t \in job[k].ids : sock[t].live}}
           /\ UNCHANGED <<roomKey, told>>
<1>1. job \in Seq(JobType) /\ job[k] \in JobType
    BY JobShape DEF JobStep
<1> QED
    BY <1>1 DEF NotifyJoin, JobType

LEMMA KeyFields ==
    ASSUME GInv, NEW k \in 1 .. Len(job), NotifyKey(k)
    PROVE  /\ job[k].pc = "keys"
           /\ job'[k].pc = IF LastUser(k) THEN "tell" ELSE "keys"
           /\ job'[k].at = IF LastUser(k) THEN 1 ELSE job[k].at + 1
           /\ roomKey' = [roomKey EXCEPT ![MatchUsers(k)[job[k].at]] = k]
           /\ UNCHANGED <<rooms, told>>
<1>1. job \in Seq(JobType) /\ job[k] \in JobType
    BY JobShape DEF JobStep
<1>2. PICK last \in BOOLEAN : last <=> LastUser(k)
    OBVIOUS
<1>3. PICK pc : pc = IF last THEN "tell" ELSE "keys"
    OBVIOUS
<1>4. PICK at : at = IF last THEN 1 ELSE job[k].at + 1
    OBVIOUS
<1>5. job' = [job EXCEPT ![k] = [job[k] EXCEPT !.pc = pc, !.at = at]]
    BY <1>1, <1>2, <1>3, <1>4 DEF NotifyKey
<1>6. job'[k].pc = pc /\ job'[k].at = at
    BY <1>1, <1>5 DEF JobType
<1> QED
    BY <1>2, <1>3, <1>4, <1>6 DEF NotifyKey

LEMMA TellFields ==
    ASSUME GInv, NEW k \in 1 .. Len(job), TellRead(k)
    PROVE  /\ job[k].pc = "tell"
           /\ job'[k].to = socketKey[MatchUsers(k)[job[k].at]]
           /\ job'[k].pc = IF job'[k].to # NoSocket THEN "emit"
                           ELSE IF LastUser(k) THEN "done" ELSE "tell"
           /\ job'[k].at = IF job'[k].to = NoSocket /\ ~LastUser(k) THEN job[k].at + 1 ELSE job[k].at
           /\ UNCHANGED <<roomKey, rooms, told>>
<1>1. job \in Seq(JobType) /\ job[k] \in JobType
    BY JobShape DEF JobStep
<1>2. PICK last \in BOOLEAN : last <=> LastUser(k)
    OBVIOUS
<1>3. PICK to : to = socketKey[MatchUsers(k)[job[k].at]]
    OBVIOUS
<1>4. PICK pc : pc = IF to # NoSocket THEN "emit" ELSE IF last THEN "done" ELSE "tell"
    OBVIOUS
<1>5. PICK at : at = IF to = NoSocket /\ ~last THEN job[k].at + 1 ELSE job[k].at
    OBVIOUS
<1>6. job' = [job EXCEPT ![k] = [job[k] EXCEPT !.to = to, !.pc = pc, !.at = at]]
    BY <1>1, <1>2, <1>3, <1>4, <1>5 DEF TellRead
<1>7. job'[k].to = to /\ job'[k].pc = pc /\ job'[k].at = at
    BY <1>1, <1>6 DEF JobType
<1> QED
    BY <1>2, <1>3, <1>4, <1>5, <1>7 DEF TellRead

LEMMA EmitFields ==
    ASSUME GInv, NEW k \in 1 .. Len(job), TellEmit(k)
    PROVE  /\ job[k].pc = "emit"
           /\ told' = IF sock[job[k].to].live THEN told \union {<<job[k].to, k>>} ELSE told
           /\ job'[k].pc = IF LastUser(k) THEN "done" ELSE "tell"
           /\ job'[k].at = IF LastUser(k) THEN job[k].at ELSE job[k].at + 1
           /\ UNCHANGED <<roomKey, rooms>>
<1>1. job \in Seq(JobType) /\ job[k] \in JobType
    BY JobShape DEF JobStep
<1>2. PICK last \in BOOLEAN : last <=> LastUser(k)
    OBVIOUS
<1>3. PICK pc : pc = IF last THEN "done" ELSE "tell"
    OBVIOUS
<1>4. PICK at : at = IF last THEN job[k].at ELSE job[k].at + 1
    OBVIOUS
<1>5. job' = [job EXCEPT ![k] = [job[k] EXCEPT !.pc = pc, !.at = at]]
    BY <1>1, <1>2, <1>3, <1>4 DEF TellEmit
<1>6. job'[k].pc = pc /\ job'[k].at = at
    BY <1>1, <1>5 DEF JobType
<1> QED
    BY <1>2, <1>3, <1>4, <1>6 DEF TellEmit

LEMMA FailFields ==
    ASSUME GInv, NEW k \in 1 .. Len(job), TellFails(k)
    PROVE  /\ job[k].pc = "emit" /\ job'[k].pc = "failed"
           /\ UNCHANGED <<roomKey, rooms, told>>
<1>1. job \in Seq(JobType) /\ job[k] \in JobType
    BY JobShape DEF JobStep
<1> QED
    BY <1>1 DEF TellFails, JobType

\* A new match leaves the matches and notifications before it as they are.
LEMMA SaveFields ==
    ASSUME GInv, NEW h \in Handlers, GSave(h)
    PROVE  /\ Len(job) = Len(matches) /\ Len(job) \in Nat
           /\ Len(job') = Len(job) + 1 /\ Len(matches') = Len(job) + 1
           /\ \A k \in 1 .. Len(job) : job'[k] = job[k] /\ matches'[k] = matches[k]
           /\ job'[Len(job) + 1].pc = "read"
           /\ UNCHANGED <<sock, socketKey, roomKey, rooms, overlap, told, ended>>
<1>1. matches \in Seq(MatchType) /\ job \in Seq(JobType) /\ Len(job) = Len(matches) /\ Len(job) \in Nat
    BY DEF GInv, GTypeOK, TypeOK, MatchType, JobType
<1>2. PICK j : j = [pc |-> "read", ids |-> {}, at |-> 1, to |-> NoSocket]
    OBVIOUS
<1>3. PICK match : match = [game |-> handler[h].game, users |-> handler[h].matched]
    OBVIOUS
<1>4. job' = Append(job, j) /\ matches' = Append(matches, match)
    BY <1>2, <1>3 DEF GSave, Save
<1>5. /\ Len(job') = Len(job) + 1 /\ job'[Len(job) + 1] = j
      /\ \A k \in 1 .. Len(job) : job'[k] = job[k]
    BY <1>1, <1>4
<1>6. Len(matches') = Len(matches) + 1 /\ \A k \in 1 .. Len(matches) : matches'[k] = matches[k]
    BY <1>1, <1>4
<1> QED
    BY <1>1, <1>2, <1>5, <1>6 DEF GSave
-----------------------------------------------------------------------------
(* Undisturbed users are told                                              *)

LEMMA MatchesMore ==
    ASSUME GInv, [GNext]_allVars
    PROVE  /\ \A k \in 1 .. Len(job) : k \in 1 .. Len(job') /\ matches'[k] = matches[k]
           /\ \A u, k : k \in MatchesOf(u) => k \in MatchesOf(u)'
           /\ \A k \in 1 .. Len(job') : k \in 1 .. Len(job) \/ job'[k].pc = "read"
<1>0. Len(job) = Len(matches) /\ Len(job) \in Nat
    BY DEF GInv, GTypeOK, TypeOK
<1>1. CASE UNCHANGED matches /\ Len(job') = Len(job)
    BY <1>1 DEF MatchesOf
<1>2. ASSUME NEW h \in Handlers, GSave(h)
      PROVE  /\ \A k \in 1 .. Len(job) : k \in 1 .. Len(job') /\ matches'[k] = matches[k]
             /\ \A u, k : k \in MatchesOf(u) => k \in MatchesOf(u)'
             /\ \A k \in 1 .. Len(job') : k \in 1 .. Len(job) \/ job'[k].pc = "read"
    BY <1>0, <1>2, SaveFields DEF MatchesOf
<1>3. ASSUME NEW s \in Sockets, Open(s) \/ DropEarly(s) \/ Drop(s) \/ SocketStep(s)
      PROVE  UNCHANGED <<matches, job>>
    BY <1>3 DEF Open, DropEarly, Drop, SocketStep, Arrive, SetKey, ReadRoom, EndRoom, Leave, vars
<1>4. CASE GCrash
    <2>1. Len(job') = Len(job)
        <3>1. job \in Seq(JobType)
            BY DEF GInv, GTypeOK, JobType
        <3>2. PICK n \in Nat : n = Len(job) /\ DOMAIN job = 1 .. n
            BY <3>1
        <3>3. DOMAIN job' = 1 .. n
            BY <1>4, <3>2 DEF GCrash
        <3>4. job' \in Seq(JobType)
            BY <1>4, GTypeCrash DEF GTypeOK, JobType
        <3> QED
            BY <3>2, <3>3, <3>4
    <2> QED
        BY <1>1, <1>4, <2>1 DEF GCrash, Crash
<1> QED
    BY <1>1, <1>2, <1>3, <1>4, Sides, JobShape DEF gateway

\* The users of a match do not change, and a new match is to be notified of.
LEMMA PlaysBack ==
    ASSUME GInv, [GNext]_allVars, NEW u, NEW k, NEW i, Plays(u, k, i)'
    PROVE  Plays(u, k, i) \/ job'[k].pc = "read"
<1>1. CASE k \in 1 .. Len(job)
    BY <1>1, MatchesMore DEF Plays, MatchUsers
<1>2. CASE k \notin 1 .. Len(job)
    BY <1>2, MatchesMore DEF Plays
<1> QED
    BY <1>1, <1>2

LEMMA SoleBack ==
    ASSUME GInv, Opening, AllKnown, [GNext]_allVars, NEW u \in Users, NEW k \in MatchesOf(u)
    PROVE  /\ Sole(u, k)' => Sole(u, k)
           /\ Still(u)' => Still(u)
           /\ Only(u)' => Keyed(<<u, 1>>)
<1>1. Known(u)
    BY DEF AllKnown, Asks
<1>2. MatchesOf(u) \subseteq MatchesOf(u)'
    BY MatchesMore
<1>3. GTypeOK
    BY DEF GInv
<1> QED
    BY <1>1, <1>2, <1>3, Back DEF Sole

\* A user who is still there can be found.
LEMMA StillFound ==
    ASSUME GInv, Alone, Opening, NEW u \in Users, Still(u)
    PROVE  /\ <<u, 1>> \in Sockets /\ socketKey[u] = <<u, 1>> /\ <<u, 1>> # NoSocket
           /\ sock[<<u, 1>>].live /\ sock[<<u, 1>>].pc = "up"
<1>1. 1 \in Opened(u) /\ \A n \in Opened(u) : n = 1
    BY DEF Still, Only
<1>2. <<u, 1>> \in Sockets
    BY <1>1 DEF Opened, Sockets
<1>3. u \notin overlap
    BY <1>1 DEF Opening
<1>4. <<u, 1>>[1] = u /\ Usable(<<u, 1>>)
    BY DEF Still
<1>5. socketKey[u] = <<u, 1>>
    BY <1>2, <1>3, <1>4 DEF Alone, SocketReachable
<1> QED
    BY <1>2, <1>4, <1>5 DEF Usable, NoSocket

\* The notification of the match comes to its i-th user in time.
LEMMA ReachedByJob ==
    ASSUME GInv, Alone, Opening, NEW k \in 1 .. Len(job), JobStep(k), NEW u, NEW i,
           Plays(u, k, i), Still(u), Reached(k, i, u)
    PROVE  Reached(k, i, u)'
<1>1. u \in Users /\ i \in 1 .. Len(MatchUsers(k)) /\ MatchUsers(k)[i] = u
    BY PlaysFacts DEF Plays
<1>2. /\ <<u, 1>> \in Sockets /\ socketKey[u] = <<u, 1>> /\ <<u, 1>> # NoSocket
      /\ sock[<<u, 1>>].live
    BY <1>1, StillFound
<1>3. /\ job[k].at \in Nat \ {0}
      /\ job[k].pc \in {"read", "join", "keys", "tell", "emit"} => job[k].at \in 1 .. Len(MatchUsers(k))
      /\ job[k].pc \in {"read", "join"} => job[k].at = 1
    BY JobShape DEF GInv, Notifying, Ready, JobType
<1>4. i \in Nat /\ Len(MatchUsers(k)) \in Nat /\ i <= Len(MatchUsers(k)) /\ i >= 1 /\ k # NoRoom
    BY <1>1, MatchFacts DEF NoRoom
<1>5. roomKey \in [Users -> Nat]
    BY DEF GInv, GTypeOK
<1>6. CASE NotifyRead(k)
    <2>1. <<u, 1>> \in job'[k].ids
        <3>1. MatchUsers(k) \in Seq(Users)
            BY MatchFacts
        <3>2. i \in DOMAIN MatchUsers(k)
            BY <1>1, <3>1
        <3> QED
            BY <1>1, <1>2, <1>6, <3>2, ReadFields
    <2>2. job'[k].pc = "join"
        BY <1>6, <2>1, ReadFields
    <2> QED
        BY <2>1, <2>2 DEF Reached, KeysPast, TellsPast
<1>7. CASE NotifyJoin(k)
    <2>1. <<<<u, 1>>, k>> \in rooms'
        BY <1>2, <1>7, JoinFields DEF Reached
    <2>2. job'[k].pc = "keys" /\ job'[k].at = 1
        BY <1>3, <1>7, JoinFields
    <2> QED
        BY <1>4, <2>1, <2>2 DEF Reached, KeysPast, TellsPast
<1>8. CASE NotifyKey(k)
    <2>1. <<<<u, 1>>, k>> \in rooms'
        BY <1>8, KeyFields DEF Reached
    <2>2. i < job[k].at => roomKey[u] # NoRoom
        BY <1>8, KeyFields DEF Reached, KeysPast
    <2>3. i <= job[k].at => roomKey'[u] # NoRoom
        BY <1>1, <1>3, <1>4, <1>5, <1>8, <2>2, KeyFields
    <2>4. CASE LastUser(k)
        <3>1. job'[k].pc = "tell" /\ job'[k].at = 1 /\ i <= job[k].at
            BY <1>4, <1>8, <2>4, KeyFields DEF LastUser
        <3> QED
            BY <1>4, <2>1, <2>3, <3>1 DEF Reached, TellsPast
    <2>5. CASE ~LastUser(k)
        <3>1. job'[k].pc = "keys" /\ job'[k].at = job[k].at + 1
            BY <1>8, <2>5, KeyFields
        <3> QED
            BY <1>3, <1>4, <2>1, <2>3, <3>1 DEF Reached, KeysPast, TellsPast
    <2> QED
        BY <2>4, <2>5
<1>9. CASE TellRead(k)
    <2>1. /\ <<<<u, 1>>, k>> \in rooms' /\ roomKey'[u] # NoRoom
          /\ i < job[k].at => <<<<u, 1>>, k>> \in told'
        BY <1>9, TellFields DEF Reached, KeysPast, TellsPast
    <2>2. i = job[k].at => job'[k].to = <<u, 1>>
        BY <1>1, <1>2, <1>9, TellFields
    <2>3. CASE job'[k].to # NoSocket
        <3>1. job'[k].pc = "emit" /\ job'[k].at = job[k].at
            BY <1>9, <2>3, TellFields
        <3> QED
            BY <2>1, <2>2, <3>1 DEF Reached, TellsPast
    <2>4. CASE job'[k].to = NoSocket
        <3>1. i # job[k].at
            BY <1>2, <2>2, <2>4
        <3>2. CASE LastUser(k)
            <4>1. job'[k].pc = "done" /\ i < job[k].at
                BY <1>3, <1>4, <1>9, <2>4, <3>1, <3>2, TellFields DEF LastUser
            <4> QED
                BY <2>1, <4>1 DEF Reached, TellsPast
        <3>3. CASE ~LastUser(k)
            <4>1. job'[k].pc = "tell" /\ job'[k].at = job[k].at + 1
                BY <1>9, <2>4, <3>3, TellFields
            <4>2. i < job'[k].at => i < job[k].at
                BY <1>3, <1>4, <3>1, <4>1
            <4> QED
                BY <2>1, <4>1, <4>2 DEF Reached, TellsPast
        <3> QED
            BY <3>2, <3>3
    <2> QED
        BY <2>3, <2>4
<1>10. CASE TellEmit(k)
    <2>1. /\ <<<<u, 1>>, k>> \in rooms' /\ roomKey'[u] # NoRoom
          /\ i < job[k].at => <<<<u, 1>>, k>> \in told
          /\ i = job[k].at => job[k].to = <<u, 1>>
        BY <1>10, EmitFields DEF Reached, KeysPast, TellsPast
    <2>2. i <= job[k].at => <<<<u, 1>>, k>> \in told'
        BY <1>2, <1>3, <1>4, <1>10, <2>1, EmitFields
    <2>3. CASE LastUser(k)
        <3>1. job'[k].pc = "done" /\ i <= job[k].at
            BY <1>4, <1>10, <2>3, EmitFields DEF LastUser
        <3> QED
            BY <2>1, <2>2, <3>1 DEF Reached, KeysPast, TellsPast
    <2>4. CASE ~LastUser(k)
        <3>1. job'[k].pc = "tell" /\ job'[k].at = job[k].at + 1
            BY <1>10, <2>4, EmitFields
        <3>2. i < job'[k].at => i <= job[k].at
            BY <1>3, <1>4, <3>1
        <3> QED
            BY <2>1, <2>2, <3>1, <3>2 DEF Reached, KeysPast, TellsPast
    <2> QED
        BY <2>3, <2>4
<1>11. CASE TellFails(k)
    BY <1>11, FailFields DEF Reached, KeysPast, TellsPast
<1> QED
    BY <1>6, <1>7, <1>8, <1>9, <1>10, <1>11 DEF JobStep
\* What the notification of another match does: it takes back nothing.
LEMMA OtherJob ==
    ASSUME GInv, NEW q \in 1 .. Len(job), JobStep(q)
    PROVE  /\ rooms \subseteq rooms' /\ told \subseteq told'
           /\ \A k : k # q => {m \in rooms' : m[2] = k} = {m \in rooms : m[2] = k}
           /\ job[q].pc # "join" => rooms' = rooms
           /\ \/ UNCHANGED roomKey
              \/ NotifyKey(q) /\ roomKey' = [roomKey EXCEPT ![MatchUsers(q)[job[q].at]] = q]
BY SMTT(30) DEF JobStep, NotifyRead, NotifyJoin, NotifyKey, TellRead, TellEmit, TellFails

LEMMA CrashDead ==
    ASSUME GTypeOK, GCrash, NEW s \in Sockets
    PROVE  sock'[s].live = FALSE /\ sock'[s].pc \in {"off", "lost"}
<1>1. sock' = [t \in Sockets |->
                    [sock[t] EXCEPT !.pc = IF @ = "off" THEN "off" ELSE "lost", !.live = FALSE]]
    BY DEF GCrash
<1>2. PICK c \in SocketType : c = sock[s]
    BY DEF GTypeOK, SocketType
<1>3. PICK pc \in {"off", "lost"} : pc = IF c.pc = "off" THEN "off" ELSE "lost"
    OBVIOUS
<1>4. sock'[s] = [c EXCEPT !.pc = pc, !.live = FALSE]
    BY <1>1, <1>2, <1>3 DEF SocketType
<1> QED
    BY <1>4 DEF SocketType

LEMMA ReachedStays ==
    ASSUME GInv, Alone, Opening, [GNext]_allVars, NEW u, NEW k, NEW i,
           Plays(u, k, i), Still(u), Still(u)', Reached(k, i, u)
    PROVE  Reached(k, i, u)'
<1>1. u \in Users /\ k \in 1 .. Len(job)
    BY PlaysFacts DEF Plays
<1>2. <<u, 1>> \in Sockets /\ sock[<<u, 1>>].pc = "up" /\ sock'[<<u, 1>>].live
    BY <1>1, StillFound DEF Still, Usable
<1>3. ASSUME UNCHANGED <<job, roomKey, rooms, told>> PROVE Reached(k, i, u)'
    BY <1>3 DEF Reached, KeysPast, TellsPast
<1>4. sock \in [Sockets -> SocketType] /\ roomKey \in [Users -> Nat]
    BY DEF GInv, GTypeOK, SocketType
<1>5. ASSUME NEW s \in Sockets, Drop(s) PROVE Reached(k, i, u)'
    <2>1. sock'[s].live = FALSE /\ rooms' = {m \in rooms : m[1] # s} /\ UNCHANGED <<job, roomKey, told>>
        BY <1>4, <1>5 DEF Drop, SocketType
    <2>2. s # <<u, 1>>
        BY <1>2, <2>1
    <2> QED
        BY <2>1, <2>2 DEF Reached, KeysPast, TellsPast
<1>6. ASSUME NEW s \in Sockets, EndRoom(s) PROVE Reached(k, i, u)'
    <2>1. s[1] # u
        <3>1. ASSUME s[1] = u PROVE FALSE
            <4>1. s = <<u, 1>>
                BY <1>6, <3>1, OnlySocket DEF EndRoom, Still, GInv
            <4> QED
                BY <1>2, <1>6, <4>1 DEF EndRoom
        <3> QED
            BY <3>1
    <2>2. s[1] \in Users
        BY UserSocket
    <2>3. roomKey'[u] = roomKey[u] /\ UNCHANGED <<job, rooms, told>>
        BY <1>1, <1>4, <1>6, <2>1, <2>2 DEF EndRoom
    <2> QED
        BY <2>3 DEF Reached, KeysPast, TellsPast
<1>7. ASSUME NEW s \in Sockets, Open(s) \/ DropEarly(s) \/ Arrive(s) \/ SetKey(s) \/ ReadRoom(s)
      PROVE  UNCHANGED <<job, roomKey, rooms, told>>
    BY <1>7 DEF Open, DropEarly, Arrive, SetKey, ReadRoom
<1>8. ASSUME NEW q \in 1 .. Len(job), JobStep(q) PROVE Reached(k, i, u)'
    <2>1. CASE q = k
        BY <1>8, <2>1, ReachedByJob
    <2>2. CASE q # k
        <3>1. job'[k] = job[k]
            BY <1>1, <1>8, <2>2, JobShape
        <3>2. rooms \subseteq rooms' /\ told \subseteq told'
            BY <1>8, OtherJob
        <3>3. roomKey[u] # NoRoom => roomKey'[u] # NoRoom
            <4>1. q # NoRoom
                BY MatchFacts DEF NoRoom
            <4> QED
                BY <1>1, <1>4, <1>8, <4>1, OtherJob
        <3> QED
            BY <3>1, <3>2, <3>3 DEF Reached, KeysPast, TellsPast
    <2> QED
        BY <2>1, <2>2
<1>9. ASSUME NEW h \in Handlers, GSave(h) PROVE Reached(k, i, u)'
    <2>1. job'[k] = job[k] /\ UNCHANGED <<roomKey, rooms, told>>
        BY <1>1, <1>9, SaveFields
    <2> QED
        BY <2>1 DEF Reached, KeysPast, TellsPast
<1>10. ~GCrash
    BY <1>2, CrashDead DEF GInv
<1> QED
    BY <1>3, <1>5, <1>6, <1>7, <1>8, <1>9, <1>10, Sides DEF gateway, SocketStep

LEMMA ReachingStep ==
    ASSUME GInv, Alone, Opening, AllKnown, Reaching, [GNext]_allVars PROVE Reaching'
<1> SUFFICES ASSUME NEW u \in Users, NEW k \in Nat, NEW i \in Nat, Plays(u, k, i)', Still(u)'
             PROVE  Reached(k, i, u)'
    BY DEF Reaching
<1>1. CASE Plays(u, k, i)
    <2>1. k \in MatchesOf(u)
        BY <1>1, PlaysFacts
    <2>2. Still(u)
        BY <2>1, SoleBack
    <2>3. Reached(k, i, u)
        BY <1>1, <2>2 DEF Reaching
    <2> QED
        BY <1>1, <2>2, <2>3, ReachedStays
<1>2. CASE job'[k].pc = "read"
    BY <1>2 DEF Reached, KeysPast, TellsPast
<1> QED
    BY <1>1, <1>2, PlaysBack

\* A notification does not pass a user who is still there without their room
\* key set, so with one match they have that one's.
LEMMA RoomKeptStep ==
    ASSUME GInv, Alone, Opening, AllKnown, RoomKept, [GNext]_allVars PROVE RoomKept'
<1> SUFFICES ASSUME NEW u \in Users, NEW k \in Nat, NEW i \in Nat, Plays(u, k, i)',
                    KeysPast(job'[k], i), Sole(u, k)', Still(u)'
             PROVE  roomKey'[u] = k
    BY DEF RoomKept
<1>1. Plays(u, k, i)
    BY PlaysBack DEF KeysPast
<1>2. k \in MatchesOf(u) /\ k \in 1 .. Len(job) /\ i \in 1 .. Len(MatchUsers(k)) /\ MatchUsers(k)[i] = u
    BY <1>1, PlaysFacts DEF Plays
<1>3. Sole(u, k) /\ Still(u)
    BY <1>2, SoleBack
<1>4. KeysPast(job[k], i) => roomKey[u] = k
    BY <1>1, <1>3 DEF RoomKept
<1>5. /\ <<u, 1>> \in Sockets /\ socketKey[u] = <<u, 1>> /\ <<u, 1>> # NoSocket
      /\ sock[<<u, 1>>].pc = "up"
    BY <1>3, StillFound
<1>6. roomKey \in [Users -> Nat]
    BY DEF GInv, GTypeOK
<1>7. ASSUME NEW s \in Sockets, EndRoom(s) PROVE roomKey'[u] = roomKey[u] /\ UNCHANGED job
    <2>1. s[1] # u
        <3>1. ASSUME s[1] = u PROVE FALSE
            <4>1. s = <<u, 1>>
                BY <1>3, <1>7, <3>1, OnlySocket DEF EndRoom, Still, GInv
            <4> QED
                BY <1>5, <1>7, <4>1 DEF EndRoom
        <3> QED
            BY <3>1
    <2> QED
        BY <1>6, <1>7, <2>1, UserSocket DEF EndRoom
<1>8. ASSUME NEW s \in Sockets, Open(s) \/ DropEarly(s) \/ Drop(s) \/ Arrive(s) \/ SetKey(s) \/ ReadRoom(s)
      PROVE  UNCHANGED <<job, roomKey>>
    BY <1>8 DEF Open, DropEarly, Drop, Arrive, SetKey, ReadRoom
<1>9. ASSUME NEW q \in 1 .. Len(job), JobStep(q) PROVE roomKey'[u] = k
    <2>1. \/ NotifyKey(q) /\ MatchUsers(q)[job[q].at] = u /\ roomKey'[u] = q
          \/ roomKey'[u] = roomKey[u] /\ ~(NotifyKey(q) /\ MatchUsers(q)[job[q].at] = u)
        BY <1>6, <1>9, OtherJob, KeyFields
    <2>2. CASE NotifyKey(q) /\ MatchUsers(q)[job[q].at] = u /\ roomKey'[u] = q
        <3>1. job[q].at \in 1 .. Len(MatchUsers(q))
            BY <2>2, KeyFields DEF GInv, Notifying, Ready
        <3>2. q \in MatchesOf(u)
            BY <2>2, <3>1, MatchFacts
        <3> QED
            BY <1>3, <2>2, <3>2 DEF Sole
    <2>3. CASE roomKey'[u] = roomKey[u] /\ ~(NotifyKey(q) /\ MatchUsers(q)[job[q].at] = u)
        <3>1. CASE q # k
            BY <1>2, <1>4, <1>9, <2>3, <3>1, JobShape
        <3>2. CASE q = k
            <4>0. /\ job[k].at \in Nat \ {0} /\ i \in Nat /\ Len(MatchUsers(k)) \in Nat
                  /\ i <= Len(MatchUsers(k))
                BY <1>2, <1>9, <3>2, JobShape, MatchFacts DEF JobType
            <4>1. ~NotifyRead(k)
                <5>1. ASSUME NotifyRead(k) PROVE FALSE
                    <6>1. MatchUsers(k) \in Seq(Users)
                        BY <1>2, MatchFacts
                    <6>2. i \in DOMAIN MatchUsers(k)
                        BY <1>2, <6>1
                    <6>3. <<u, 1>> \in job'[k].ids
                        BY <1>2, <1>5, <5>1, <6>2, ReadFields
                    <6>4. job'[k].pc = "join"
                        BY <1>2, <5>1, <6>3, ReadFields
                    <6> QED
                        BY <6>4 DEF KeysPast
                <5> QED
                    BY <5>1
            <4>2. ~NotifyJoin(k)
                <5>1. ASSUME NotifyJoin(k) PROVE FALSE
                    <6>1. job'[k].pc = "keys" /\ job'[k].at = 1
                        BY <1>2, <5>1, JoinFields DEF GInv, Notifying, Ready
                    <6> QED
                        BY <1>2, <4>0, <6>1 DEF KeysPast
                <5> QED
                    BY <5>1
            <4>3. CASE NotifyKey(k)
                <5>1. i # job[k].at
                    BY <1>2, <2>3, <3>2, <4>3
                <5>2. i < job[k].at
                    BY <1>2, <4>0, <4>3, <5>1, KeyFields DEF KeysPast, LastUser
                <5> QED
                    BY <1>2, <1>4, <2>3, <4>3, <5>2, KeyFields DEF KeysPast
            <4>4. CASE TellRead(k)
                BY <1>2, <1>4, <2>3, <4>4, TellFields DEF KeysPast
            <4>5. CASE TellEmit(k)
                BY <1>2, <1>4, <2>3, <4>5, EmitFields DEF KeysPast
            <4>6. CASE TellFails(k)
                BY <1>2, <1>4, <2>3, <4>6, FailFields DEF KeysPast
            <4> QED
                BY <1>9, <3>2, <4>1, <4>2, <4>3, <4>4, <4>5, <4>6 DEF JobStep
        <3> QED
            BY <3>1, <3>2
    <2> QED
        BY <2>1, <2>2, <2>3
<1>10. ASSUME NEW h \in Handlers, GSave(h) PROVE job'[k] = job[k] /\ UNCHANGED roomKey
    BY <1>2, <1>10, SaveFields
<1>11. ~GCrash
    <2>1. sock'[<<u, 1>>].live
        BY DEF Still, Usable
    <2> QED
        BY <1>5, <2>1, CrashDead DEF GInv
<1> QED
    BY <1>4, <1>7, <1>8, <1>9, <1>10, <1>11, Sides DEF gateway, SocketStep
-----------------------------------------------------------------------------
(* Whoever was told takes the match to its end                             *)

LEMMA CrashJobs ==
    ASSUME GTypeOK, GCrash, NEW k \in 1 .. Len(job)
    PROVE  /\ job'[k].pc \in {"done", "failed"}
           /\ job[k].pc = "done" => job'[k].pc = "done"
<1>1. job \in Seq(JobType)
    BY DEF GTypeOK, JobType
<1>2. PICK j \in JobType : j = job[k]
    BY <1>1
<1>3. k \in DOMAIN job
    BY <1>1
<1>4. PICK pc \in {"done", "failed"} : pc = IF j.pc = "done" THEN "done" ELSE "failed"
    OBVIOUS
<1>5. job'[k] = [j EXCEPT !.pc = pc]
    BY <1>2, <1>3, <1>4 DEF GCrash, JobType
<1>6. job'[k].pc = pc
    BY <1>5 DEF JobType
<1> QED
    BY <1>2, <1>4, <1>6

LEMMA EmittingStep ==
    ASSUME GInv, Opening, Emitting, [GNext]_allVars PROVE Emitting'
<1> SUFFICES ASSUME NEW k \in 1 .. Len(job'), job'[k].pc = "emit"
             PROVE  Keyed(job[k].to)' /\ Plays(job[k].to[1], k, job[k].at)'
    BY DEF Emitting
<1>1. k \in 1 .. Len(job) /\ matches'[k] = matches[k] /\ GTypeOK
    BY MatchesMore DEF GInv
<1>2. CASE job'[k] = job[k]
    <2>1. Keyed(job[k].to) /\ Plays(job[k].to[1], k, job[k].at)
        BY <1>1, <1>2 DEF Emitting
    <2>2. PICK t \in Sockets : t = job[k].to
        BY <1>1, <1>2 DEF GInv, Notifying, Ready
    <2>3. Keyed(t)'
        BY <1>1, <2>1, <2>2, Forward
    <2>4. job'[k].to = t
        BY <1>2, <2>2
    <2> QED
        BY <1>1, <1>2, <2>1, <2>3, <2>4 DEF Plays, MatchUsers, Keyed
<1>3. CASE JobStep(k)
    <2>1. TellRead(k)
        BY <1>1, <1>3, ReadFields, JoinFields, KeyFields, TellFields, EmitFields, FailFields DEF JobStep
    <2>2. /\ job'[k].to = socketKey[MatchUsers(k)[job[k].at]] /\ job'[k].to # NoSocket
          /\ job'[k].at = job[k].at
        BY <1>1, <2>1, TellFields
    <2>3. job[k].at \in 1 .. Len(MatchUsers(k))
        BY <1>1, <2>1, TellFields DEF GInv, Notifying, Ready
    <2>4. PICK u \in Users : u = MatchUsers(k)[job[k].at]
        BY <1>1, <2>3, MatchFacts
    <2>5. job'[k].to[1] = u /\ Keyed(job'[k].to)
        BY <2>2, <2>4 DEF Opening
    <2>6. UNCHANGED <<sock, matches>>
        BY <1>1, <1>3, JobShape
    <2> QED
        BY <1>1, <2>2, <2>3, <2>4, <2>5, <2>6 DEF Plays, MatchUsers, Keyed
<1>4. ASSUME NEW q \in 1 .. Len(job), JobStep(q) PROVE job'[k] = job[k] \/ JobStep(k)
    BY <1>1, <1>4, JobShape
<1>5. ASSUME NEW s \in Sockets, Open(s) \/ DropEarly(s) \/ Drop(s) \/ SocketStep(s)
      PROVE  UNCHANGED job
    BY <1>5 DEF Open, DropEarly, Drop, SocketStep, Arrive, SetKey, ReadRoom, EndRoom
<1>6. ASSUME NEW h \in Handlers, GSave(h) PROVE job'[k] = job[k]
    BY <1>1, <1>6, SaveFields
<1>7. ~GCrash
    BY <1>1, CrashJobs
<1> QED
    BY <1>2, <1>3, <1>4, <1>5, <1>6, <1>7, Sides DEF gateway

\* A step towards the end of a connection hands the match on.
LEMMA LeavesOn ==
    ASSUME GInv, Opening, [GNext]_allVars, NEW s \in Sockets, NEW k \in 1 .. Len(job), Keyed(s),
           Sole(s[1], k), job[k].pc \in {"tell", "emit", "done", "failed"}, Leaves(s, k)
    PROVE  Leaves(s, k)'
<1>1. sock \in [Sockets -> SocketType] /\ roomKey \in [Users -> Nat] /\ GTypeOK
    BY SMTT(30) DEF GInv, GTypeOK, SocketType
<1>2. s[1] \in Users
    BY UserSocket
<1>3. CASE UNCHANGED <<sock, roomKey, rooms, ended>>
    BY <1>3 DEF Leaves
<1>4. ASSUME NEW t \in Sockets, Open(t) \/ DropEarly(t) \/ Arrive(t) \/ SetKey(t) PROVE Leaves(s, k)'
    <2>1. t # s
        <3>1. ASSUME t = s PROVE FALSE
            <4>1. sock[s].pc \notin {"off", "arriving", "keying"}
                BY DEF Keyed
            <4> QED
                BY <1>4, <3>1, <4>1 DEF Open, DropEarly, Arrive, SetKey
        <3> QED
            BY <3>1
    <2>2. sock'[s] = sock[s] /\ UNCHANGED <<roomKey, rooms, ended>>
        BY <1>1, <1>4, <2>1 DEF Open, DropEarly, Arrive, SetKey, SetPc
    <2> QED
        BY <2>2 DEF Leaves
<1>5. ASSUME NEW t \in Sockets, Drop(t) PROVE Leaves(s, k)'
    <2>1. rooms' \subseteq rooms /\ UNCHANGED <<roomKey, ended>>
        BY <1>5 DEF Drop
    <2>2. CASE t # s
        <3>1. sock'[s] = sock[s]
            BY <1>1, <1>5, <2>2 DEF Drop
        <3> QED
            BY <2>1, <3>1 DEF Leaves
    <2>3. CASE t = s
        <3>1. sock[s].pc = "up" /\ sock'[s].pc = "leaving"
            BY <1>1, <1>5, <2>3 DEF Drop, Usable, SocketType
        <3> QED
            BY <2>1, <3>1 DEF Leaves
    <2> QED
        BY <2>2, <2>3
<1>6. ASSUME NEW t \in Sockets, ReadRoom(t) PROVE Leaves(s, k)'
    <2>1. UNCHANGED <<roomKey, rooms, ended>>
        BY <1>6 DEF ReadRoom
    <2>2. CASE t # s
        <3>1. sock'[s] = sock[s]
            BY <1>1, <1>6, <2>2 DEF ReadRoom
        <3> QED
            BY <2>1, <3>1 DEF Leaves
    <2>3. CASE t = s
        <3>1. sock[s].pc = "leaving" /\ sock'[s].pc = "ending" /\ sock'[s].room = roomKey[s[1]]
            BY <1>1, <1>6, <2>3 DEF ReadRoom, SocketType
        <3> QED
            BY <2>1, <3>1 DEF Leaves
    <2> QED
        BY <2>2, <2>3
<1>7. ASSUME NEW t \in Sockets, EndRoom(t) PROVE Leaves(s, k)'
    <2>1. rooms' = rooms /\ ended' = ended \union {m \in rooms : m[2] = sock[t].room}
          /\ sock[t].pc = "ending"
        BY <1>7 DEF EndRoom
    <2>2. CASE t # s
        <3>1. sock'[s] = sock[s]
            BY <1>1, <1>7, <2>2 DEF EndRoom, SetPc
        <3>2. t[1] # s[1]
            BY <1>1, <2>1, <2>2, OnlySocket DEF Sole, Keyed
        <3>3. roomKey'[s[1]] = roomKey[s[1]]
            BY <1>1, <1>2, <1>7, <3>2 DEF EndRoom
        <3> QED
            BY <2>1, <3>1, <3>3 DEF Leaves
    <2>3. CASE t = s
        <3>1. sock'[s].pc = "gone" /\ sock[s].room = k
            BY <1>1, <1>7, <2>1, <2>3 DEF EndRoom, SetPc, SocketType, Leaves
        <3> QED
            BY <2>1, <2>3, <3>1 DEF Leaves
    <2> QED
        BY <2>2, <2>3
<1>8. ASSUME NEW q \in 1 .. Len(job), JobStep(q) PROVE Leaves(s, k)'
    <2>1. UNCHANGED <<sock, ended>>
        BY <1>8, JobShape
    <2>2. {m \in rooms' : m[2] = k} = {m \in rooms : m[2] = k}
        BY <1>8, OtherJob
    <2>3. roomKey'[s[1]] = roomKey[s[1]] \/ roomKey'[s[1]] = k
        <3>1. CASE NotifyKey(q) /\ MatchUsers(q)[job[q].at] = s[1]
            <4>1. job[q].at \in 1 .. Len(MatchUsers(q))
                BY <3>1, KeyFields DEF GInv, Notifying, Ready
            <4>2. q \in MatchesOf(s[1])
                BY <3>1, <4>1, MatchFacts
            <4>3. q = k
                BY <4>2 DEF Sole
            <4> QED
                BY <1>1, <1>2, <3>1, <4>3, KeyFields
        <3>2. CASE ~(NotifyKey(q) /\ MatchUsers(q)[job[q].at] = s[1])
            BY <1>1, <1>2, <1>8, <3>2, OtherJob
        <3> QED
            BY <3>1, <3>2
    <2> QED
        BY <2>1, <2>2, <2>3 DEF Leaves
<1>9. CASE GCrash
    <2>1. sock'[s].pc \notin {"up", "leaving", "ending", "gone"}
        BY <1>1, <1>9, CrashDead
    <2> QED
        BY <2>1 DEF Leaves
<1> QED
    BY <1>3, <1>4, <1>5, <1>6, <1>7, <1>8, <1>9, Sides DEF gateway, SocketStep, GSave
LEMMA LatePhases ==
    ASSUME GInv, [GNext]_allVars, NEW k \in 1 .. Len(job), job[k].pc \in {"tell", "emit", "done", "failed"}
    PROVE  job'[k].pc \in {"tell", "emit", "done", "failed"}
<1>1. ASSUME JobStep(k) PROVE job'[k].pc \in {"tell", "emit", "done", "failed"}
    BY <1>1, ReadFields, JoinFields, KeyFields, TellFields, EmitFields, FailFields DEF JobStep
<1>2. ASSUME NEW q \in 1 .. Len(job), JobStep(q), q # k PROVE job'[k] = job[k]
    BY <1>2, JobShape
<1>3. ASSUME NEW s \in Sockets, Open(s) \/ DropEarly(s) \/ Drop(s) \/ SocketStep(s)
      PROVE  UNCHANGED job
    BY <1>3 DEF Open, DropEarly, Drop, SocketStep, Arrive, SetKey, ReadRoom, EndRoom
<1>4. ASSUME NEW h \in Handlers, GSave(h) PROVE job'[k] = job[k]
    BY <1>4, SaveFields
<1>5. ASSUME GCrash PROVE job'[k].pc \in {"done", "failed"}
    BY <1>5, CrashJobs DEF GInv
<1> QED
    BY <1>1, <1>2, <1>3, <1>4, <1>5, Sides DEF gateway

LEMMA TellingStep ==
    ASSUME GInv, Alone, Opening, AllKnown, RoomKept, Telling, [GNext]_allVars PROVE Telling'
<1>1. Emitting'
    BY EmittingStep DEF Telling
<1>2. GTypeOK /\ Len(job) = Len(matches) /\ told \subseteq Sockets \X (1 .. Len(matches))
    BY DEF GInv, GTypeOK
<1>3. ASSUME NEW s \in Sockets, NEW k \in Nat, <<s, k>> \in told PROVE WasTold(s, k)'
    <2>1. WasTold(s, k) /\ k \in 1 .. Len(job) /\ s[1] \in Users
        BY <1>2, <1>3, UserSocket DEF Telling
    <2>2. Keyed(s)' /\ k \in MatchesOf(s[1])'
        BY <1>2, <2>1, Forward, MatchesMore DEF WasTold
    <2>3. job'[k].pc \in {"tell", "emit", "done", "failed"}
        BY <2>1, LatePhases DEF WasTold
    <2>4. ASSUME Sole(s[1], k)' PROVE Leaves(s, k)'
        <3>1. Sole(s[1], k)
            BY <2>1, <2>4, SoleBack DEF WasTold
        <3> QED
            BY <2>1, <3>1, LeavesOn DEF WasTold
    <2> QED
        BY <2>2, <2>3, <2>4 DEF WasTold
<1>4. ASSUME NEW s \in Sockets, NEW k \in Nat, <<s, k>> \in told', <<s, k>> \notin told
      PROVE  WasTold(s, k)'
    <2>1. PICK q \in 1 .. Len(job) : TellEmit(q)
        BY <1>4, Sides, ReadFields, JoinFields, KeyFields, TellFields, FailFields, SaveFields
           DEF gateway, Open, DropEarly, Drop, SocketStep, Arrive, SetKey, ReadRoom, EndRoom, JobStep, GCrash
    <2>2. q = k /\ s = job[k].to /\ sock[s].live /\ job[k].pc = "emit"
        BY <1>4, <2>1, EmitFields
    <2>3. Keyed(s) /\ Plays(s[1], k, job[k].at)
        BY <2>1, <2>2 DEF Telling, Emitting
    <2>4. s[1] \in Users /\ k \in MatchesOf(s[1])
        BY <2>3, PlaysFacts
    <2>5. job'[k].pc \in {"tell", "emit", "done", "failed"}
        BY <2>1, <2>2, EmitFields
    <2>6. UNCHANGED <<sock, matches, roomKey, rooms, ended>>
        BY <2>1, <2>2, JobShape, EmitFields DEF JobStep
    <2>7. ASSUME Sole(s[1], k) PROVE Leaves(s, k)
        <3>1. sock[s].pc = "up"
            BY <2>2, <2>3 DEF Opening, Keyed
        <3>2. s = <<s[1], 1>>
            BY <1>2, <2>7, <3>1, OnlySocket DEF Sole
        <3>3. Still(s[1])
            BY <2>2, <2>7, <3>1, <3>2 DEF Still, Usable, Sole
        <3>4. KeysPast(job[k], job[k].at) /\ job[k].at \in Nat
            BY <2>2, <2>3 DEF KeysPast, Plays
        <3>5. roomKey[s[1]] = k
            BY <2>3, <2>4, <2>7, <3>3, <3>4 DEF RoomKept
        <3> QED
            BY <3>1, <3>5 DEF Leaves
    <2>8. Sole(s[1], k)' = Sole(s[1], k) /\ Leaves(s, k)' = Leaves(s, k)
        BY <2>6 DEF Sole, Only, Opened, MatchesOf, Leaves
    <2> QED
        BY <2>3, <2>4, <2>5, <2>6, <2>7, <2>8 DEF WasTold, Keyed, MatchesOf
<1> QED
    BY <1>1, <1>3, <1>4 DEF Telling

LEMMA MInvInit == ASSUME GInit PROVE MInv
<1>1. job = <<>> /\ told = {}
    BY DEF GInit
<1> QED
    BY <1>1, OpeningInit, AllKnownInit DEF MInv, Reaching, RoomKept, Telling, Emitting, Plays

LEMMA MInvHolds == GSpec => [](GInv /\ Alone /\ QueueInv /\ MInv)
<1>1. GInv /\ Alone /\ QueueInv /\ MInv /\ [GNext]_allVars => MInv'
    <2> SUFFICES ASSUME GInv, Alone, QueueInv, MInv, [GNext]_allVars PROVE MInv'
        OBVIOUS
    <2>1. GTypeOK /\ BInv /\ Opening /\ AllKnown /\ Reaching /\ RoomKept /\ Telling
        BY DEF GInv, QueueInv, MInv
    <2> QED
        BY <2>1, OpeningStep, AllKnownStep, ReachingStep, RoomKeptStep, TellingStep DEF MInv
<1> QED
    BY <1>1, MInvInit, GInvHolds, QueueInvHolds, PTL DEF GSpec

\* A user who has opened one socket opened their first.
LEMMA FirstSocket ==
    ASSUME Opening, NEW u \in Users, OneSocket(u) PROVE Only(u)
<1>1. IsFiniteSet(Opened(u))
    <2>1. Opened(u) \in SUBSET (1 .. MaxSockets)
        BY DEF Opened
    <2>2. IsFiniteSet(1 .. MaxSockets)
        BY SocketsAssumption, FS_Interval
    <2> QED
        BY <2>1, <2>2, FS_Subset
<1>2. PICK n : Opened(u) = {n}
    BY <1>1, FS_Singleton DEF OneSocket
<1> QED
    BY <1>2 DEF Opening, Only

\* If every user of a match opened one socket and kept it, a notification that
\* is through has told all of them, put them into the room and set their keys.
\* (Reaching says this of each such user, whatever becomes of the others.)
THEOREM UndisturbedAreTold == GSpec => []UndisturbedMatchTold
<1>1. GInv /\ MInv => UndisturbedMatchTold
    <2> SUFFICES ASSUME GInv, MInv, NEW k \in 1 .. Len(job), job[k].pc = "done",
                        \A i \in DOMAIN MatchUsers(k) :
                            OneSocket(MatchUsers(k)[i]) /\ HasSocket(MatchUsers(k)[i]),
                        NEW i \in DOMAIN MatchUsers(k)
                 PROVE  /\ <<<<MatchUsers(k)[i], 1>>, k>> \in rooms \intersect told
                        /\ roomKey[MatchUsers(k)[i]] # NoRoom
        BY DEF UndisturbedMatchTold
    <2>1. i \in 1 .. Len(MatchUsers(k)) /\ k \in Nat /\ i \in Nat
        BY MatchFacts
    <2>2. PICK u \in Users : u = MatchUsers(k)[i]
        BY <2>1, MatchFacts
    <2>3. Only(u)
        BY <2>2, FirstSocket DEF MInv
    <2>4. Still(u)
        <3>1. PICK n \in 1 .. MaxSockets : Usable(<<u, n>>)
            BY <2>2 DEF HasSocket
        <3>2. n = 1
            BY <2>3, <3>1 DEF Only, Opened, Usable
        <3> QED
            BY <2>3, <3>1, <3>2 DEF Still
    <2>5. Plays(u, k, i)
        BY <2>1, <2>2 DEF Plays
    <2>6. Reached(k, i, u)
        BY <2>1, <2>4, <2>5 DEF MInv, Reaching
    <2> QED
        BY <2>2, <2>6 DEF Reached, KeysPast, TellsPast
<1> QED
    BY <1>1, MInvHolds, PTL

\* When a user with one socket and one match, told of it, has disconnected,
\* whoever is left in the room was told that the match ended.
THEOREM PartnersLearn == GSpec => []PartnerLearns
<1>1. GInv /\ MInv => PartnerLearns
    <2> SUFFICES ASSUME GInv, MInv, NEW s \in Sockets, NEW k \in 1 .. Len(matches), <<s, k>> \in told,
                        sock[s].pc = "gone", OneSocket(s[1]), MatchesOf(s[1]) = {k}
                 PROVE  {m \in rooms : m[2] = k} \subseteq ended
        BY DEF PartnerLearns
    <2>1. WasTold(s, k)
        <3>1. k \in Nat
            BY DEF GInv, TypeOK
        <3> QED
            BY <3>1 DEF MInv, Telling
    <2>2. Sole(s[1], k)
        BY UserSocket, FirstSocket DEF MInv, Sole
    <2> QED
        BY <2>1, <2>2 DEF WasTold, Leaves
<1> QED
    BY <1>1, MInvHolds, PTL

=============================================================================
