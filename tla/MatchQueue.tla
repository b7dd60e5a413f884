----------------------------- MODULE MatchQueue -----------------------------
(***************************************************************************)
(* Random matchmaking of the server (server/src/match): one Redis sorted   *)
(* set of waiting users per game type, scored by the time of the request,  *)
(* and the asynchronous handlers of "match:create_match_request", each of  *)
(* which queues its user and then tries to form a match.                   *)
(*                                                                         *)
(* A handler gives up the event loop at every await, so handlers, cancels  *)
(* and disconnects interleave between any two Redis or database calls.     *)
(* One action here is the code from one await to the next (or a smaller,   *)
(* purely local part of it); Redis executes each command atomically.       *)
(***************************************************************************)
EXTENDS Integers, Sequences, FiniteSets, Functions

CONSTANTS
    Users,            \* user keys (members of the sorted sets)
    GameTypes,        \* the five game types, each with a queue of its own
    Handlers,         \* slots for concurrently running request handlers
    MaxWaitTimeDiff,  \* maxWaitTimeDiff: 5 minutes
    PopCount,         \* how many users a handler pops: 5
    MaxTime,          \* bound: the last value of the clock
    MaxRequests,      \* bound: requests all users make together
    MaxFaults         \* bound: failed database writes and server crashes

ASSUME ConstantsAssumption ==
    /\ IsFiniteSet(Users)
    /\ MaxWaitTimeDiff \in Nat
    /\ PopCount \in Nat \ {0}
    /\ MaxTime \in Nat
    /\ MaxRequests \in Nat
    /\ MaxFaults \in Nat

VARIABLES
    now,       \* Date.now(), in coarse units
    queue,     \* queue[g][u]: u's score in the sorted set of g, or NoScore
    handler,   \* handler[h]: where the handler in slot h is, and its locals
    matches,   \* the rows of the match table, in the order they were saved
    faults,    \* how many faults have happened
    \* History, read by no action of the program:
    requests,  \* requests[u]: how many requests u has made
    waiting,   \* <<u, g>>: u asked for g and did not withdraw, nor was matched
    withdrawn, \* <<u, g>>: u withdrew from g while no handler held u
    stretched, \* users popped in a batch with a gap above MaxWaitTimeDiff
    dropped    \* <<u, g>>: lost by a fault while a handler held u

history == <<requests, waiting, withdrawn, stretched, dropped>>
vars == <<now, queue, handler, matches, faults, history>>

-----------------------------------------------------------------------------
(* Data                                                                    *)

NoScore == -1
NoGame == "none"
Scores == 0 .. MaxTime
Entry == [member : Users, score : Scores]

\* "count": before the reply of ZCARD, "pop": before ZPOPMIN, "pair": in the
\* pairing loop, "leftover": in the loop that puts users back, "save": before
\* the match row is saved.
Phases == {"idle", "count", "pop", "pair", "leftover", "save"}

IdleHandler ==
    [pc |-> "idle", game |-> NoGame, cands |-> <<>>, i |-> 1, matched |-> <<>>]

InSeq(x, s) == \E k \in 1 .. Len(s) : s[k] = x

Queued(g) == {u \in Users : queue[g][u] # NoScore}

ZAdd(g, entry) == [queue EXCEPT ![g][entry.member] = entry.score]
ZRem(g, u) == [queue EXCEPT ![g][u] = NoScore]

\* The replies ZPOPMIN may give: the PopCount members with the lowest scores,
\* in the order of their scores (the order of the member strings, which
\* breaks ties, is abstracted to any order).
ZPopMinReplies(g) ==
    LET n == IF Cardinality(Queued(g)) < PopCount THEN Cardinality(Queued(g))
                                                  ELSE PopCount
    IN  {r \in [1 .. n -> [member : Queued(g), score : Scores]] :
            /\ \A k \in 1 .. n : r[k].score = queue[g][r[k].member]
            /\ \A k, l \in 1 .. n : k < l => /\ r[k].member # r[l].member
                                             /\ r[k].score <= r[l].score
            /\ \A u \in Queued(g) : \/ InSeq([member |-> u, score |-> queue[g][u]], r)
                                    \/ \A k \in 1 .. n : r[k].score <= queue[g][u]}

\* u is among the users the handler in slot h popped.
Holds(h, u) == \E k \in 1 .. Len(handler[h].cands) : handler[h].cands[k].member = u

\* The handler in slot h still has to put u into a match or back into g.
Owes(h, u, g) ==
    /\ handler[h].game = g
    /\ \/ InSeq(u, handler[h].matched)
       \/ /\ handler[h].pc \in {"pair", "leftover"}
          /\ \E k \in 1 .. Len(handler[h].cands) :
                k >= handler[h].i /\ handler[h].cands[k].member = u

Init ==
    /\ now = 0
    /\ queue = [g \in GameTypes |-> [u \in Users |-> NoScore]]
    /\ handler = [h \in Handlers |-> IdleHandler]
    /\ matches = <<>>
    /\ faults = 0
    /\ requests = [u \in Users |-> 0]
    /\ waiting = {}
    /\ withdrawn = {}
    /\ stretched = {}
    /\ dropped = {}

Tick ==
    /\ now < MaxTime
    /\ now' = now + 1
    /\ UNCHANGED <<queue, handler, matches, faults, history>>

-----------------------------------------------------------------------------
(* handleCreateMatchRequest                                                *)

TotalRequests == FoldFunction(+, 0, requests)

\* createMatchRequest: the user enters the sorted set with the current time.
Request(h, u, g) ==
    /\ handler[h].pc = "idle"
    /\ TotalRequests < MaxRequests
    /\ queue' = ZAdd(g, [member |-> u, score |-> now])
    /\ handler' = [handler EXCEPT ![h] = [IdleHandler EXCEPT !.pc = "count", !.game = g]]
    /\ requests' = [requests EXCEPT ![u] = @ + 1]
    /\ waiting' = waiting \union {<<u, g>>}
    /\ withdrawn' = withdrawn \ {<<u, g>>}
    /\ UNCHANGED <<now, matches, faults, stretched, dropped>>

\* tryMatchmaking: with fewer than two users queued there is nothing to try.
TooFew(h) ==
    /\ handler[h].pc = "count"
    /\ Cardinality(Queued(handler[h].game)) < 2
    /\ handler' = [handler EXCEPT ![h] = IdleHandler]
    /\ UNCHANGED <<now, queue, matches, faults, history>>

Enough(h) ==
    /\ handler[h].pc = "count"
    /\ Cardinality(Queued(handler[h].game)) >= 2
    /\ handler' = [handler EXCEPT ![h].pc = "pop"]
    /\ UNCHANGED <<now, queue, matches, faults, history>>

\* Mutant of Pop: ZRANGE instead of ZPOPMIN, the users read stay in the queue.
PeekOnly(h) ==
    /\ handler[h].pc = "pop"
    /\ \E reply \in ZPopMinReplies(handler[h].game) :
        handler' = [handler EXCEPT
                        ![h].pc = IF Len(reply) < 2 THEN "leftover" ELSE "pair",
                        ![h].cands = reply,
                        ![h].i = 1]
    /\ UNCHANGED <<now, queue, matches, faults, history>>

\* findMatchingUsers: the pop may find fewer users than the count did; a
\* single one goes straight to the loop that puts users back.
Pop(h) ==
    /\ handler[h].pc = "pop"
    /\ \E reply \in ZPopMinReplies(handler[h].game) :
        /\ queue' = [queue EXCEPT ![handler[h].game] =
                        [u \in Users |-> IF \E k \in DOMAIN reply : reply[k].member = u
                                         THEN NoScore ELSE @[u]]]
        /\ handler' = [handler EXCEPT
                        ![h].pc = IF Len(reply) < 2 THEN "leftover" ELSE "pair",
                        ![h].cands = reply,
                        ![h].i = 1]
    /\ UNCHANGED <<now, matches, faults, history>>

\* The pairing loop looks at candidates i and i + 1.
InPairLoop(h) == handler[h].pc = "pair" /\ handler[h].i < Len(handler[h].cands)

CloseEnough(h) ==
    LET c == handler[h].cands
        i == handler[h].i
    IN  c[i + 1].score - c[i].score <= MaxWaitTimeDiff

Pair(h) ==
    /\ InPairLoop(h)
    /\ CloseEnough(h)
    /\ LET c == handler[h].cands
           i == handler[h].i
       IN  handler' = [handler EXCEPT
                ![h].matched = @ \o <<c[i].member, c[i + 1].member>>,
                ![h].i = i + 2]
    /\ UNCHANGED <<now, queue, matches, faults, history>>

\* Mutant of PairGap: the loop does not move on after putting a user back.
StuckAtGap(h) ==
    /\ InPairLoop(h)
    /\ ~CloseEnough(h)
    /\ queue' = ZAdd(handler[h].game, handler[h].cands[handler[h].i])
    /\ stretched' = stretched \union {u \in Users : Holds(h, u)}
    /\ UNCHANGED <<now, handler, matches, faults, requests, waiting, withdrawn, dropped>>

PairGap(h) ==
    /\ InPairLoop(h)
    /\ ~CloseEnough(h)
    /\ LET c == handler[h].cands
           i == handler[h].i
       IN  /\ queue' = ZAdd(handler[h].game, c[i])
           /\ handler' = [handler EXCEPT ![h].i = i + 1]
    /\ stretched' = stretched \union {u \in Users : Holds(h, u)}
    /\ UNCHANGED <<now, matches, faults, requests, waiting, withdrawn, dropped>>

\* Mutants of PairDone: the second loop starts one too early (an index that
\* does not exist) or one too late.
LeftoverFromBefore(h) ==
    /\ handler[h].pc = "pair"
    /\ ~InPairLoop(h)
    /\ handler' = [handler EXCEPT ![h].pc = "leftover", ![h].i = Len(handler[h].matched)]
    /\ UNCHANGED <<now, queue, matches, faults, history>>

LeftoverFromAfter(h) ==
    /\ handler[h].pc = "pair"
    /\ ~InPairLoop(h)
    /\ handler' = [handler EXCEPT ![h].pc = "leftover",
                                  ![h].i = Len(handler[h].matched) + 2]
    /\ UNCHANGED <<now, queue, matches, faults, history>>

\* The second loop starts at the index matchedUsers.length, which is where
\* the first one stopped only if the first one found no gap.
PairDone(h) ==
    /\ handler[h].pc = "pair"
    /\ ~InPairLoop(h)
    /\ handler' = [handler EXCEPT ![h].pc = "leftover",
                                  ![h].i = Len(handler[h].matched) + 1]
    /\ UNCHANGED <<now, queue, matches, faults, history>>

Leftover(h) ==
    /\ handler[h].pc = "leftover"
    /\ handler[h].i <= Len(handler[h].cands)
    /\ queue' = ZAdd(handler[h].game, handler[h].cands[handler[h].i])
    /\ handler' = [handler EXCEPT ![h].i = @ + 1]
    /\ UNCHANGED <<now, matches, faults, history>>

\* findMatchingUsers returns; tryMatchmaking goes on to createMatch only with
\* two users or more.
LeftoverDone(h) ==
    /\ handler[h].pc = "leftover"
    /\ handler[h].i > Len(handler[h].cands)
    /\ handler' = [handler EXCEPT
            ![h] = IF Len(@.matched) >= 2 THEN [@ EXCEPT !.pc = "save"] ELSE IdleHandler]
    /\ UNCHANGED <<now, queue, matches, faults, history>>

\* createMatch: every matched user, of every pair, goes into one match.
Save(h) ==
    /\ handler[h].pc = "save"
    /\ matches' = Append(matches, [game |-> handler[h].game, users |-> handler[h].matched])
    /\ waiting' = {w \in waiting : ~Owes(h, w[1], w[2])}
    /\ handler' = [handler EXCEPT ![h] = IdleHandler]
    /\ UNCHANGED <<now, queue, faults, requests, withdrawn, stretched, dropped>>

\* The save throws: tryMatchmaking logs the error and returns nothing, and
\* the users it popped are in no queue any more.
SaveFails(h) ==
    /\ handler[h].pc = "save"
    /\ faults < MaxFaults
    /\ faults' = faults + 1
    /\ dropped' = dropped \union {w \in waiting : Owes(h, w[1], w[2])}
    /\ handler' = [handler EXCEPT ![h] = IdleHandler]
    /\ UNCHANGED <<now, queue, matches, requests, waiting, withdrawn, stretched>>

-----------------------------------------------------------------------------
(* Withdrawing                                                             *)

\* handleCancelMatchRequest: one ZREM; a popped user is not there to remove.
Cancel(u, g) ==
    /\ queue' = ZRem(g, u)
    /\ waiting' = waiting \ {<<u, g>>}
    /\ withdrawn' = IF \E h \in Handlers : Holds(h, u) THEN withdrawn
                                                     ELSE withdrawn \union {<<u, g>>}
    /\ UNCHANGED <<now, handler, matches, faults, requests, stretched, dropped>>

\* Mutant of Leave: the disconnect forgets the queues.
LeaveQueued(u) ==
    /\ waiting' = {w \in waiting : w[1] # u}
    /\ withdrawn' = IF \E h \in Handlers : Holds(h, u) THEN withdrawn
                                                     ELSE withdrawn \union ({u} \X GameTypes)
    /\ UNCHANGED <<now, queue, handler, matches, faults, requests, stretched, dropped>>

\* handleConnection and handleDisconnect issue the ZREMs of all game types
\* together, and Redis runs them in the order they were issued.
Leave(u) ==
    /\ queue' = [g \in GameTypes |-> [queue[g] EXCEPT ![u] = NoScore]]
    /\ waiting' = {w \in waiting : w[1] # u}
    /\ withdrawn' = IF \E h \in Handlers : Holds(h, u) THEN withdrawn
                                                     ELSE withdrawn \union ({u} \X GameTypes)
    /\ UNCHANGED <<now, handler, matches, faults, requests, stretched, dropped>>

\* The server process dies: its handlers are gone, the Redis queues stay.
Crash ==
    /\ faults < MaxFaults
    /\ faults' = faults + 1
    /\ dropped' = dropped \union {w \in waiting : \E h \in Handlers : Owes(h, w[1], w[2])}
    /\ handler' = [h \in Handlers |-> IdleHandler]
    /\ UNCHANGED <<now, queue, matches, requests, waiting, withdrawn, stretched>>

-----------------------------------------------------------------------------

\* Every step of a handler that forms no match.
QueueStep(h) ==
    \/ TooFew(h)
    \/ Enough(h)
    \/ Pop(h)
    \/ Pair(h)
    \/ PairGap(h)
    \/ PairDone(h)
    \/ Leftover(h)
    \/ LeftoverDone(h)
    \/ SaveFails(h)

HandlerStep(h) == QueueStep(h) \/ Save(h)

Next ==
    \/ Tick
    \/ \E h \in Handlers, u \in Users, g \in GameTypes : Request(h, u, g)
    \/ \E h \in Handlers : HandlerStep(h)
    \/ \E u \in Users, g \in GameTypes : Cancel(u, g)
    \/ \E u \in Users : Leave(u)
    \/ Crash

\* Redis and the database answer every call, so a handler never stops between
\* two awaits. Nothing makes users or the clock act.
Fairness == \A h \in Handlers : WF_vars(HandlerStep(h))

Spec == Init /\ [][Next]_vars /\ Fairness

-----------------------------------------------------------------------------
(* Properties                                                              *)

HandlerState ==
    [pc : Phases, game : GameTypes \union {NoGame}, cands : Seq(Entry),
     i : Nat \ {0}, matched : Seq(Users)]

\* Every variable has the shape the code gives it, and only an idle handler
\* has no game.
TypeOK ==
    /\ now \in 0 .. MaxTime
    /\ queue \in [GameTypes -> [Users -> Scores \union {NoScore}]]
    /\ handler \in [Handlers -> HandlerState]
    /\ \A h \in Handlers : handler[h].pc # "idle" => handler[h].game \in GameTypes
    /\ matches \in Seq([game : GameTypes, users : Seq(Users)])
    /\ faults \in 0 .. MaxFaults
    /\ requests \in [Users -> Nat]
    /\ waiting \subseteq Users \X GameTypes
    /\ withdrawn \subseteq Users \X GameTypes
    /\ stretched \subseteq Users
    /\ dropped \subseteq Users \X GameTypes

\* Whoever asked for a match and did not withdraw is in the queue, or some
\* handler that popped them will still match them or put them back - unless a
\* failed save or a crash hit such a handler. This is what ZPOPMIN followed by
\* separate ZADDs (findMatchingUsers) puts at risk.
NoWaiterLost ==
    \A u \in Users, g \in GameTypes :
        <<u, g>> \in waiting \ dropped =>
            queue[g][u] # NoScore \/ \E h \in Handlers : Owes(h, u, g)

\* A user who withdraws while no handler holds them stays out of the queue
\* and out of every handler's hands until they ask again.
WithdrawalSticks ==
    \A u \in Users, g \in GameTypes :
        <<u, g>> \in withdrawn =>
            /\ queue[g][u] = NoScore
            /\ \A h \in Handlers : handler[h].game = g => ~Holds(h, u)

MatchesOf(u) == {k \in 1 .. Len(matches) : InSeq(u, matches[k].users)}

\* A request leads to at most one match, if no batch the user was popped in
\* had a gap: pops are atomic and each popped user has one place to go.
OneMatchUnlessGap ==
    \A u \in Users \ stretched : Cardinality(MatchesOf(u)) <= requests[u]

\* A request leads to at most one match. "Users who were not matched go back
\* into the queue": only those. VIOLATED by the index the second loop of
\* findMatchingUsers starts at.
OneMatchPerRequest ==
    \A u \in Users : Cardinality(MatchesOf(u)) <= requests[u]

\* A waiting user whom a handler has taken out of the queue is not kept in
\* between for ever: they are back in the queue, matched, dropped or gone.
HeldIsTemporary ==
    \A u \in Users, g \in GameTypes :
        <<u, g>> \in waiting \ dropped /\ queue[g][u] = NoScore
            ~> queue[g][u] # NoScore \/ <<u, g>> \notin waiting \ dropped

=============================================================================
