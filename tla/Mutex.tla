------------------------------- MODULE Mutex -------------------------------
(***************************************************************************)
(* What runWithDistributedLock promises: of all the handlers that run an   *)
(* operation under the same lock, one at a time.                           *)
(***************************************************************************)

CONSTANTS Handlers, Locks

VARIABLE inside    \* <<h, l>>: h runs its operation under lock l

Init == inside = {}

Enter(h, l) ==
    /\ \A k \in Handlers : <<k, l>> \notin inside
    /\ inside' = inside \union {<<h, l>>}

Exit(h, l) ==
    /\ <<h, l>> \in inside
    /\ inside' = inside \ {<<h, l>>}

Next == \E h \in Handlers, l \in Locks : Enter(h, l) \/ Exit(h, l)

Spec == Init /\ [][Next]_inside

=============================================================================
