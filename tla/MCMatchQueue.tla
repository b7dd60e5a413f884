---------------------------- MODULE MCMatchQueue ----------------------------
(* Instances of MatchQueue for TLC.                                        *)
EXTENDS MatchQueue, TLC

\* Users are interchangeable, and so are the slots handlers run in.
Symmetric == Permutations(Users) \union Permutations(Handlers)

=============================================================================
