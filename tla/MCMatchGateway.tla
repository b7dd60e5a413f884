--------------------------- MODULE MCMatchGateway ---------------------------
(* Instances of MatchGateway for TLC.                                      *)
EXTENDS MatchGateway, TLC

\* Users are interchangeable; their sockets carry their names.
Symmetric == Permutations(Users)

=============================================================================
