-------------------------- MODULE MCMediasoupRooms --------------------------
(* Instances of MediasoupRooms for TLC.                                    *)
EXTENDS MediasoupRooms, TLC

\* Users are interchangeable, and so are the slots handlers run in.
Symmetric == Permutations(Users) \union Permutations(Handlers)

=============================================================================
