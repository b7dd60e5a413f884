-------------------------- MODULE MCCallSignalling --------------------------
(* Instances of CallSignalling for TLC: one chat room, everybody in it.    *)
EXTENDS CallSignalling, TLC

MCMembers == [r \in Rooms |-> Users]

\* Users are interchangeable, and so are the slots handlers run in.
Symmetric == Permutations(Users) \union Permutations(Handlers)

=============================================================================
