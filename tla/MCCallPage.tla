------------------------------ MODULE MCCallPage ------------------------------
(* An instance of CallPage, and so of MediaClient, for TLC.               *)
EXTENDS CallPage, TLC

CONSTANTS m1, c1, zoe, ann, bob

MCMembers == m1 :> {zoe} @@ c1 :> {ann, bob}
Alike == Permutations({ann, bob})

=============================================================================
