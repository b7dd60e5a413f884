----------------------------- MODULE MCSignedIn -----------------------------
(* Instances of SignedIn for TLC.                                          *)
EXTENDS SignedIn, TLC

MCNameOf == "ann" :> "Ann" @@ "bob" :> "Bob"

\* The slots requests are made in are interchangeable.
Alike == Permutations(Jobs)

=============================================================================
