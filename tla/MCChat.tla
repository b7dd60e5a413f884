-------------------------------- MODULE MCChat --------------------------------
(* An instance of ChatClient, and so of ChatRooms, for TLC.                *)
EXTENDS ChatClient

\* Users without a page are alike, and so are the slots for calls.
Alike == Permutations(Users \ Readers) \union Permutations(Jobs)

=============================================================================
