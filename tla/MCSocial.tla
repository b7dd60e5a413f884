------------------------------ MODULE MCSocial ------------------------------
(* An instance of Presence, and so of Friends, for TLC.                    *)
EXTENDS Presence

=============================================================================
