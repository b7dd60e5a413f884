----------------------------- MODULE MCDistLock -----------------------------
(* Instances of DistLock for TLC.                                          *)
EXTENDS DistLock

=============================================================================
