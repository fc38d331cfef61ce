------------------------------ MODULE MCLease -------------------------------
(* Small instances of MqLease for TLC: the .cfg files say all.             *)
EXTENDS MqLease
=============================================================================
