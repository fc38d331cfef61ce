------------------------------ MODULE MCRunner -------------------------------
(* Small instances of MqRunner for TLC.                                    *)
EXTENDS MqRunner, TLC

CONSTANTS m1, m2

Messages == Permutations(Msg)
MCNone   == {}
MCDelays == {0, 2}
MCSoon   == {0, 1}
MCBackoffs == {1}
MCLong     == {100}
=============================================================================
