----------------------------- MODULE MCRegistry -----------------------------
(* Instances of MqRegistry. *)
EXTENDS MqRegistry, TLC

CONSTANTS j1, j2, n1, p1, t1

(* Two functions of one name, in different blocks of one module.           *)
JobPaths == [j \in Job |-> p1]

(* j1 may be given this name explicitly, or one nothing has by default.    *)
JobNames == {p1, n1}

(* j2 has no arguments, but a context.                                     *)
JobArgs == [j \in Job |-> IF j = j1 THEN 2 ELSE 0]

JobNeeds == [j \in Job |-> IF j = j2 THEN {t1} ELSE {}]

(* my_proto: two of the fields an explicit option may override.            *)
MyProtos == {[channel_name |-> "foo", retries |-> 7]}

Foo == {"foo"}
Counts == {8}
Seconds == {2}

Symmetry == Permutations(Message)
=============================================================================
