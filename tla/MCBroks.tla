------------------------------ MODULE MCBroks -------------------------------
(* A broker with two schedulers, an internal and an external module.        *)
EXTENDS Broks

CONSTANTS s1, s2, m1

TwoSchedulers == <<s1, s2>>
TwoAndNone == [s \in {s1, s2} |-> IF s = s1 THEN 2 ELSE 0]
=============================================================================
