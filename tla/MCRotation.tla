------------------------------- MODULE MCRotation -------------------------------
(* Values of the constants of Rotation for TLC. *)
EXTENDS Rotation

Amount(c, m) == [r \in Resources |-> IF r = "cpu" THEN c ELSE m]

SmallAndLarge == {Amount(3, 3), Amount(5, 5)}

LightAndHeavy == {[request |-> Amount(1, 2)], [request |-> Amount(2, 1)]}
=============================================================================
