---------------------------- MODULE MCRetention ----------------------------
(* A small instance of Retention for TLC.                                   *)
EXTENDS RetentionProps

CONSTANTS c1, c2, q1, q2, v1, v2, v3

TwoClients == {c1, c2}
EachHisOwn == [q \in Questions |-> IF q = q2 THEN c2 ELSE c1]
OnFirst == [v \in {v1, v2, v3} |-> q1]
YesNoYes == [v \in {v1, v2, v3} |-> IF v = v2 THEN "unhelpful" ELSE "helpful"]

=============================================================================
