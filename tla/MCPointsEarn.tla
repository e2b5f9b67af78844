----------------------------- MODULE MCPointsEarn -----------------------------
(* Instances of PointsEarn for TLC: one ref type next to the check-in, and *)
(* one check-in id per user and day.                                       *)
EXTENDS PointsEarn, TLC

CONSTANTS u1, MaxKind

MCUserOf == [t \in Txns |-> u1]
MCDayTxn == [x \in Users \X Days |-> x]
MCKinds  == {"comment", "checkin"}
MCKind   == [t \in AllTxns |-> IF t \in Txns THEN "comment" ELSE "checkin"]
MCAmount == [k \in Kinds |-> IF k = "comment" THEN 2 ELSE 1]
MCLimit  == [k \in Kinds |-> MaxKind]
MCSymmetry == Permutations(Clients) \cup Permutations(Txns)

=============================================================================
