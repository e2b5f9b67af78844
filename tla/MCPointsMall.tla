----------------------------- MODULE MCPointsMall -----------------------------
(* Instances of PointsMall for TLC.                                        *)
EXTENDS PointsMall, TLC

CONSTANT p1

MCOneProduct == [k \in Codes |-> p1]
MCPrice      == [p \in Products |-> 3]
MCSymmetry   == Permutations(Clients) \cup Permutations(Users)
                \cup Permutations(Codes) \cup Permutations(OrderIds)

=============================================================================
