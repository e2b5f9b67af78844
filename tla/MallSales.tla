------------------------------- MODULE MallSales -------------------------------
(***************************************************************************)
(* What the points mall promises: a code is sold once, to one order, and   *)
(* the buyer's balance pays its price in the same step; balances otherwise *)
(* only grow.  PointsMall implements this specification.                   *)
(***************************************************************************)
EXTENDS Integers

CONSTANTS Users, Codes, OrderIds, ProductOf, Price, Grant, EarnAmount, None

VARIABLES sold,      \* Codes -> the order it was sold to, or None
          balance    \* Users -> points, or None before the wallet exists

salesVars == <<sold, balance>>

SalesInit ==
  /\ sold = [k \in Codes |-> None]
  /\ balance = [u \in Users |-> None]

Points(u) == IF balance[u] = None THEN Grant ELSE balance[u]

(* A wallet opens with the initial grant.                                  *)
Open(u) ==
  /\ balance[u] = None
  /\ balance' = [balance EXCEPT ![u] = Grant]
  /\ UNCHANGED sold

Credit(u) ==
  /\ balance[u] # None
  /\ balance' = [balance EXCEPT ![u] = @ + EarnAmount]
  /\ UNCHANGED sold

(* An unsold code goes to a new order of a user who can pay for it.        *)
Sell(u, k, o) ==
  /\ sold[k] = None
  /\ \A j \in Codes : sold[j] # o
  /\ Points(u) >= Price[ProductOf[k]]
  /\ sold' = [sold EXCEPT ![k] = o]
  /\ balance' = [balance EXCEPT ![u] = Points(u) - Price[ProductOf[k]]]

SalesNext ==
  \E u \in Users : \/ Open(u)
                   \/ Credit(u)
                   \/ \E k \in Codes, o \in OrderIds : Sell(u, k, o)

SalesSpec == SalesInit /\ [][SalesNext]_salesVars

=============================================================================
