------------------------------- MODULE Delivery -------------------------------
(***************************************************************************)
(* What a shop with card payment promises: an order is for one good, what  *)
(* it is for is handed over at most once and only after the money was      *)
(* captured, what there is only one of goes to one order, and what was     *)
(* withdrawn is handed over to nobody.  A captured order may stay          *)
(* undelivered.                                                            *)
(***************************************************************************)
EXTENDS Naturals

CONSTANTS Orders, Goods,
          Single,      \* goods that only one order can get
          None         \* an order that was not placed

VARIABLES good,        \* what each order is for
          captured,    \* the orders whose money was captured
          delivered,   \* how often the good of each order was handed over
          gone         \* withdrawn goods

vars == <<good, captured, delivered, gone>>

Init ==
  /\ good = [o \in Orders |-> None]
  /\ captured = {}
  /\ delivered = [o \in Orders |-> 0]
  /\ gone = {}

Place(o, g) ==
  /\ good[o] = None
  /\ good' = [good EXCEPT ![o] = g]
  /\ UNCHANGED <<captured, delivered, gone>>

Capture(o) ==
  /\ good[o] # None
  /\ captured' = captured \cup {o}
  /\ UNCHANGED <<good, delivered, gone>>

Taken(g) == g \in Single /\ \E o \in Orders : good[o] = g /\ delivered[o] > 0

Deliver(o) ==
  /\ o \in captured
  /\ delivered[o] = 0
  /\ good[o] \notin gone
  /\ ~Taken(good[o])
  /\ delivered' = [delivered EXCEPT ![o] = 1]
  /\ UNCHANGED <<good, captured, gone>>

Withdraw(G) ==
  /\ gone' = gone \cup G
  /\ UNCHANGED <<good, captured, delivered>>

Next ==
  \/ \E o \in Orders, g \in Goods : Place(o, g)
  \/ \E o \in Orders : Capture(o) \/ Deliver(o)
  \/ \E G \in SUBSET Goods : Withdraw(G)

Spec == Init /\ [][Next]_vars

===============================================================================
