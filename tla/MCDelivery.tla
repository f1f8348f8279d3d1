----------------------------- MODULE MCDelivery -----------------------------
(* Three servers, the two most stable ones behind one router and the third *)
(* pinned as primary: losing it leaves the election two seats to fill from *)
(* one network, losing another leaves it one.                              *)
EXTENDS Delivery
MCStarts == {[net |-> <<1, 1, 2>>, pin |-> [primary |-> 3, secondary |-> Nobody]]}
=============================================================================
