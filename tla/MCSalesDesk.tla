---------------------------- MODULE MCSalesDesk ---------------------------
(* A small instance of SalesDesk for TLC. *)
EXTENDS SalesDesk

CONSTANT customer

\* Of ten tokens: few, many and nearly all sold, with and without exits.
MCCrowds == {[active |-> 0, gone |-> 0], [active |-> 4, gone |-> 0],
             [active |-> 3, gone |-> 3], [active |-> 6, gone |-> 3]}

\* No trades yet, and losses.
MCMarkets == {[sentiment |-> 0, performance |-> 0], [sentiment |-> -10, performance |-> -5]}

\* Around every threshold of the negotiation.
MCOfferPercents == {66, 67, 70, 72, 75, 79, 82, 85, 88, 89, 92, 95, 100}
=============================================================================
