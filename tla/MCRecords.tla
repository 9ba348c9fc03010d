------------------------------ MODULE MCRecords ------------------------------
(***************************************************************************)
(* OrderRecords with orders of two symbols and two overlapping runs of the *)
(* reconciler.  Records are independent of one another but for the loop    *)
(* over the symbols: one order, of the last symbol, is enough for liveness. *)
(***************************************************************************)
EXTENDS OrderRecords

CONSTANTS o1, o2

MCSeq == <<"BTC-USD", "ETH-USD">>
MCSymbolOf == [o \in Orders |-> IF o = o1 THEN "ETH-USD" ELSE "BTC-USD"]
=============================================================================
