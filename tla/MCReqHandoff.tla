---------------------------- MODULE MCReqHandoff ----------------------------
(* ReqHandoff for TLC: the free list of SeqManager with one or two         *)
(* numbers.                                                                *)
EXTENDS ReqHandoff

OneSeq == <<0>>
TwoSeqs == <<0, 1>>
=============================================================================
