--------------------------- MODULE MCOrderSystem ---------------------------
(***************************************************************************)
(* OrderSystem for TLC: every key hashes to the first partition, as in     *)
(* MCPayment.                                                              *)
(***************************************************************************)
EXTENDS OrderSystem

AllToOne == [m \in Messages |-> CHOOSE p \in Partitions : TRUE]
=============================================================================
