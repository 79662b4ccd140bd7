----------------------------- MODULE MCPayment -----------------------------
(***************************************************************************)
(* Payment for TLC: every key hashes to the first partition, since orders  *)
(* with different keys share nothing but the member that handles them.     *)
(***************************************************************************)
EXTENDS Payment

AllToOne == [m \in Messages |-> CHOOSE p \in Partitions : TRUE]
=============================================================================
