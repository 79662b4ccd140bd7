--------------------------- MODULE MCNotification ---------------------------
(***************************************************************************)
(* Notification for TLC: every key hashes to the first partition.          *)
(***************************************************************************)
EXTENDS Notification

AllToOne == [e \in Events |-> CHOOSE p \in Partitions : TRUE]
=============================================================================
