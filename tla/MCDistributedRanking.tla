------------------------ MODULE MCDistributedRanking ------------------------
EXTENDS DistributedRanking

(* Every place is taken by one of two servers, or by none.                 *)
MCPlaces == 1..3
=============================================================================
