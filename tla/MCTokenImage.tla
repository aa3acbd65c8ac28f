---------------------------- MODULE MCTokenImage ----------------------------
(* An instance of TokenImage for TLC: with three images of one to three bytes, room for  *)
(* two entries or three bytes, and one slot, every bound is reached.                     *)
EXTENDS TokenImage, TLC

CONSTANTS small, medium, large

MCSize == (small :> 1) @@ (medium :> 2) @@ (large :> 3)
MCCatalogues == {{small, medium, large}, {medium}}
=============================================================================
