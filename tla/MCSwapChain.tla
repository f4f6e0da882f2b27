---------------------------- MODULE MCSwapChain ----------------------------
(* Small instances of SwapChain for TLC.                                   *)
EXTENDS SwapChain, TLC

Symmetry == Permutations(Buffers)
=============================================================================
