----------------------------- MODULE MCOutputs -----------------------------
(* Outputs on small instances: up to three connectors, slots and CRTCs.    *)
EXTENDS Outputs, TLC

(* Every connector reaches every CRTC; or one of them reaches only one.    *)
AllReach == [c \in Connectors |-> Crtcs]
OneIsNarrow ==
  LET narrow == CHOOSE c \in Connectors : TRUE
  IN  [AllReach EXCEPT ![narrow] = {CHOOSE k \in Crtcs : TRUE}]

Symmetry ==
  Permutations(Connectors) \cup Permutations(Crtcs) \cup Permutations(Views)
=============================================================================
