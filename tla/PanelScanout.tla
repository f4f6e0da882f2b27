---------------------------- MODULE PanelScanout ---------------------------
(***************************************************************************)
(* What a swap chain promises of its panel: it shows one whole frame after *)
(* another.  What is shown changes only when the frame queued after it     *)
(* lands, never because its buffer was destroyed, blanked or rendered      *)
(* into; and at most one frame is queued.                                  *)
(***************************************************************************)
CONSTANTS Frames, NoFrame, Nothing

VARIABLES
  on,      \* the chain drives the panel (the VT is ours, the mode is set)
  shown,   \* the frame on the panel, NoFrame for black
  queued   \* the frame waiting for the next vertical blank, or Nothing

vars == <<on, shown, queued>>

Init == on \in BOOLEAN /\ shown = NoFrame /\ queued = Nothing

Queue ==
  /\ on /\ queued = Nothing
  /\ queued' \in Frames
  /\ UNCHANGED <<on, shown>>

Land ==
  /\ on /\ queued # Nothing
  /\ shown' = queued /\ queued' = Nothing
  /\ UNCHANGED on

SwitchOff ==
  /\ on
  /\ on' = FALSE /\ shown' = NoFrame /\ queued' = Nothing

SwitchOn ==
  /\ ~on
  /\ on' = TRUE /\ shown' \in Frames /\ queued' \in Frames \cup {Nothing}

Next == Queue \/ Land \/ SwitchOff \/ SwitchOn

Spec == Init /\ [][Next]_vars

=============================================================================
