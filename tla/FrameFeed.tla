------------------------------ MODULE FrameFeed -----------------------------
(***************************************************************************)
(* What a recording session promises its sink, with no ring, queue or      *)
(* second thread in sight: frames arrive in the order they were taken, one *)
(* at a time, each at most once; a frame is given up only while an earlier *)
(* one is still on its way, that is when the sink is behind, and is then   *)
(* counted; any other that does not arrive failed to be read back from the *)
(* GPU, which is told to nobody; and the session ends only when nothing is *)
(* on its way.                                                             *)
(***************************************************************************)
EXTENDS Naturals

VARIABLES
  open,      \* a session is on
  taken,     \* how many frames were taken in it; they are 1..taken
  way,       \* those on their way
  got,       \* how many the sink has got
  newest,    \* the last of them
  lost,      \* how many were given up
  failed     \* how many could not be read back

vars == <<open, taken, way, got, newest, lost, failed>>

Init ==
  /\ open = FALSE /\ taken = 0 /\ way = {} /\ got = 0 /\ newest = 0
  /\ lost = 0 /\ failed = 0

Open ==
  /\ ~open /\ open' = TRUE
  /\ UNCHANGED <<taken, way, got, newest, lost, failed>>

Take ==
  /\ open
  /\ taken' = taken + 1 /\ way' = way \cup {taken + 1}
  /\ UNCHANGED <<open, got, newest, lost, failed>>

Deliver(f) ==
  /\ f \in way /\ f > newest /\ \A g \in way : f <= g
  /\ way' = way \ {f} /\ got' = got + 1 /\ newest' = f
  /\ UNCHANGED <<open, taken, lost, failed>>

GiveUp(f) ==
  /\ f \in way /\ \E g \in way : g < f
  /\ way' = way \ {f} /\ lost' = lost + 1
  /\ UNCHANGED <<open, taken, got, newest, failed>>

Fail(f) ==
  /\ way' = way \ {f} /\ failed' = failed + 1
  /\ UNCHANGED <<open, taken, got, newest, lost>>

Close ==
  /\ open /\ way = {}
  /\ open' = FALSE /\ taken' = 0 /\ got' = 0 /\ newest' = 0
  /\ lost' = 0 /\ failed' = 0
  /\ UNCHANGED way

Next == Open \/ Take \/ (\E f \in way : Deliver(f) \/ GiveUp(f) \/ Fail(f)) \/ Close

Spec == Init /\ [][Next]_vars
=============================================================================
