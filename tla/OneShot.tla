------------------------------ MODULE OneShot ------------------------------
(***************************************************************************)
(* What fl_drm_view_capture_texture_once promises each caller, with no     *)
(* second thread in sight: between the question and the answer the         *)
(* caller's buffer may be written, and at no other time; the answer is     *)
(* "ok" when the buffer holds the whole picture, and any other answer      *)
(* leaves it as it was.                                                    *)
(***************************************************************************)
CONSTANT Callers

VARIABLES
  asked,   \* the callers inside the call
  dst,     \* each caller's buffer: "old", "torn" or "pixels"
  rc       \* the answer to each caller's last call

vars == <<asked, dst, rc>>

Init ==
  /\ asked = {}
  /\ dst = [c \in Callers |-> "old"]
  /\ rc = [c \in Callers |-> "refused"]

(* A call brings a buffer of its own.                                      *)
Ask(c) ==
  /\ c \notin asked
  /\ asked' = asked \cup {c}
  /\ dst' = [dst EXCEPT ![c] = "old"]
  /\ UNCHANGED rc

Refuse(c) ==
  /\ c \notin asked
  /\ dst' = [dst EXCEPT ![c] = "old"]
  /\ rc' = [rc EXCEPT ![c] = "refused"]
  /\ UNCHANGED asked

Write(c) ==
  /\ c \in asked
  /\ \/ dst[c] = "old"  /\ dst' = [dst EXCEPT ![c] = "torn"]
     \/ dst[c] = "torn" /\ dst' = [dst EXCEPT ![c] = "pixels"]
  /\ UNCHANGED <<asked, rc>>

Answer(c) ==
  /\ c \in asked
  /\ asked' = asked \ {c}
  /\ \/ dst[c] = "pixels" /\ rc' = [rc EXCEPT ![c] = "ok"]
     \/ dst[c] = "old" /\ \E e \in {"error", "timeout"} : rc' = [rc EXCEPT ![c] = e]
  /\ UNCHANGED dst

Next == \E c \in Callers : Ask(c) \/ Refuse(c) \/ Write(c) \/ Answer(c)

Spec == Init /\ [][Next]_vars
=============================================================================
