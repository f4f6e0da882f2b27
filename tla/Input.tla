------------------------------- MODULE Input -------------------------------
(***************************************************************************)
(* FlDrmInput: the virtual-desktop pointer and the keyboard, between        *)
(* libinput and the engine, on the platform thread.  The pointer moves on  *)
(* the union of the placed outputs' regions; a press captures it for the   *)
(* view under it; the regions are replaced while it moves and drags; the   *)
(* VT is left and entered while keys are held.                             *)
(*                                                                         *)
(* Coordinates are whole logical units at scale 1, so eps is 1.  Button    *)
(* events may come in any order (several mice, and releases lost while the *)
(* VT was away); key events wait in libinput's queue.                      *)
(***************************************************************************)
EXTENDS Integers, Sequences

CONSTANTS
  Layouts,          \* the region lists SetRegions may be given
  Deltas,           \* relative motions of one event
  Reports,          \* positions the app injects, from the primary's corner: any
  Mapped, Unmapped, \* buttons with and without a Flutter flag
  Implicit, None,
  Keys, Modifiers,  \* keys; those that make any other key a VT-switch chord
  MaxQueue          \* bound: unread keyboard events in libinput

Max2(a, b) == IF a >= b THEN a ELSE b
Min2(a, b) == IF a <= b THEN a ELSE b

ViewsOf(rs) == {rs[i].view : i \in DOMAIN rs}
AllViews == UNION {ViewsOf(rs) : rs \in Layouts}

Region == [x : Int, y : Int, w : Nat \ {0}, h : Nat \ {0}, view : AllViews]

ASSUME ConstantsOK ==
  /\ Layouts \subseteq Seq(Region) /\ Layouts # {} /\ <<>> \notin Layouts
  /\ \A rs \in Layouts : \A i, j \in DOMAIN rs : rs[i].view = rs[j].view => i = j
  /\ Deltas \subseteq Int \X Int /\ Reports \subseteq Int \X Int
  /\ Mapped \cap Unmapped = {}
  /\ None \notin AllViews
  /\ Modifiers \subseteq Keys
  /\ MaxQueue \in Nat

VARIABLES
  regions, pos, current, capture, hasCapture,   \* the pointer on the regions
  stray,         \* history: pos is that of a report off the primary output
  added, down, buttons,                         \* pointer_added_ and so on
  engine,        \* what the engine was told: the pointer is down, for which view
  pressed,       \* pressed_keys_
  engineKeys,    \* keys the engine was told are down
  held, queue,   \* keys held on the keyboard; events libinput has not returned
  vtActive, pendingRelease, pendingAcquire, vt,   \* the VT switch
  plat    \* the loop: "loop", in ProcessEvents ("events") or "acquire"

place   == <<regions, pos, current, stray>>
grab    == <<capture, hasCapture>>
buttonState == <<added, down, buttons>>
pointer == <<place, grab, buttonState, engine>>
keyboard == <<pressed, engineKeys>>
session == <<vtActive, pendingRelease, pendingAcquire, vt, plat>>
vars == <<pointer, keyboard, held, queue, session>>

Contains(r, p) ==
  /\ p[1] >= r.x /\ p[1] < r.x + r.w
  /\ p[2] >= r.y /\ p[2] < r.y + r.h

Containing(rs, p) == {i \in DOMAIN rs : Contains(rs[i], p)}
First(S) == {i \in S : \A j \in S : i <= j}
RegionContaining(rs, p) == First(Containing(rs, p))

PrimaryRegion(rs) ==
  IF Implicit \in ViewsOf(rs)
  THEN CHOOSE i \in DOMAIN rs : rs[i].view = Implicit
  ELSE 1

Centre(r) == <<r.x + r.w \div 2, r.y + r.h \div 2>>
Points(r) == (r.x .. r.x + r.w - 1) \X (r.y .. r.y + r.h - 1)

RoutingRegion == IF hasCapture THEN capture ELSE current
Routed == regions[RoutingRegion].view

Init ==
  /\ regions \in Layouts
  /\ Len(regions) = 1 /\ regions[1].view = Implicit
  /\ pos = Centre(regions[1]) /\ current = 1 /\ stray = FALSE
  /\ capture = 1 /\ hasCapture = FALSE
  /\ added = FALSE /\ down = FALSE /\ buttons = {}
  /\ engine = [down |-> FALSE, view |-> None]
  /\ pressed = {} /\ engineKeys = {} /\ held = {} /\ queue = <<>>
  /\ vtActive = TRUE /\ pendingRelease = FALSE /\ pendingAcquire = FALSE
  /\ vt = "here" /\ plat = "loop"

-----------------------------------------------------------------------------
(* What the engine learns: a kDown opens a gesture of the view it goes to. *)
TellDown(v) ==
  engine' = IF engine.down THEN engine ELSE [down |-> TRUE, view |-> v]
TellUp == engine' = [down |-> FALSE, view |-> None]

-----------------------------------------------------------------------------
(* Motion.                                                                 *)

Clamp(r, p) ==
  <<Max2(r.x, Min2(p[1], r.x + r.w - 1)), Max2(r.y, Min2(p[2], r.y + r.h - 1))>>

(* HandlePointerMotion: the full motion if it ends on an output, else a    *)
(* slide along an edge, else clamped into the current output.              *)
Motion(d) ==
  LET full == <<pos[1] + d[1], pos[2] + d[2]>>
      slides == << full, <<full[1], pos[2]>>, <<pos[1], full[2]>> >>
      good == {i \in 1..3 : Containing(regions, slides[i]) # {}}
  IN  /\ plat = "events"
      /\ \/ /\ good = {}
            /\ pos' = Clamp(regions[current], full) /\ UNCHANGED current
         \/ \E i \in First(good) :
              pos' = slides[i] /\ current' \in RegionContaining(regions, slides[i])
      /\ added' = TRUE /\ stray' = FALSE
      /\ UNCHANGED <<regions, grab, down, buttons, engine, keyboard, held, queue, session>>

(* HandlePointerMotionAbsolute: a point of the primary output.             *)
MotionAbsolute ==
  /\ plat = "events"
  /\ current' = PrimaryRegion(regions)
  /\ pos' \in Points(regions[current'])
  /\ added' = TRUE /\ stray' = FALSE
  /\ UNCHANGED <<regions, grab, down, buttons, engine, keyboard, held, queue, session>>

-----------------------------------------------------------------------------
(* Buttons.                                                                *)

(* Mutant: every press captures the view under the pointer.                *)
ButtonPressedRecaptures(b) ==
  /\ plat = "events"
  /\ buttons' = buttons \cup ({b} \cap Mapped)
  /\ capture' = current /\ hasCapture' = TRUE
  /\ down' = TRUE /\ added' = TRUE
  /\ TellDown(regions[current].view)
  /\ UNCHANGED <<place, keyboard, held, queue, session>>

(* HandlePointerButton, pressed: the first press captures.                 *)
ButtonPressed(b) ==
  /\ plat = "events"
  /\ buttons' = buttons \cup ({b} \cap Mapped)
  /\ IF down THEN UNCHANGED grab ELSE capture' = current /\ hasCapture' = TRUE
  /\ down' = TRUE /\ added' = TRUE
  /\ TellDown(regions[IF hasCapture' THEN capture' ELSE current].view)
  /\ UNCHANGED <<place, keyboard, held, queue, session>>

(* HandlePointerButton, released: up when no mapped button is left.        *)
ButtonReleased(b) ==
  /\ plat = "events"
  /\ buttons' = buttons \ {b} /\ added' = TRUE
  /\ UNCHANGED capture
  /\ IF buttons' # {}
     THEN down' = TRUE /\ UNCHANGED <<hasCapture, engine>>
     ELSE down' = FALSE /\ hasCapture' = FALSE /\ TellUp
  /\ UNCHANGED <<place, keyboard, held, queue, session>>

(* HandlePointerAxis: a scroll adds the pointer if nothing did before.     *)
Axis ==
  /\ plat = "events" /\ ~added
  /\ added' = TRUE
  /\ UNCHANGED <<place, grab, down, buttons, engine, keyboard, held, queue, session>>

(* Mutant: an injected release does not give the capture up.               *)
InjectPointerAbsKeepsCapture(p, mask) ==
  LET newly == mask \ buttons
      gone == buttons \ mask
  IN  /\ plat = "loop" /\ vtActive
      /\ current' = PrimaryRegion(regions)
      /\ pos' = <<regions[current'].x + p[1], regions[current'].y + p[2]>>
      /\ stray' = ~Contains(regions[current'], pos')
      /\ added' = TRUE /\ buttons' = mask
      /\ \/ /\ newly # {}
            /\ IF down THEN UNCHANGED grab
               ELSE capture' = current' /\ hasCapture' = TRUE
            /\ down' = TRUE
            /\ TellDown(regions[IF hasCapture' THEN capture' ELSE current'].view)
         \/ /\ newly = {} /\ gone # {}
            /\ down' = (mask # {})
            /\ IF mask = {} THEN TellUp ELSE UNCHANGED engine
            /\ UNCHANGED grab
         \/ /\ newly = {} /\ gone = {}
            /\ UNCHANGED <<grab, down, engine>>
      /\ UNCHANGED <<regions, keyboard, held, queue, session>>

(* InjectPointerAbs: the caller's position, from the corner of the primary *)
(* output and nowhere clamped to it, and the whole mask; a press goes      *)
(* before a release.                                                       *)
InjectPointerAbs(p, mask) ==
  LET newly == mask \ buttons
      gone == buttons \ mask
  IN  /\ plat = "loop" /\ vtActive
      /\ current' = PrimaryRegion(regions)
      /\ pos' = <<regions[current'].x + p[1], regions[current'].y + p[2]>>
      /\ stray' = ~Contains(regions[current'], pos')
      /\ added' = TRUE /\ buttons' = mask
      /\ \/ /\ newly # {}
            /\ IF down THEN UNCHANGED grab
               ELSE capture' = current' /\ hasCapture' = TRUE
            /\ down' = TRUE
            /\ TellDown(regions[IF hasCapture' THEN capture' ELSE current'].view)
         \/ /\ newly = {} /\ gone # {}
            /\ down' = (mask # {})
            /\ IF mask = {} THEN TellUp /\ hasCapture' = FALSE
               ELSE UNCHANGED <<engine, hasCapture>>
            /\ UNCHANGED capture
         \/ /\ newly = {} /\ gone = {}
            /\ UNCHANGED <<grab, down, engine>>
      /\ UNCHANGED <<regions, keyboard, held, queue, session>>

-----------------------------------------------------------------------------
(* Mutant: an idle capture index may be left beyond the new list.          *)
SetRegionsUnbounded(rs) ==
  LET on == RegionContaining(rs, pos)
      view == IF hasCapture THEN regions[capture].view ELSE None
      kept == {i \in DOMAIN rs : rs[i].view = view}
  IN  /\ plat = "loop"
      /\ regions' = rs /\ stray' = FALSE
      /\ IF on # {}
         THEN UNCHANGED pos /\ current' \in on
         ELSE current' = PrimaryRegion(rs) /\ pos' = Centre(rs[current'])
      /\ hasCapture' = (kept # {})
      /\ capture' \in IF kept # {} THEN kept ELSE {capture}
      /\ engine' = IF engine.view \in ViewsOf(rs) THEN engine
                   ELSE [engine EXCEPT !.view = None]
      /\ UNCHANGED <<buttonState, keyboard, held, queue, session>>

(* Mutant: the pointer is not moved off an output that is gone.            *)
SetRegionsKeepsPointer(rs) ==
  LET on == RegionContaining(rs, pos)
      view == IF hasCapture THEN regions[capture].view ELSE None
      kept == {i \in DOMAIN rs : rs[i].view = view}
  IN  /\ plat = "loop"
      /\ regions' = rs /\ stray' = FALSE
      /\ UNCHANGED pos
      /\ current' \in IF on # {} THEN on ELSE {PrimaryRegion(rs)}
      /\ hasCapture' = (kept # {})
      /\ capture' \in IF kept # {} THEN kept
                     ELSE {IF capture \in DOMAIN rs THEN capture ELSE current'}
      /\ engine' = IF engine.view \in ViewsOf(rs) THEN engine
                   ELSE [engine EXCEPT !.view = None]
      /\ UNCHANGED <<buttonState, keyboard, held, queue, session>>

(* SetRegions: regions are identified by view, for their indexes shift.    *)
SetRegions(rs) ==
  LET on == RegionContaining(rs, pos)
      view == IF hasCapture THEN regions[capture].view ELSE None
      kept == {i \in DOMAIN rs : rs[i].view = view}
  IN  /\ plat = "loop"
      /\ regions' = rs /\ stray' = FALSE
      /\ IF on # {}
         THEN UNCHANGED pos /\ current' \in on
         ELSE current' = PrimaryRegion(rs) /\ pos' = Centre(rs[current'])
      /\ hasCapture' = (kept # {})
      /\ capture' \in IF kept # {} THEN kept
                     ELSE {IF capture \in DOMAIN rs THEN capture ELSE current'}
      /\ engine' = IF engine.view \in ViewsOf(rs) THEN engine
                   ELSE [engine EXCEPT !.view = None]
      /\ UNCHANGED <<buttonState, keyboard, held, queue, session>>

-----------------------------------------------------------------------------
(* The keyboard and the VT.                                                *)

(* The person at the keyboard.                                             *)
PressKey(k) ==
  /\ k \notin held /\ Len(queue) < MaxQueue
  /\ held' = held \cup {k}
  /\ queue' = Append(queue, [key |-> k, press |-> TRUE])
  /\ UNCHANGED <<pointer, keyboard, session>>

LiftKey(k) ==
  /\ k \in held /\ Len(queue) < MaxQueue
  /\ held' = held \ {k}
  /\ queue' = Append(queue, [key |-> k, press |-> FALSE])
  /\ UNCHANGED <<pointer, keyboard, session>>

(* ProcessEvents: vt_active is looked at once, before the first event, and *)
(* the VT may be taken away while the events are handled.  What is left in *)
(* the queue at its end arrived after libinput_dispatch.                   *)
BeginEvents ==
  /\ plat = "loop" /\ vtActive
  /\ plat' = "events"
  /\ UNCHANGED <<pointer, keyboard, held, queue, vtActive, pendingRelease,
                 pendingAcquire, vt>>

EndEvents ==
  /\ plat = "events"
  /\ plat' = "loop"
  /\ UNCHANGED <<pointer, keyboard, held, queue, vtActive, pendingRelease,
                 pendingAcquire, vt>>

(* HandleKeyboard, pressed: a chord asks for another VT and is not sent.   *)
KeyPressed ==
  /\ plat = "events" /\ queue # <<>> /\ Head(queue).press
  /\ LET k == Head(queue).key
         chord == Modifiers # {} /\ Modifiers \subseteq pressed /\ k \notin Modifiers
     IN  /\ pressed' = pressed \cup {k}
         /\ engineKeys' = IF chord THEN engineKeys ELSE engineKeys \cup {k}
  /\ queue' = Tail(queue)
  /\ UNCHANGED <<pointer, held, session>>

(* Mutant: a release that follows a chord's is not sent.                   *)
KeyReleasedUnsent ==
  /\ plat = "events" /\ queue # <<>> /\ ~Head(queue).press
  /\ pressed' = pressed \ {Head(queue).key}
  /\ engineKeys' = IF Modifiers \subseteq pressed THEN engineKeys
                   ELSE engineKeys \ {Head(queue).key}
  /\ queue' = Tail(queue)
  /\ UNCHANGED <<pointer, held, session>>

KeyReleased ==
  /\ plat = "events" /\ queue # <<>> /\ ~Head(queue).press
  /\ pressed' = pressed \ {Head(queue).key}
  /\ engineKeys' = engineKeys \ {Head(queue).key}
  /\ queue' = Tail(queue)
  /\ UNCHANGED <<pointer, held, session>>

(* DrainEvents: away from our VT, events are read and dropped.             *)
DrainEvents ==
  /\ plat = "loop" /\ ~vtActive /\ queue # <<>>
  /\ queue' = <<>>
  /\ UNCHANGED <<pointer, keyboard, held, session>>

(* ReleaseAllKeys: a key-up for every key of pressed_keys_.                *)
ReleaseAllKeys ==
  /\ engineKeys' = engineKeys \ pressed
  /\ pressed' = {}

(* VtReleaseHandler, in whatever the platform thread is doing.             *)
VtReleaseHandler ==
  /\ vt = "here"
  /\ vt' = "away" /\ vtActive' = FALSE /\ pendingRelease' = TRUE
  /\ UNCHANGED <<pointer, keyboard, held, queue, pendingAcquire, plat>>

VtAcquireHandler ==
  /\ vt = "away"
  /\ vt' = "here" /\ pendingAcquire' = TRUE
  /\ UNCHANGED <<pointer, keyboard, held, queue, vtActive, pendingRelease, plat>>

(* Mutant: the keys are forgotten before their releases are sent.          *)
SwitchedAwayForgets ==
  /\ plat = "loop" /\ pendingRelease
  /\ pendingRelease' = FALSE
  /\ pressed' = {}
  /\ UNCHANGED <<pointer, engineKeys, held, queue, vtActive, pendingAcquire, vt, plat>>

(* The loop sees g_vt_pending_release.                                     *)
SwitchedAway ==
  /\ plat = "loop" /\ pendingRelease
  /\ pendingRelease' = FALSE
  /\ ReleaseAllKeys
  /\ UNCHANGED <<pointer, held, queue, vtActive, pendingAcquire, vt, plat>>

(* The loop sees g_vt_pending_acquire; a signal may come before it is done. *)
BeginAcquire ==
  /\ plat = "loop" /\ pendingAcquire
  /\ pendingAcquire' = FALSE /\ plat' = "acquire"
  /\ UNCHANGED <<pointer, keyboard, held, queue, vtActive, pendingRelease, vt>>

SwitchedBack ==
  /\ plat = "acquire"
  /\ plat' = "loop" /\ vtActive' = TRUE
  /\ ReleaseAllKeys
  /\ UNCHANGED <<pointer, held, queue, pendingRelease, pendingAcquire, vt>>

-----------------------------------------------------------------------------
PointerStep ==
  \/ \E d \in Deltas : Motion(d)
  \/ MotionAbsolute \/ Axis
  \/ \E b \in Mapped \cup Unmapped : ButtonPressed(b) \/ ButtonReleased(b)
  \/ \E p \in Reports, mask \in SUBSET Mapped : InjectPointerAbs(p, mask)
  \/ \E rs \in Layouts : SetRegions(rs)

LoopStep ==
  \/ BeginEvents \/ KeyPressed \/ KeyReleased \/ EndEvents
  \/ DrainEvents \/ SwitchedAway \/ BeginAcquire \/ SwitchedBack

Next ==
  \/ PointerStep
  \/ \E k \in Keys : PressKey(k) \/ LiftKey(k)
  \/ LoopStep
  \/ VtReleaseHandler \/ VtAcquireHandler

Spec == Init /\ [][Next]_vars

(* Every pass of the loop looks at the flags and, when the VT is ours,     *)
(* handles what libinput has read.                                         *)
FairSpec ==
  /\ Spec
  /\ WF_vars(BeginEvents) /\ WF_vars(EndEvents) /\ SF_vars(KeyPressed \/ KeyReleased)
  /\ SF_vars(SwitchedAway) /\ SF_vars(BeginAcquire) /\ WF_vars(SwitchedBack)

-----------------------------------------------------------------------------
(* Properties.                                                             *)

TypeOK ==
  /\ regions \in Layouts /\ pos \in Int \X Int
  /\ current \in DOMAIN regions /\ capture \in DOMAIN regions
  /\ {hasCapture, added, down, stray} \subseteq BOOLEAN /\ buttons \subseteq Mapped
  /\ engine \in [down : BOOLEAN, view : AllViews \cup {None}]
  /\ pressed \subseteq Keys /\ engineKeys \subseteq Keys /\ held \subseteq Keys
  /\ queue \in Seq([key : Keys, press : BOOLEAN]) /\ Len(queue) <= MaxQueue
  /\ {vtActive, pendingRelease, pendingAcquire} \subseteq BOOLEAN
  /\ vt \in {"here", "away"} /\ plat \in {"loop", "events", "acquire"}

(* The pointer is inside the region current_region_ names, whatever inner  *)
(* corners it runs into and however the outputs are replaced under it.     *)
(* Only a report injected off the primary output takes it elsewhere, and   *)
(* the next motion or layout brings it back.                               *)
PointerOnItsRegion == stray \/ Contains(regions[current], pos)

(* fl_drm_input.h: "the pointer moves within the union of the regions".    *)
PointerInUnion == Containing(regions, pos) # {}

(* A gesture stays with the view it began on: while the engine holds the   *)
(* pointer down and that view still has a region, every event goes to it,  *)
(* though regions change index, more buttons come and go, the pointer is   *)
(* injected and it crosses seams (pointer capture, fl_drm_input.h).        *)
GestureKeepsItsView ==
  engine.down /\ engine.view # None => Routed = engine.view

(* libinput's and the injected buttons share one gesture: the engine was   *)
(* told the pointer is down exactly while pointer_down_ is set, which a    *)
(* held button implies, and a capture never outlives it.                   *)
EngineAgrees ==
  /\ engine.down = down
  /\ buttons # {} => down
  /\ hasCapture => down

(* "no layer is left with stuck modifiers": once the loop has noticed that *)
(* the VT is gone, the engine holds no key down.                           *)
AwayHoldsNothing == ~vtActive /\ ~pendingRelease => engineKeys = {}

(* A key the engine holds is held on the keyboard, or its release is still *)
(* to be read, through VT switches that swallow the release.               *)
KeysNotStuck ==
  queue = <<>> /\ ~pendingRelease => engineKeys \subseteq held

(* Once a key is up, and stays up, the engine hears of it.                 *)
KeyUpArrives == \A k \in Keys : k \notin held ~> k \in held \/ k \notin engineKeys
=============================================================================
