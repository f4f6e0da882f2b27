---------------------------- MODULE InputProofs ----------------------------
(***************************************************************************)
(* Proofs about module Input, for any layouts, motions, buttons, keys and  *)
(* queue bound.                                                            *)
(***************************************************************************)
EXTENDS Input, TLAPS

(* Where the gesture is routed: its view is the captured one.              *)
CaptureIsGesture ==
  engine.view # None =>
    engine.down /\ hasCapture /\ regions[capture].view = engine.view

(* ProcessEvents goes on after the VT is taken, with the release pending.  *)
EventsAwayArePending == plat = "events" /\ ~vtActive => pendingRelease

(* A key's release is still in the queue (after the place i).              *)
ReleaseAfter(i, k) == \E j \in DOMAIN queue : j > i /\ queue[j] = [key |-> k, press |-> FALSE]

(* The keys the engine holds are tracked, and the queue tells how they end. *)
KeysTracked ==
  /\ engineKeys \subseteq pressed
  /\ \A i \in DOMAIN queue, k \in Keys :
       queue[i] = [key |-> k, press |-> TRUE] => k \in held \/ ReleaseAfter(i, k)
  /\ ~pendingRelease => \A k \in engineKeys : k \in held \/ ReleaseAfter(0, k)

IInv ==
  /\ TypeOK
  /\ PointerOnItsRegion
  /\ EngineAgrees
  /\ CaptureIsGesture
  /\ EventsAwayArePending
  /\ AwayHoldsNothing
  /\ KeysTracked

Event == [key : Keys, press : BOOLEAN]

-----------------------------------------------------------------------------
(* Lemmas about regions and points.                                        *)

(* A layout is a nonempty list of regions, and has a primary region.       *)
LEMMA LayoutLemma ==
  ASSUME NEW rs \in Layouts
  PROVE  /\ rs \in Seq(Region) /\ Len(rs) \in Nat /\ DOMAIN rs = 1..Len(rs)
         /\ \A i \in DOMAIN rs : rs[i] \in Region /\ rs[i].view \in AllViews
         /\ 1 \in DOMAIN rs
         /\ PrimaryRegion(rs) \in DOMAIN rs
<1>1. rs \in Seq(Region) /\ rs # <<>>
  BY ConstantsOK
<1>2. Len(rs) \in Nat /\ DOMAIN rs = 1..Len(rs) /\ 1 \in DOMAIN rs
  BY <1>1
<1>3. \A i \in DOMAIN rs : rs[i] \in Region
  BY <1>1
<1>4. PrimaryRegion(rs) \in DOMAIN rs
  <2>1. CASE Implicit \in ViewsOf(rs)
    <3>1. \E i \in DOMAIN rs : rs[i].view = Implicit
      BY <2>1 DEF ViewsOf
    <3> QED BY <2>1, <3>1 DEF PrimaryRegion
  <2>2. CASE Implicit \notin ViewsOf(rs)
    BY <2>2, <1>2 DEF PrimaryRegion
  <2> QED BY <2>1, <2>2
<1> QED BY <1>1, <1>2, <1>3, <1>4 DEF Region

(* The points of a region are those it contains.                           *)
LEMMA PointsLemma ==
  ASSUME NEW r \in Region, NEW p \in Points(r)
  PROVE  p \in Int \X Int /\ Contains(r, p)
BY DEF Region, Points, Contains

(* A region contains its centre.                                           *)
LEMMA CentreLemma ==
  ASSUME NEW r \in Region
  PROVE  Centre(r) \in Int \X Int /\ Contains(r, Centre(r))
<1>1. r.x \in Int /\ r.y \in Int /\ r.w \in Nat \ {0} /\ r.h \in Nat \ {0}
  BY DEF Region
<1>2. \A n \in Nat \ {0} : n \div 2 \in Nat /\ n \div 2 < n
  OBVIOUS
<1>3. r.w \div 2 \in Nat /\ r.w \div 2 < r.w /\ r.h \div 2 \in Nat /\ r.h \div 2 < r.h
  BY <1>1, <1>2
<1> QED BY <1>1, <1>3 DEF Centre, Contains

(* Clamping gives a point of the region.                                   *)
LEMMA ClampLemma ==
  ASSUME NEW r \in Region, NEW p \in Int \X Int
  PROVE  Clamp(r, p) \in Int \X Int /\ Contains(r, Clamp(r, p))
BY DEF Region, Clamp, Contains, Max2, Min2

(* An event appended to the queue goes after all others.                   *)
LEMMA AppendLemma ==
  ASSUME NEW S, NEW q \in Seq(S), NEW e \in S
  PROVE  /\ Append(q, e) \in Seq(S)
         /\ Len(Append(q, e)) = Len(q) + 1
         /\ DOMAIN q = 1..Len(q) /\ Len(q) \in Nat
         /\ DOMAIN Append(q, e) = 1..(Len(q) + 1)
         /\ \A i \in DOMAIN q : Append(q, e)[i] = q[i]
         /\ Append(q, e)[Len(q) + 1] = e
  OBVIOUS

(* Taking the head off moves the others one place forward.                 *)
LEMMA TailLemma ==
  ASSUME NEW S, NEW q \in Seq(S), q # <<>>
  PROVE  /\ Head(q) \in S /\ Head(q) = q[1] /\ 1 \in DOMAIN q
         /\ Tail(q) \in Seq(S) /\ Len(Tail(q)) = Len(q) - 1
         /\ DOMAIN q = 1..Len(q) /\ Len(q) \in Nat
         /\ DOMAIN Tail(q) = 1..(Len(q) - 1)
         /\ \A i \in DOMAIN Tail(q) : i + 1 \in DOMAIN q /\ Tail(q)[i] = q[i + 1]
  OBVIOUS

-----------------------------------------------------------------------------
(* The initial state satisfies the invariant.                              *)
LEMMA InitInv == Init => IInv
<1> SUFFICES ASSUME Init PROVE IInv
  OBVIOUS
<1>1. /\ regions[1] \in Region /\ 1 \in DOMAIN regions
  BY LayoutLemma DEF Init
<1>2. pos \in Int \X Int /\ Contains(regions[1], pos)
  BY <1>1, CentreLemma DEF Init
<1>3. queue \in Seq(Event) /\ Len(queue) <= MaxQueue /\ DOMAIN queue = {}
  BY ConstantsOK DEF Init
<1>4. TypeOK
  BY <1>1, <1>2, <1>3 DEF Init, TypeOK, Event
<1> QED
  BY <1>2, <1>3, <1>4
  DEF Init, IInv, PointerOnItsRegion, EngineAgrees, CaptureIsGesture,
      EventsAwayArePending, AwayHoldsNothing, KeysTracked

-----------------------------------------------------------------------------
(* The pointer's steps change nothing the keyboard's conjuncts speak of.   *)
LEMMA KeyboardStutters ==
  ASSUME TypeOK, KeysTracked, AwayHoldsNothing, EventsAwayArePending,
         UNCHANGED <<keyboard, held, queue, session>>
  PROVE  /\ KeysTracked' /\ AwayHoldsNothing' /\ EventsAwayArePending'
  BY DEF KeysTracked, AwayHoldsNothing, EventsAwayArePending, keyboard, session,
         ReleaseAfter

(* And the other way round.                                                *)
LEMMA PointerStutters ==
  ASSUME PointerOnItsRegion, EngineAgrees, CaptureIsGesture, UNCHANGED pointer
  PROVE  PointerOnItsRegion' /\ EngineAgrees' /\ CaptureIsGesture'
  BY DEF PointerOnItsRegion, EngineAgrees, CaptureIsGesture, Contains,
         pointer, place, grab, buttonState

(* A motion ends on an output, in the region it is credited to.            *)
LEMMA MotionStep ==
  ASSUME TypeOK, PointerOnItsRegion, NEW d \in Deltas, Motion(d)
  PROVE  /\ pos' \in Int \X Int /\ current' \in DOMAIN regions
         /\ Contains(regions[current'], pos')
<1> DEFINE full == <<pos[1] + d[1], pos[2] + d[2]>>
           slides == << full, <<full[1], pos[2]>>, <<pos[1], full[2]>> >>
           good == {i \in 1..3 : Containing(regions, slides[i]) # {}}
<1>1. /\ pos \in Int \X Int /\ current \in DOMAIN regions
      /\ regions[current] \in Region
  BY LayoutLemma DEF TypeOK
<1>2. d \in Int \X Int
  BY ConstantsOK
<1>3. full \in Int \X Int /\ \A i \in 1..3 : slides[i] \in Int \X Int
  BY <1>1, <1>2
<1>4. CASE pos' = Clamp(regions[current], full) /\ current' = current
  BY <1>1, <1>3, <1>4, ClampLemma
<1>5. ASSUME NEW i \in First(good), pos' = slides[i],
             current' \in RegionContaining(regions, slides[i])
      PROVE  /\ pos' \in Int \X Int /\ current' \in DOMAIN regions
             /\ Contains(regions[current'], pos')
  <2> HIDE DEF slides
  <2> QED BY <1>3, <1>5 DEF First, RegionContaining, Containing
<1> QED BY <1>4, <1>5 DEF Motion

(* An event of the queue's tail that is a release keeps its order.         *)
LEMMA TailKeepsReleases ==
  ASSUME queue \in Seq(Event), queue # <<>>, queue' = Tail(queue),
         NEW i \in Nat, NEW k, ReleaseAfter(i + 1, k)
  PROVE  ReleaseAfter(i, k)'
<1>1. PICK j \in DOMAIN queue : j > i + 1 /\ queue[j] = [key |-> k, press |-> FALSE]
  BY DEF ReleaseAfter
<1>2. /\ DOMAIN queue = 1..Len(queue) /\ Len(queue) \in Nat
      /\ DOMAIN queue' = 1..(Len(queue) - 1)
      /\ \A n \in DOMAIN queue' : queue'[n] = queue[n + 1]
  BY TailLemma
<1>3. j \in 1..Len(queue) /\ j - 1 \in 1..(Len(queue) - 1) /\ j - 1 > i
  BY <1>1, <1>2
<1>4. (j - 1) + 1 = j
  BY <1>3
<1>5. j - 1 \in DOMAIN queue' /\ queue'[j - 1] = queue[j]
  BY <1>2, <1>3, <1>4
<1> QED BY <1>1, <1>3, <1>5 DEF ReleaseAfter

-----------------------------------------------------------------------------
(* The pointer's conjuncts are preserved.                                  *)
LEMMA PointerInductive ==
  ASSUME TypeOK, PointerOnItsRegion, EngineAgrees, CaptureIsGesture, PointerStep
  PROVE  TypeOK' /\ PointerOnItsRegion' /\ EngineAgrees' /\ CaptureIsGesture'
<1>1. /\ regions \in Layouts /\ DOMAIN regions = 1..Len(regions)
      /\ \A i \in DOMAIN regions : regions[i] \in Region /\ regions[i].view \in AllViews
      /\ current \in DOMAIN regions /\ capture \in DOMAIN regions
      /\ PrimaryRegion(regions) \in DOMAIN regions
  BY LayoutLemma DEF TypeOK
<1>2. ASSUME NEW v \in AllViews, TellDown(v)
      PROVE  /\ engine' \in [down : BOOLEAN, view : AllViews \cup {None}]
             /\ engine'.down /\ (~engine.down => engine'.view = v)
             /\ (engine.down => engine' = engine)
  BY <1>2 DEF TellDown, TypeOK
<1>3. TellUp =>
        /\ engine' \in [down : BOOLEAN, view : AllViews \cup {None}]
        /\ engine'.down = FALSE /\ engine'.view = None
  BY DEF TellUp
<1>4. ASSUME NEW d \in Deltas, Motion(d)
      PROVE  TypeOK' /\ PointerOnItsRegion' /\ EngineAgrees' /\ CaptureIsGesture'
  <2>1. /\ pos' \in Int \X Int /\ current' \in DOMAIN regions
        /\ Contains(regions[current'], pos')
    BY <1>4, MotionStep
  <2>2. /\ added' = TRUE /\ stray' = FALSE
        /\ UNCHANGED <<regions, grab, down, buttons, engine, keyboard, held, queue, session>>
    BY <1>4 DEF Motion
  <2> QED BY <2>1, <2>2 DEF TypeOK, PointerOnItsRegion, EngineAgrees,
             CaptureIsGesture, grab, keyboard, session
<1>5. CASE MotionAbsolute
  <2>1. /\ pos' \in Int \X Int /\ current' \in DOMAIN regions
        /\ Contains(regions[current'], pos')
    BY <1>1, <1>5, PointsLemma DEF MotionAbsolute
  <2> QED BY <2>1, <1>5 DEF MotionAbsolute, TypeOK, PointerOnItsRegion, EngineAgrees,
             CaptureIsGesture, grab, keyboard, session
<1>6. CASE Axis
  BY <1>6 DEF Axis, TypeOK, PointerOnItsRegion, EngineAgrees, CaptureIsGesture,
     place, grab, keyboard, session, Contains
<1>7. ASSUME NEW b \in Mapped \cup Unmapped, ButtonPressed(b)
      PROVE  TypeOK' /\ PointerOnItsRegion' /\ EngineAgrees' /\ CaptureIsGesture'
  <2>1. /\ buttons' \subseteq Mapped /\ added' = TRUE /\ down' = TRUE
        /\ UNCHANGED <<place, keyboard, held, queue, session>>
        /\ (down => capture' = capture /\ hasCapture' = hasCapture)
        /\ (~down => capture' = current /\ hasCapture' = TRUE)
    BY <1>7 DEF ButtonPressed, grab, TypeOK
  <2>2. PICK v \in AllViews : TellDown(v) /\ (~down => v = regions[current].view)
    BY <1>1, <1>7, <2>1 DEF ButtonPressed
  <2>3. regions' = regions /\ pos' = pos /\ current' = current /\ stray' = stray
    BY <2>1 DEF place
  <2>4. TypeOK'
    BY <1>1, <1>2, <2>1, <2>2, <2>3 DEF TypeOK, keyboard, session
  <2>5. PointerOnItsRegion' /\ EngineAgrees'
    BY <1>2, <2>1, <2>2, <2>3 DEF PointerOnItsRegion, EngineAgrees, Contains
  <2>6. CaptureIsGesture'
    BY <1>2, <2>1, <2>2, <2>3 DEF CaptureIsGesture, EngineAgrees
  <2> QED BY <2>4, <2>5, <2>6
<1>8. ASSUME NEW b \in Mapped \cup Unmapped, ButtonReleased(b)
      PROVE  TypeOK' /\ PointerOnItsRegion' /\ EngineAgrees' /\ CaptureIsGesture'
  <2>1. /\ buttons' \subseteq Mapped /\ added' = TRUE /\ capture' = capture
        /\ UNCHANGED <<place, keyboard, held, queue, session>>
    BY <1>8 DEF ButtonReleased, TypeOK
  <2>2. regions' = regions /\ pos' = pos /\ current' = current /\ stray' = stray
    BY <2>1 DEF place
  <2>3. CASE buttons' # {}
    <3>1. down' = TRUE /\ hasCapture' = hasCapture /\ engine' = engine /\ buttons # {}
      BY <1>8, <2>3 DEF ButtonReleased
    <3> QED BY <2>1, <2>2, <3>1 DEF TypeOK, keyboard, session, PointerOnItsRegion,
               EngineAgrees, CaptureIsGesture, Contains
  <2>4. CASE buttons' = {}
    <3>1. down' = FALSE /\ hasCapture' = FALSE /\ TellUp
      BY <1>8, <2>4 DEF ButtonReleased
    <3> QED BY <1>3, <2>1, <2>2, <2>4, <3>1 DEF TypeOK, keyboard, session,
               PointerOnItsRegion, EngineAgrees, CaptureIsGesture, Contains
  <2> QED BY <2>3, <2>4
<1>9. ASSUME NEW p \in Reports, NEW mask \in SUBSET Mapped, InjectPointerAbs(p, mask)
      PROVE  TypeOK' /\ PointerOnItsRegion' /\ EngineAgrees' /\ CaptureIsGesture'
  <2> DEFINE newly == mask \ buttons
             gone == buttons \ mask
  <2>1. /\ pos' \in Int \X Int /\ current' \in DOMAIN regions
        /\ stray' = ~Contains(regions[current'], pos')
    <3>1. p \in Int \X Int
      BY ConstantsOK
    <3>2. current' \in DOMAIN regions /\ regions[current'] \in Region
      BY <1>1, <1>9 DEF InjectPointerAbs
    <3>3. regions[current'].x \in Int /\ regions[current'].y \in Int
      BY <3>2 DEF Region
    <3>4. /\ pos' = <<regions[current'].x + p[1], regions[current'].y + p[2]>>
          /\ stray' = ~Contains(regions[current'], pos')
      BY <1>9 DEF InjectPointerAbs
    <3> QED BY <3>1, <3>2, <3>3, <3>4
  <2>2. /\ added' = TRUE /\ buttons' = mask /\ regions' = regions
        /\ UNCHANGED <<keyboard, held, queue, session>>
    BY <1>9 DEF InjectPointerAbs
  <2>3. PointerOnItsRegion'
    BY <2>1, <2>2 DEF PointerOnItsRegion
  <2>s. stray' \in BOOLEAN
    BY <2>1 DEF Contains
  <2>4. ASSUME capture' \in DOMAIN regions, hasCapture' \in BOOLEAN, down' \in BOOLEAN,
               engine' \in [down : BOOLEAN, view : AllViews \cup {None}]
        PROVE  TypeOK'
    BY <2>1, <2>2, <2>s, <2>4 DEF TypeOK, keyboard, session
  <2>5. CASE newly # {}
    <3>1. /\ down' = TRUE
          /\ (down => capture' = capture /\ hasCapture' = hasCapture)
          /\ (~down => capture' = current' /\ hasCapture' = TRUE)
      BY <1>9, <2>5 DEF InjectPointerAbs, grab
    <3>2. PICK v \in AllViews : TellDown(v) /\ (~down => v = regions[current'].view)
      BY <1>1, <1>9, <2>1, <2>5, <3>1 DEF InjectPointerAbs
    <3>3. TypeOK'
      BY <1>1, <1>2, <2>1, <2>4, <3>1, <3>2 DEF TypeOK
    <3>4. EngineAgrees'
      BY <1>2, <2>2, <3>1, <3>2 DEF EngineAgrees
    <3>5. CaptureIsGesture'
      <4>1. CASE down
        <5>1. engine' = engine /\ capture' = capture /\ hasCapture' = hasCapture
          BY <1>2, <3>1, <3>2, <4>1 DEF EngineAgrees
        <5> QED BY <2>2, <5>1 DEF CaptureIsGesture
      <4>2. CASE ~down
        <5>1. engine'.down /\ engine'.view = regions[current'].view
          BY <1>2, <3>2, <4>2 DEF EngineAgrees
        <5> QED BY <2>2, <3>1, <4>2, <5>1 DEF CaptureIsGesture
      <4> QED BY <4>1, <4>2
    <3> QED BY <2>3, <3>3, <3>4, <3>5
  <2>6. CASE newly = {} /\ gone # {} /\ mask = {}
    <3>1. down' = FALSE /\ hasCapture' = FALSE /\ TellUp /\ capture' = capture
      BY <1>9, <2>6 DEF InjectPointerAbs
    <3> QED BY <1>1, <1>3, <2>2, <2>3, <2>4, <2>6, <3>1 DEF EngineAgrees, CaptureIsGesture
  <2>7. CASE newly = {} /\ gone # {} /\ mask # {}
    <3>1. down' = TRUE /\ hasCapture' = hasCapture /\ engine' = engine /\ capture' = capture
      BY <1>9, <2>7 DEF InjectPointerAbs
    <3>2. buttons # {}
      BY <2>7
    <3> QED BY <1>1, <2>2, <2>3, <2>4, <3>1, <3>2
            DEF TypeOK, EngineAgrees, CaptureIsGesture
  <2>8. CASE newly = {} /\ gone = {}
    <3>1. /\ down' = down /\ hasCapture' = hasCapture /\ engine' = engine
          /\ capture' = capture /\ mask = buttons
      BY <1>9, <2>8 DEF InjectPointerAbs, grab
    <3> QED BY <1>1, <2>2, <2>3, <2>4, <3>1
            DEF TypeOK, EngineAgrees, CaptureIsGesture
  <2> QED BY <2>5, <2>6, <2>7, <2>8
<1>10. ASSUME NEW rs \in Layouts, SetRegions(rs)
       PROVE  TypeOK' /\ PointerOnItsRegion' /\ EngineAgrees' /\ CaptureIsGesture'
  <2> DEFINE on == RegionContaining(rs, pos)
             view == IF hasCapture THEN regions[capture].view ELSE None
             kept == {i \in DOMAIN rs : rs[i].view = view}
  <2>1. /\ regions' = rs /\ stray' = FALSE /\ hasCapture' = (kept # {})
        /\ UNCHANGED <<buttonState, keyboard, held, queue, session>>
        /\ capture' \in IF kept # {} THEN kept
                        ELSE {IF capture \in DOMAIN rs THEN capture ELSE current'}
    BY <1>10 DEF SetRegions
  <2>2. /\ \A i \in DOMAIN rs : rs[i] \in Region /\ rs[i].view \in AllViews
        /\ PrimaryRegion(rs) \in DOMAIN rs
    BY LayoutLemma
  <2>3. /\ pos' \in Int \X Int /\ current' \in DOMAIN rs
        /\ Contains(rs[current'], pos')
    <3>1. CASE on # {}
      <4>1. pos' = pos /\ current' \in on
        BY <1>10, <3>1 DEF SetRegions
      <4> QED BY <4>1 DEF RegionContaining, First, Containing, TypeOK
    <3>2. CASE on = {}
      <4>1. current' = PrimaryRegion(rs) /\ pos' = Centre(rs[current'])
        BY <1>10, <3>2 DEF SetRegions
      <4> QED BY <4>1, <2>2, CentreLemma
    <3> QED BY <3>1, <3>2
  <2>4. capture' \in DOMAIN rs /\ (hasCapture' => rs[capture'].view = view)
    BY <2>1, <2>3
  <2>5. /\ engine' \in [down : BOOLEAN, view : AllViews \cup {None}]
        /\ engine'.down = engine.down
        /\ engine'.view # None => engine'.view = engine.view /\ engine.view \in ViewsOf(rs)
    BY <1>10 DEF SetRegions, TypeOK
  <2>6. TypeOK'
    BY <2>1, <2>3, <2>4, <2>5 DEF TypeOK, buttonState, keyboard, session
  <2>7. hasCapture' => hasCapture
    <3>1. \A i \in DOMAIN rs : rs[i].view # None
      BY <2>2, ConstantsOK
    <3>2. ~hasCapture => kept = {}
      BY <3>1
    <3> QED BY <2>1, <3>2
  <2>8. PointerOnItsRegion' /\ EngineAgrees'
    BY <2>1, <2>3, <2>5, <2>7 DEF PointerOnItsRegion, EngineAgrees, buttonState
  <2>9. CaptureIsGesture'
    <3>1. SUFFICES ASSUME engine'.view # None
                   PROVE  engine'.down /\ hasCapture' /\ rs[capture'].view = engine'.view
      BY <2>1 DEF CaptureIsGesture
    <3>2. engine.down /\ hasCapture /\ regions[capture].view = engine.view
      BY <2>5, <3>1 DEF CaptureIsGesture
    <3>3. view = engine'.view /\ kept # {}
      BY <2>5, <3>1, <3>2 DEF ViewsOf
    <3> QED BY <2>1, <2>4, <2>5, <3>2, <3>3
  <2> QED BY <2>6, <2>8, <2>9
<1> QED BY <1>4, <1>5, <1>6, <1>7, <1>8, <1>9, <1>10 DEF PointerStep

-----------------------------------------------------------------------------
(* Appending an event keeps the releases that wait in the queue.           *)
LEMMA AppendKeepsReleases ==
  ASSUME queue \in Seq(Event), NEW e \in Event, queue' = Append(queue, e)
  PROVE  /\ \A i \in Nat, k \in Keys : ReleaseAfter(i, k) => ReleaseAfter(i, k)'
         /\ queue' \in Seq(Event) /\ Len(queue') = Len(queue) + 1
         /\ DOMAIN queue = 1..Len(queue) /\ DOMAIN queue' = 1..(Len(queue) + 1)
         /\ Len(queue) \in Nat
         /\ \A i \in DOMAIN queue : i \in Nat /\ queue'[i] = queue[i]
         /\ queue'[Len(queue) + 1] = e
<1>1. /\ queue' \in Seq(Event) /\ Len(queue') = Len(queue) + 1
      /\ DOMAIN queue = 1..Len(queue) /\ DOMAIN queue' = 1..(Len(queue) + 1)
      /\ Len(queue) \in Nat
      /\ \A i \in DOMAIN queue : queue'[i] = queue[i]
      /\ queue'[Len(queue) + 1] = e
  BY AppendLemma
<1>2. DOMAIN queue \subseteq DOMAIN queue' /\ \A i \in DOMAIN queue : i \in Nat
  BY <1>1
<1>3. ASSUME NEW i \in Nat, NEW k \in Keys, ReleaseAfter(i, k)
      PROVE  ReleaseAfter(i, k)'
  <2>1. PICK j \in DOMAIN queue : j > i /\ queue[j] = [key |-> k, press |-> FALSE]
    BY <1>3 DEF ReleaseAfter
  <2>2. j \in DOMAIN queue' /\ queue'[j] = [key |-> k, press |-> FALSE]
    BY <1>1, <1>2, <2>1
  <2> QED BY <2>1, <2>2 DEF ReleaseAfter
<1> QED BY <1>1, <1>2, <1>3

(* The keyboard's conjuncts are preserved by its own steps.                *)
LEMMA KeyboardInductive ==
  ASSUME TypeOK, KeysTracked, AwayHoldsNothing, EventsAwayArePending,
         \/ \E k \in Keys : PressKey(k) \/ LiftKey(k)
         \/ LoopStep \/ VtReleaseHandler \/ VtAcquireHandler
  PROVE  /\ TypeOK' /\ KeysTracked' /\ AwayHoldsNothing' /\ EventsAwayArePending'
         /\ UNCHANGED pointer
<1>1. /\ queue \in Seq(Event) /\ Len(queue) <= MaxQueue /\ Len(queue) \in Nat
      /\ MaxQueue \in Nat
  BY ConstantsOK DEF TypeOK, Event
<1>2. ASSUME UNCHANGED pointer, queue' \in Seq(Event), Len(queue') <= MaxQueue,
             pressed' \subseteq Keys, engineKeys' \subseteq Keys, held' \subseteq Keys,
             {vtActive', pendingRelease', pendingAcquire'} \subseteq BOOLEAN,
             vt' \in {"here", "away"}, plat' \in {"loop", "events", "acquire"}
      PROVE  TypeOK'
  BY <1>2 DEF TypeOK, Event, pointer, place, grab, buttonState
<1>3. ASSUME NEW k \in Keys, PressKey(k)
      PROVE  /\ TypeOK' /\ KeysTracked' /\ AwayHoldsNothing' /\ EventsAwayArePending'
             /\ UNCHANGED pointer
  <2>1. /\ held' = held \cup {k} /\ Len(queue) < MaxQueue
        /\ queue' = Append(queue, [key |-> k, press |-> TRUE])
        /\ UNCHANGED <<pointer, keyboard, session>>
    BY <1>3 DEF PressKey
  <2>2. PICK e \in Event : e = [key |-> k, press |-> TRUE]
    BY DEF Event
  <2>3. /\ \A i \in Nat, n \in Keys : ReleaseAfter(i, n) => ReleaseAfter(i, n)'
        /\ queue' \in Seq(Event) /\ Len(queue') = Len(queue) + 1
        /\ DOMAIN queue = 1..Len(queue) /\ DOMAIN queue' = 1..(Len(queue) + 1)
        /\ Len(queue) \in Nat
        /\ \A i \in DOMAIN queue : i \in Nat /\ queue'[i] = queue[i]
        /\ queue'[Len(queue) + 1] = e
    BY <1>1, <2>1, <2>2, AppendKeepsReleases
  <2>4. TypeOK'
    BY <1>1, <1>2, <2>1, <2>3 DEF TypeOK, keyboard, session
  <2>6. ASSUME NEW i \in DOMAIN queue', NEW n \in Keys,
               queue'[i] = [key |-> n, press |-> TRUE]
        PROVE  n \in held' \/ ReleaseAfter(i, n)'
    <3>1. CASE i = Len(queue) + 1
      <4>1. [key |-> n, press |-> TRUE] = [key |-> k, press |-> TRUE]
        BY <2>2, <2>3, <2>6, <3>1
      <4>2. n = k
        BY <4>1
      <4> QED BY <2>1, <4>2
    <3>2. CASE i \in DOMAIN queue
      <4>1. n \in held \/ ReleaseAfter(i, n)
        BY <2>3, <2>6, <3>2 DEF KeysTracked
      <4> QED BY <2>1, <2>3, <3>2, <4>1
    <3> QED BY <2>3, <3>1, <3>2
  <2>7. /\ engineKeys' = engineKeys /\ pressed' = pressed
        /\ pendingRelease' = pendingRelease /\ engineKeys \subseteq Keys
    BY <2>1 DEF keyboard, session, TypeOK
  <2>8. ASSUME ~pendingRelease', NEW n \in engineKeys'
        PROVE  n \in held' \/ ReleaseAfter(0, n)'
    <3>1. n \in Keys /\ (n \in held \/ ReleaseAfter(0, n))
      BY <2>7, <2>8 DEF KeysTracked
    <3> QED BY <2>1, <2>3, <3>1
  <2>9. KeysTracked'
    BY <2>6, <2>7, <2>8 DEF KeysTracked
  <2> QED BY <2>1, <2>4, <2>9
          DEF AwayHoldsNothing, EventsAwayArePending, keyboard, session
<1>4. ASSUME NEW k \in Keys, LiftKey(k)
      PROVE  /\ TypeOK' /\ KeysTracked' /\ AwayHoldsNothing' /\ EventsAwayArePending'
             /\ UNCHANGED pointer
  <2>1. /\ held' = held \ {k} /\ Len(queue) < MaxQueue
        /\ queue' = Append(queue, [key |-> k, press |-> FALSE])
        /\ UNCHANGED <<pointer, keyboard, session>>
    BY <1>4 DEF LiftKey
  <2>2. PICK e \in Event : e = [key |-> k, press |-> FALSE]
    BY DEF Event
  <2>3. /\ \A i \in Nat, n \in Keys : ReleaseAfter(i, n) => ReleaseAfter(i, n)'
        /\ queue' \in Seq(Event) /\ Len(queue') = Len(queue) + 1
        /\ DOMAIN queue = 1..Len(queue) /\ DOMAIN queue' = 1..(Len(queue) + 1)
        /\ Len(queue) \in Nat
        /\ \A i \in DOMAIN queue : i \in Nat /\ queue'[i] = queue[i]
        /\ queue'[Len(queue) + 1] = e
    BY <1>1, <2>1, <2>2, AppendKeepsReleases
  <2>4. TypeOK'
    BY <1>1, <1>2, <2>1, <2>3 DEF TypeOK, keyboard, session
  <2>5. \A i \in 0..Len(queue) : ReleaseAfter(i, k)'
    BY <2>2, <2>3 DEF ReleaseAfter
  <2>6. ASSUME NEW i \in DOMAIN queue', NEW n \in Keys,
               queue'[i] = [key |-> n, press |-> TRUE]
        PROVE  n \in held' \/ ReleaseAfter(i, n)'
    <3>1. i # Len(queue) + 1
      <4>1. ASSUME i = Len(queue) + 1 PROVE FALSE
        <5>1. [key |-> n, press |-> TRUE] = [key |-> k, press |-> FALSE]
          BY <2>2, <2>3, <2>6, <4>1
        <5> QED BY <5>1
      <4> QED BY <4>1
    <3>2. i \in DOMAIN queue /\ i \in 0..Len(queue)
      BY <2>3, <3>1
    <3>3. n \in held \/ ReleaseAfter(i, n)
      BY <2>3, <2>6, <3>2 DEF KeysTracked
    <3>4. CASE n = k
      BY <2>5, <3>2, <3>4
    <3>5. CASE n # k
      BY <2>1, <2>3, <3>2, <3>3, <3>5
    <3> QED BY <3>4, <3>5
  <2>7. /\ engineKeys' = engineKeys /\ pressed' = pressed
        /\ pendingRelease' = pendingRelease /\ engineKeys \subseteq Keys
    BY <2>1 DEF keyboard, session, TypeOK
  <2>8. ASSUME ~pendingRelease', NEW n \in engineKeys'
        PROVE  n \in held' \/ ReleaseAfter(0, n)'
    <3>1. n \in Keys /\ (n \in held \/ ReleaseAfter(0, n))
      BY <2>7, <2>8 DEF KeysTracked
    <3> QED BY <2>1, <2>3, <2>5, <3>1
  <2>9. KeysTracked'
    BY <2>6, <2>7, <2>8 DEF KeysTracked
  <2> QED BY <2>1, <2>4, <2>9
          DEF AwayHoldsNothing, EventsAwayArePending, keyboard, session
<1>5. CASE KeyPressed \/ KeyReleased
  <2>1. queue # <<>> /\ queue' = Tail(queue)
    BY <1>5 DEF KeyPressed, KeyReleased
  <2>2. /\ UNCHANGED <<pointer, held, session>> /\ plat = "events"
    BY <1>5 DEF KeyPressed, KeyReleased
  <2>3. /\ Head(queue) \in Event /\ Head(queue) = queue[1] /\ 1 \in DOMAIN queue
        /\ queue' \in Seq(Event) /\ Len(queue') = Len(queue) - 1
        /\ DOMAIN queue = 1..Len(queue) /\ DOMAIN queue' = 1..(Len(queue) - 1)
        /\ \A i \in DOMAIN queue' : i + 1 \in DOMAIN queue /\ queue'[i] = queue[i + 1]
    BY <1>1, <2>1, TailLemma
  <2>4. pressed' \subseteq Keys /\ engineKeys' \subseteq pressed'
    <3>1. Head(queue).key \in Keys
      BY <2>3 DEF Event
    <3> QED BY <1>5, <3>1 DEF KeyPressed, KeyReleased, KeysTracked, TypeOK
  <2>5. TypeOK'
    BY <1>1, <1>2, <2>2, <2>3, <2>4 DEF TypeOK, session
  <2>6. ASSUME NEW i \in DOMAIN queue', NEW n \in Keys,
               queue'[i] = [key |-> n, press |-> TRUE]
        PROVE  n \in held' \/ ReleaseAfter(i, n)'
    <3>1. i \in Nat /\ i + 1 \in DOMAIN queue /\ queue[i + 1] = [key |-> n, press |-> TRUE]
      <4>1. i \in 1..(Len(queue) - 1) /\ i + 1 \in DOMAIN queue /\ queue'[i] = queue[i + 1]
        BY <2>3
      <4>2. i \in Nat
        BY <1>1, <4>1
      <4> QED BY <2>6, <4>1, <4>2
    <3>2. n \in held \/ ReleaseAfter(i + 1, n)
      BY <3>1 DEF KeysTracked
    <3>3. held' = held
      BY <2>2
    <3> QED BY <1>1, <2>1, <3>1, <3>2, <3>3, TailKeepsReleases
  <2>7. ASSUME ~pendingRelease', NEW n \in engineKeys'
        PROVE  n \in held' \/ ReleaseAfter(0, n)'
    <3>1. /\ ~pendingRelease /\ held' = held
      BY <2>2, <2>7 DEF session
    <3>2. n \in held \/ ReleaseAfter(1, n)
      <4>1. CASE KeyPressed
        <5>1. n \in engineKeys \/ (n = queue[1].key)
          BY <2>3, <2>7, <4>1 DEF KeyPressed
        <5>2. queue[1].press
          BY <2>3, <4>1 DEF KeyPressed
        <5>3. CASE n = queue[1].key
          <6>1. n \in Keys /\ queue[1] = [key |-> n, press |-> TRUE]
            BY <2>3, <5>2, <5>3 DEF Event
          <6> QED BY <2>3, <6>1 DEF KeysTracked
        <5>4. CASE n \in engineKeys
          <6>1. n \in held \/ ReleaseAfter(0, n)
            BY <3>1, <5>4 DEF KeysTracked
          <6>2. ASSUME NEW j \in DOMAIN queue, j > 0, queue[j] = [key |-> n, press |-> FALSE]
                PROVE  j > 1
            BY <1>1, <2>3, <5>2, <6>2
          <6> QED BY <6>1, <6>2 DEF ReleaseAfter
        <5> QED BY <5>1, <5>3, <5>4
      <4>2. CASE KeyReleased
        <5>1. n \in engineKeys /\ n # queue[1].key
          BY <2>3, <2>7, <4>2 DEF KeyReleased
        <5>2. n \in held \/ ReleaseAfter(0, n)
          BY <3>1, <5>1 DEF KeysTracked
        <5>3. ASSUME NEW j \in DOMAIN queue, j > 0, queue[j] = [key |-> n, press |-> FALSE]
              PROVE  j > 1
          BY <1>1, <2>3, <5>1, <5>3
        <5> QED BY <5>2, <5>3 DEF ReleaseAfter
      <4> QED BY <1>5, <4>1, <4>2
    <3>3. 0 + 1 = 1
      OBVIOUS
    <3> QED BY <1>1, <2>1, <3>1, <3>2, <3>3, TailKeepsReleases
  <2>8. KeysTracked'
    BY <2>4, <2>6, <2>7 DEF KeysTracked
  <2>9. AwayHoldsNothing' /\ EventsAwayArePending'
    BY <2>2 DEF AwayHoldsNothing, EventsAwayArePending, session
  <2> QED BY <2>2, <2>5, <2>8, <2>9
<1>6. CASE BeginEvents \/ EndEvents \/ BeginAcquire \/ VtReleaseHandler \/ VtAcquireHandler
  <2>1. UNCHANGED <<pointer, keyboard, held, queue>>
    BY <1>6 DEF BeginEvents, EndEvents, BeginAcquire, VtReleaseHandler, VtAcquireHandler
  <2>2. /\ vt' \in {"here", "away"} /\ plat' \in {"loop", "events", "acquire"}
        /\ {vtActive', pendingRelease', pendingAcquire'} \subseteq BOOLEAN
        /\ pendingRelease => pendingRelease'
        /\ ~vtActive' /\ vtActive => pendingRelease'
        /\ plat' = "events" /\ plat # "events" => vtActive'
    <3>0. /\ vtActive \in BOOLEAN /\ pendingRelease \in BOOLEAN /\ pendingAcquire \in BOOLEAN
          /\ vt \in {"here", "away"} /\ plat \in {"loop", "events", "acquire"}
      BY DEF TypeOK
    <3>1. CASE BeginEvents
      BY <3>0, <3>1 DEF BeginEvents
    <3>2. CASE EndEvents
      BY <3>0, <3>2 DEF EndEvents
    <3>3. CASE BeginAcquire
      BY <3>0, <3>3 DEF BeginAcquire
    <3>4. CASE VtReleaseHandler
      BY <3>0, <3>4 DEF VtReleaseHandler
    <3>5. CASE VtAcquireHandler
      BY <3>0, <3>5 DEF VtAcquireHandler
    <3> QED BY <1>6, <3>1, <3>2, <3>3, <3>4, <3>5
  <2>3. TypeOK'
    BY <1>1, <1>2, <2>1, <2>2 DEF TypeOK, keyboard
  <2>4. KeysTracked'
    BY <2>1, <2>2 DEF KeysTracked, ReleaseAfter, keyboard
  <2>5. AwayHoldsNothing' /\ EventsAwayArePending'
    BY <2>1, <2>2 DEF AwayHoldsNothing, EventsAwayArePending, keyboard, TypeOK
  <2> QED BY <2>1, <2>3, <2>4, <2>5
<1>7. CASE DrainEvents
  <2>1. /\ queue' = <<>> /\ plat = "loop" /\ ~vtActive
        /\ UNCHANGED <<pointer, keyboard, held, session>>
    BY <1>7 DEF DrainEvents
  <2>2. queue' \in Seq(Event) /\ Len(queue') <= MaxQueue /\ DOMAIN queue' = {}
    BY <1>1, <2>1
  <2>3. TypeOK'
    BY <1>2, <2>1, <2>2 DEF TypeOK, keyboard, session
  <2>4. ~pendingRelease' => engineKeys' = {}
    BY <2>1 DEF AwayHoldsNothing, keyboard, session
  <2>5. KeysTracked'
    BY <2>1, <2>2, <2>4 DEF KeysTracked, keyboard
  <2> QED BY <2>1, <2>3, <2>5 DEF AwayHoldsNothing, EventsAwayArePending, keyboard, session
<1>8. CASE SwitchedAway \/ SwitchedBack
  <2>1. /\ engineKeys' = {} /\ pressed' = {} /\ UNCHANGED <<pointer, held, queue>>
    BY <1>8 DEF SwitchedAway, SwitchedBack, ReleaseAllKeys, KeysTracked
  <2>2. /\ vt' = vt /\ plat' = "loop"
        /\ {vtActive', pendingRelease', pendingAcquire'} \subseteq BOOLEAN
    <3>1. CASE SwitchedAway
      BY <3>1 DEF SwitchedAway, TypeOK
    <3>2. CASE SwitchedBack
      BY <3>2 DEF SwitchedBack, TypeOK
    <3> QED BY <1>8, <3>1, <3>2
  <2>3. TypeOK'
    BY <1>1, <1>2, <2>1, <2>2 DEF TypeOK
  <2>4. KeysTracked'
    BY <2>1 DEF KeysTracked, ReleaseAfter
  <2> QED BY <2>1, <2>2, <2>3, <2>4 DEF AwayHoldsNothing, EventsAwayArePending
<1> QED BY <1>3, <1>4, <1>5, <1>6, <1>7, <1>8 DEF LoopStep

-----------------------------------------------------------------------------
(* Every step preserves the invariant.                                     *)
LEMMA Step == IInv /\ [Next]_vars => IInv'
<1> SUFFICES ASSUME IInv, [Next]_vars PROVE IInv'
  OBVIOUS
<1> USE DEF IInv
<1>1. CASE PointerStep
  <2>1. TypeOK' /\ PointerOnItsRegion' /\ EngineAgrees' /\ CaptureIsGesture'
    BY <1>1, PointerInductive
  <2>2. UNCHANGED <<keyboard, held, queue, session>>
    BY <1>1 DEF PointerStep, Motion, MotionAbsolute, Axis, ButtonPressed, ButtonReleased,
       InjectPointerAbs, SetRegions
  <2>3. KeysTracked' /\ AwayHoldsNothing' /\ EventsAwayArePending'
    BY <2>2, KeyboardStutters
  <2> QED BY <2>1, <2>3
<1>2. CASE \/ \E k \in Keys : PressKey(k) \/ LiftKey(k)
           \/ LoopStep \/ VtReleaseHandler \/ VtAcquireHandler
  <2>1. /\ TypeOK' /\ KeysTracked' /\ AwayHoldsNothing' /\ EventsAwayArePending'
        /\ UNCHANGED pointer
    BY <1>2, KeyboardInductive
  <2> QED BY <2>1, PointerStutters
<1>3. CASE UNCHANGED vars
  <2>1. UNCHANGED pointer /\ UNCHANGED <<keyboard, held, queue, session>>
    BY <1>3 DEF vars
  <2>2. TypeOK'
    BY <2>1 DEF TypeOK, pointer, place, grab, buttonState, keyboard, session
  <2> QED BY <2>1, <2>2, KeyboardStutters, PointerStutters
<1> QED BY <1>1, <1>2, <1>3 DEF Next

(* The strengthened invariant holds in every reachable state.              *)
THEOREM InductiveInvariant == Spec => []IInv
BY InitInv, Step, PTL DEF Spec

(* FlDrmInput keeps its types: current_region_ and capture_region_ are     *)
(* always indexes of the present regions_, so no handler reads beyond it.  *)
THEOREM TypeCorrect == Spec => []TypeOK
<1>1. IInv => TypeOK
  BY DEF IInv
<1> QED BY InductiveInvariant, <1>1, PTL

(* Neither motions nor the layouts SetRegions installs under the pointer   *)
(* take it off the region it is credited to; only an injected report does. *)
THEOREM PointerStaysOnOutputs == Spec => []PointerOnItsRegion
<1>1. IInv => PointerOnItsRegion
  BY DEF IInv
<1> QED BY InductiveInvariant, <1>1, PTL

(* What InjectPointerAbs leaves to its callers: reports on every primary.  *)
ReportsOnPrimary ==
  \A rs \in Layouts, p \in Reports :
    LET r == rs[PrimaryRegion(rs)] IN Contains(r, <<r.x + p[1], r.y + p[2]>>)

(* "The pointer moves within the union of the regions" (fl_drm_input.h),   *)
(* if no caller injects a position off the primary output.                 *)
THEOREM UnionIfReportsAre == Spec => [](ReportsOnPrimary => PointerInUnion)
<1> DEFINE Kept == ReportsOnPrimary => ~stray
<1>1. Init => Kept
  BY DEF Init
<1>2. IInv /\ Kept /\ [Next]_vars => Kept'
  <2> SUFFICES ASSUME IInv, ReportsOnPrimary, ~stray, [Next]_vars PROVE ~stray'
    OBVIOUS
  <2>1. ASSUME NEW p \in Reports, NEW mask \in SUBSET Mapped, InjectPointerAbs(p, mask)
        PROVE  ~stray'
    <3>1. regions \in Layouts /\ current' = PrimaryRegion(regions)
      BY <2>1 DEF IInv, TypeOK, InjectPointerAbs
    <3> QED BY <2>1, <3>1 DEF ReportsOnPrimary, InjectPointerAbs
  <2>2. CASE \/ \E d \in Deltas : Motion(d)
             \/ MotionAbsolute \/ Axis
             \/ \E b \in Mapped \cup Unmapped : ButtonPressed(b) \/ ButtonReleased(b)
             \/ \E rs \in Layouts : SetRegions(rs)
    BY <2>2 DEF Motion, MotionAbsolute, Axis, ButtonPressed, ButtonReleased, SetRegions,
                place
  <2>3. CASE UNCHANGED pointer
    BY <2>3 DEF pointer, place
  <2>4. CASE \/ \E k \in Keys : PressKey(k) \/ LiftKey(k)
             \/ LoopStep \/ VtReleaseHandler \/ VtAcquireHandler
    BY <2>3, <2>4
    DEF PressKey, LiftKey, LoopStep, BeginEvents, KeyPressed, KeyReleased, EndEvents,
        DrainEvents, SwitchedAway, BeginAcquire, SwitchedBack, VtReleaseHandler,
        VtAcquireHandler
  <2> QED BY <2>1, <2>2, <2>3, <2>4 DEF Next, PointerStep, vars
<1>3. IInv /\ Kept => (ReportsOnPrimary => PointerInUnion)
  BY DEF IInv, TypeOK, PointerOnItsRegion, PointerInUnion, Containing
<1> QED
  <2> HIDE DEF Kept
  <2> QED BY InductiveInvariant, <1>1, <1>2, <1>3, PTL DEF Spec

(* Pointer capture: a gesture's events all go to the view it began on, as  *)
(* long as that view has a region.                                         *)
THEOREM GestureIsOneViews == Spec => []GestureKeepsItsView
<1>1. IInv => GestureKeepsItsView
  BY DEF IInv, CaptureIsGesture, GestureKeepsItsView, Routed, RoutingRegion
<1> QED BY InductiveInvariant, <1>1, PTL

(* pointer_down_, the held buttons and what the engine was told agree.     *)
THEOREM DownAgrees == Spec => []EngineAgrees
<1>1. IInv => EngineAgrees
  BY DEF IInv
<1> QED BY InductiveInvariant, <1>1, PTL

(* No key is left down at the engine while the VT is away.                 *)
THEOREM NothingHeldAway == Spec => []AwayHoldsNothing
<1>1. IInv => AwayHoldsNothing
  BY DEF IInv
<1> QED BY InductiveInvariant, <1>1, PTL

(* No key stays down at the engine after its release was read or lost.     *)
THEOREM NoStuckKeys == Spec => []KeysNotStuck
<1>1. IInv => KeysNotStuck
  BY DEF IInv, KeysTracked, KeysNotStuck, ReleaseAfter
<1> QED BY InductiveInvariant, <1>1, PTL
=============================================================================
