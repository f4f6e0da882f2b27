--------------------------- MODULE RecordingProofs --------------------------
(***************************************************************************)
(* Theorems about Recording, for any outputs, ring sizes, queue bound and  *)
(* session length, and whatever stimuli meet: every captured frame is      *)
(* accounted for, the encoder's slots are respected, the primary does not  *)
(* move under a session, and the sink is fed as FrameFeed promises.        *)
(***************************************************************************)
EXTENDS Recording, FiniteSetTheorems, TLAPS

(* What the presenting thread knows at each point of RunCaptureHooks.      *)
PresentKnows ==
  /\ pres \in {"toggle", "raiseFile", "stop", "start", "drain", "join"} =>
       frameOf \in Outputs
  /\ pres \in {"raiseFile", "sink", "raise", "drain", "join", "blit", "draw", "hand"} =>
       sink # None
  /\ pres = "sink" => sink = "callback" /\ writer = "none"
  /\ pres = "blit" =>
       sink \in {"file", "callback"} /\ captured < MaxFrames /\ pbo[slot] = None
  /\ pres \in {"draw", "hand"} <=> target # None
  /\ pres \in {"draw", "hand"} => sink = "dmabuf"
  /\ pres = "draw" => target \notin busy
  /\ sink # None => size \in Outputs
  /\ plat = "switch" => wanted \in Outputs

(* The writer thread lives as long as a session that needs it, is told to  *)
(* finish when the ring is drained, and exits with nothing left to do.     *)
WriterLife ==
  /\ sink \in {None, "dmabuf"} => writer = "none"
  /\ sink \in {"file", "callback"} /\ pres # "sink" => writer # "none"
  /\ writing # None <=> writer = "writing"
  /\ pres = "join" => Pending = {}
  /\ done => pres = "join" /\ writer # "none"
  /\ writer = "exited" => done /\ queue = <<>>
  /\ writer = "none" => queue = <<>> /\ Pending = {}

(* The ring holds the newest frames, each at the distance from rec_slot    *)
(* that its age says; while stop_rec drains it, the window shrinks.        *)
Window == IF pres = "drain" THEN left ELSE PboRing
Offset(p) == IF p >= slot THEN p - slot ELSE p + PboRing - slot

RingOrder ==
  \A p \in Pending : Offset(p) < Window /\ pbo[p] + Window = captured + 1 + Offset(p)

Newest == IF writing = None THEN last ELSE writing

QueueOrder ==
  /\ Newest <= captured /\ (writing # None => last < writing)
  /\ \A i \in DOMAIN queue : Newest < queue[i] /\ queue[i] <= captured
  /\ \A i, j \in DOMAIN queue : i < j => queue[i] < queue[j]
  /\ \A p \in Pending : Newest < pbo[p] /\ \A i \in DOMAIN queue : queue[i] < pbo[p]

Total ==
  delivered + dropped + unmapped + (IF writing = None THEN 0 ELSE 1) + Len(queue)
    + Cardinality(Pending) = captured

(* A session whose start no switch crossed has none crossing it.           *)
NoSwitchUnder ==
  /\ sink # None => recording \/ pres \in {"sink", "raise", "raiseFile"}
  /\ sink # None /\ ~slipped => size = primary /\ plat = "idle"

IInv ==
  /\ TypeOK /\ PresentKnows /\ WriterLife /\ RingOrder /\ QueueOrder /\ Total
  /\ SlotsAreHeld /\ NoSwitchUnder

-----------------------------------------------------------------------------
(* The sizes are positive, and None is none of the things it stands for.   *)
LEMMA Sizes ==
  /\ PboRing \in Nat \ {0} /\ QueueBound \in Nat \ {0} /\ Slots \in Nat \ {0}
  /\ MaxFrames \in Nat \ {0}
  /\ None \notin Nat /\ None \notin Outputs /\ None \notin {"file", "callback", "dmabuf"}
BY ConstantsOK

(* rec_slot goes round the ring.                                           *)
LEMMA NextSlot ==
  ASSUME NEW n \in Nat \ {0}, NEW s \in 0..n-1
  PROVE  (s + 1) % n = IF s + 1 = n THEN 0 ELSE s + 1
OBVIOUS

(* The i-th slot from s on, without the remainder.                         *)
LEMMA RingIndex ==
  ASSUME NEW n \in Nat \ {0}, NEW s \in 0..n-1, NEW i \in 0..n-1
  PROVE  (s + i) % n = IF s + i < n THEN s + i ELSE s + i - n
OBVIOUS

(* A remainder is an index of the ring.                                    *)
LEMMA RemainderInRing ==
  ASSUME NEW n \in Nat \ {0}, NEW s \in Nat
  PROVE  s % n \in 0..n-1
OBVIOUS

(* When rec_slot moves on every distance shrinks by one, and the slot left *)
(* behind becomes the farthest.                                            *)
LEMMA OffsetStep ==
  ASSUME slot \in 0..PboRing-1, slot' = (slot + 1) % PboRing
  PROVE  /\ slot' \in 0..PboRing-1
         /\ \A p \in 0..PboRing-1 :
              Offset(p)' = IF p = slot THEN PboRing - 1 ELSE Offset(p) - 1
<1>1. slot' = IF slot + 1 = PboRing THEN 0 ELSE slot + 1
  BY NextSlot, Sizes
<1>2. PboRing \in Nat \ {0} /\ slot \in Nat
  BY Sizes
<1>3. CASE slot + 1 = PboRing
  BY <1>1, <1>2, <1>3 DEF Offset
<1>4. CASE slot + 1 # PboRing
  BY <1>1, <1>2, <1>4 DEF Offset
<1> QED
  BY <1>3, <1>4

(* The pending slots can be counted, with or without one of them.          *)
LEMMA PendingCount ==
  ASSUME pbo \in [0..PboRing-1 -> Frames \cup {None}], NEW s
  PROVE  /\ IsFiniteSet(Pending) /\ Cardinality(Pending) \in Nat
         /\ Cardinality(Pending \ {s}) \in Nat
         /\ Cardinality(Pending \ {s}) =
              IF s \in Pending THEN Cardinality(Pending) - 1 ELSE Cardinality(Pending)
         /\ Cardinality(Pending \cup {s}) =
              IF s \in Pending THEN Cardinality(Pending) ELSE Cardinality(Pending) + 1
<1>1. IsFiniteSet(0..PboRing-1)
  BY FS_Interval, Sizes
<1>2. IsFiniteSet(Pending)
  BY <1>1, FS_Subset DEF Pending
<1>3. IsFiniteSet(Pending \ {s})
  BY <1>2, FS_Subset
<1> QED
  BY <1>2, <1>3, FS_CardinalityType, FS_RemoveElement, FS_AddElement

(* Appending to a sequence keeps its members and adds the new one last.    *)
LEMMA AppendLemma ==
  ASSUME NEW S, NEW q \in Seq(S), NEW e \in S
  PROVE  /\ Append(q, e) \in Seq(S)
         /\ Len(Append(q, e)) = Len(q) + 1
         /\ DOMAIN Append(q, e) = DOMAIN q \cup {Len(q) + 1}
         /\ \A i \in DOMAIN q : i < Len(q) + 1 /\ Append(q, e)[i] = q[i]
         /\ Append(q, e)[Len(q) + 1] = e
  OBVIOUS

(* Taking the head off leaves the other members, one place earlier.        *)
LEMMA TailLemma ==
  ASSUME NEW S, NEW q \in Seq(S), q # <<>>
  PROVE  /\ Head(q) \in S /\ Head(q) = q[1] /\ 1 \in DOMAIN q
         /\ Tail(q) \in Seq(S)
         /\ Len(Tail(q)) = Len(q) - 1
         /\ \A i \in DOMAIN Tail(q) :
              i + 1 \in DOMAIN q /\ 1 < i + 1 /\ Tail(q)[i] = q[i + 1]
  OBVIOUS

(* drain_slot on the oldest slot, while a session stops or a frame is      *)
(* captured: the slot is empty, the queue still in order, the sum right.   *)
LEMMA DrainLemma ==
  ASSUME TypeOK, RingOrder, QueueOrder, Total, DrainSlot(slot),
         UNCHANGED <<captured, delivered, last, writing>>
  PROVE  /\ pbo' \in [0..PboRing-1 -> Frames \cup {None}] /\ pbo'[slot] = None
         /\ Pending' = Pending \ {slot} /\ \A p \in Pending' : pbo'[p] = pbo[p]
         /\ queue' \in Seq(Frames) /\ Len(queue') <= QueueBound
         /\ dropped' \in 0..MaxFrames /\ unmapped' \in 0..MaxFrames
         /\ Pending = {} => queue' = queue
         /\ QueueOrder' /\ Total'
<1> USE Sizes DEF Frames
<1>0. /\ pbo \in [0..PboRing-1 -> Frames \cup {None}] /\ slot \in 0..PboRing-1
      /\ queue \in Seq(Frames) /\ Len(queue) <= QueueBound /\ left \in 0..PboRing
      /\ captured \in 0..MaxFrames /\ dropped \in 0..MaxFrames /\ unmapped \in 0..MaxFrames
      /\ delivered \in 0..MaxFrames /\ last \in 0..MaxFrames
      /\ writing \in Frames \cup {None}
  BY DEF TypeOK
<1>1. /\ pbo' = [pbo EXCEPT ![slot] = None]
      /\ pbo' \in [0..PboRing-1 -> Frames \cup {None}] /\ pbo'[slot] = None
  BY <1>0 DEF DrainSlot
<1>2. Pending' = Pending \ {slot} /\ \A p \in Pending' : pbo'[p] = pbo[p]
  BY <1>0, <1>1 DEF Pending
<1>3. CASE pbo[slot] = None
  <2>1. Pending' = Pending /\ UNCHANGED <<queue, dropped, unmapped>>
    BY <1>0, <1>2, <1>3 DEF Pending, DrainSlot
  <2>2. QueueOrder' /\ Total'
    BY <1>0, <1>2, <2>1 DEF QueueOrder, Newest, Total
  <2> QED
    BY <1>0, <1>1, <1>2, <2>1, <2>2
<1>4. CASE pbo[slot] # None
  <2>1. slot \in Pending /\ pbo[slot] \in Frames
    BY <1>0, <1>4 DEF Pending
  <2>2. /\ Window \in 0..PboRing /\ Offset(slot) = 0
        /\ \A p \in Pending' : p \in Pending /\ Offset(p) \in Nat \ {0} /\ pbo[p] \in Nat
    <3>1. Window \in 0..PboRing /\ Offset(slot) = 0
      BY <1>0 DEF Offset, Window
    <3>2. \A p \in Pending' : p \in Pending /\ p \in 0..PboRing-1 /\ p # slot
      BY <1>2 DEF Pending
    <3>3. \A p \in Pending' : Offset(p) \in Nat \ {0}
      BY <1>0, <3>2 DEF Offset
    <3>4. \A p \in Pending : pbo[p] \in Nat
      BY <1>0 DEF Pending
    <3> QED
      BY <3>1, <3>2, <3>3, <3>4
  <2>3. pbo[slot] <= captured /\ \A p \in Pending' : pbo[slot] < pbo[p]
    <3>1. pbo[slot] + Window = captured + 1 /\ 0 < Window /\ pbo[slot] \in Nat
      BY <1>0, <2>1, <2>2 DEF RingOrder
    <3>2. \A p \in Pending' : pbo[p] + Window = captured + 1 + Offset(p)
      BY <2>2 DEF RingOrder
    <3>3. Window \in Nat /\ captured \in Nat
      BY <1>0, <2>2
    <3> QED
      BY <2>2, <3>1, <3>2, <3>3
  <2>4. /\ Cardinality(Pending') = Cardinality(Pending) - 1
        /\ Cardinality(Pending) \in Nat /\ Cardinality(Pending') \in Nat
    BY <1>0, <1>2, <2>1, PendingCount
  <2>5. ASSUME Len(queue) < QueueBound, queue' = Append(queue, pbo[slot]),
               UNCHANGED <<dropped, unmapped>>
        PROVE  /\ queue' \in Seq(Frames) /\ Len(queue') <= QueueBound
               /\ dropped' \in 0..MaxFrames /\ unmapped' \in 0..MaxFrames
               /\ QueueOrder' /\ Total'
    <3>1. queue' = Append(queue, pbo[slot]) /\ dropped' = dropped /\ unmapped' = unmapped
      BY <2>5
    <3>2. /\ queue' \in Seq(Frames) /\ Len(queue') = Len(queue) + 1
          /\ DOMAIN queue' = DOMAIN queue \cup {Len(queue) + 1}
          /\ \A i \in DOMAIN queue : i < Len(queue) + 1 /\ queue'[i] = queue[i]
          /\ queue'[Len(queue) + 1] = pbo[slot]
      <4>1. queue \in Seq(Frames) /\ pbo[slot] \in Frames
        BY <1>0, <2>1
      <4> HIDE DEF Frames
      <4> QED
        BY <3>1, <4>1, AppendLemma
    <3>3. QueueOrder'
      <4>1. Newest' = Newest /\ Newest \in Nat /\ UNCHANGED <<captured, writing, last>>
        BY <1>0 DEF Newest
      <4>2. /\ \A i \in DOMAIN queue : queue[i] \in Nat /\ i \in Nat
            /\ \A p \in Pending' : p \in Pending /\ pbo'[p] = pbo[p] /\ pbo[p] \in Nat
        BY <1>0, <1>2, <2>2
      <4>3. \A i \in DOMAIN queue' : Newest' < queue'[i] /\ queue'[i] <= captured
        BY <1>0, <2>1, <2>3, <3>2, <4>1, <4>2 DEF QueueOrder
      <4>4. \A i, j \in DOMAIN queue' : i < j => queue'[i] < queue'[j]
        <5>1. \A i \in DOMAIN queue : i < Len(queue) + 1 /\ queue'[i] < pbo[slot]
          BY <2>1, <3>2 DEF QueueOrder
        <5>2. \A i, j \in DOMAIN queue : i < j => queue'[i] < queue'[j]
          BY <3>2 DEF QueueOrder
        <5>3. Len(queue) + 1 \in Nat /\ \A i \in DOMAIN queue : i \in Nat
          BY <1>0
        <5> HIDE DEF Frames
        <5> QED
          BY <3>2, <5>1, <5>2, <5>3
      <4>5. \A p \in Pending' :
              Newest' < pbo'[p] /\ \A i \in DOMAIN queue' : queue'[i] < pbo'[p]
        BY <1>0, <2>1, <2>3, <3>2, <4>1, <4>2 DEF QueueOrder
      <4> QED
        BY <4>1, <4>3, <4>4, <4>5 DEF QueueOrder
    <3>4. Total'
      <4>1. /\ captured \in Nat /\ delivered \in Nat /\ dropped \in Nat /\ unmapped \in Nat
            /\ Len(queue) \in Nat /\ (IF writing = None THEN 0 ELSE 1) \in Nat
        BY <1>0
      <4>2. /\ delivered' = delivered /\ captured' = captured
            /\ (IF writing = None THEN 0 ELSE 1)' = (IF writing = None THEN 0 ELSE 1)
        OBVIOUS
      <4> QED
        BY <2>4, <3>1, <3>2, <4>1, <4>2 DEF Total
    <3> QED
      BY <1>0, <2>5, <3>1, <3>2, <3>3, <3>4
  <2>6. ASSUME queue' = queue,
               \/ dropped' = dropped + 1 /\ unmapped' = unmapped
               \/ dropped' = dropped /\ unmapped' = unmapped + 1
        PROVE  /\ queue' \in Seq(Frames) /\ Len(queue') <= QueueBound
               /\ dropped' \in 0..MaxFrames /\ unmapped' \in 0..MaxFrames
               /\ QueueOrder' /\ Total'
    <3>1. QueueOrder'
      BY <1>0, <1>2, <2>6 DEF QueueOrder, Newest
    <3>2. /\ captured \in 0..MaxFrames /\ delivered \in Nat /\ dropped \in Nat
          /\ unmapped \in Nat /\ Len(queue) \in Nat
          /\ (IF writing = None THEN 0 ELSE 1) \in Nat
      BY <1>0
    <3>3. Total'
      <4>1. /\ delivered' = delivered /\ captured' = captured /\ Len(queue') = Len(queue)
            /\ (IF writing = None THEN 0 ELSE 1)' = (IF writing = None THEN 0 ELSE 1)
        BY <2>6
      <4>2. captured \in Nat
        BY <3>2
      <4>3. CASE dropped' = dropped + 1 /\ unmapped' = unmapped
        BY <2>4, <3>2, <4>1, <4>2, <4>3 DEF Total
      <4>4. CASE dropped' = dropped /\ unmapped' = unmapped + 1
        BY <2>4, <3>2, <4>1, <4>2, <4>4 DEF Total
      <4> QED
        BY <2>6, <4>3, <4>4
    <3>4. dropped' \in 0..MaxFrames /\ unmapped' \in 0..MaxFrames
      <4> DEFINE w == IF writing = None THEN 0 ELSE 1
                 c == Cardinality(Pending)
      <4>0. /\ delivered + dropped + unmapped + w + Len(queue) + c = captured
            /\ w \in Nat /\ c \in Nat /\ 1 <= c
        BY <2>4, <3>2 DEF Total
      <4> HIDE DEF w, c
      <4>1. dropped + unmapped + 1 <= captured
        BY <3>2, <4>0
      <4> QED
        BY <2>4, <2>6, <3>2, <4>1
    <3> QED
      BY <1>0, <2>6, <3>1, <3>3, <3>4
  <2>7. \/ /\ Len(queue) < QueueBound /\ queue' = Append(queue, pbo[slot])
           /\ UNCHANGED <<dropped, unmapped>>
        \/ /\ queue' = queue
           /\ \/ dropped' = dropped + 1 /\ unmapped' = unmapped
              \/ dropped' = dropped /\ unmapped' = unmapped + 1
    BY <1>4 DEF DrainSlot
  <2> QED
    BY <1>1, <1>2, <2>1, <2>5, <2>6, <2>7
<1> QED
  BY <1>0, <1>3, <1>4

-----------------------------------------------------------------------------
(* The initial state, with no session, satisfies the invariant.            *)
LEMMA InitInv == Init => IInv
<1> SUFFICES ASSUME Init PROVE IInv
  OBVIOUS
<1> USE Sizes, ConstantsOK DEF Init, Frames, NoPbos
<1>1. Pending = {} /\ Cardinality(Pending) = 0
  BY FS_EmptySet DEF Pending
<1>2. TypeOK
  BY DEF TypeOK
<1>3. PresentKnows /\ WriterLife /\ SlotsAreHeld /\ NoSwitchUnder
  BY <1>1 DEF PresentKnows, WriterLife, SlotsAreHeld, NoSwitchUnder
<1>4. RingOrder /\ QueueOrder /\ Total
  BY <1>1 DEF RingOrder, QueueOrder, Newest, Total
<1> QED
  BY <1>2, <1>3, <1>4 DEF IInv

(* What does not touch the frames keeps their order and their sum.         *)
LEMMA FramesKept ==
  ASSUME RingOrder, QueueOrder, Total, Window' = Window,
         UNCHANGED <<pbo, slot, queue, writing, last, captured, delivered, dropped, unmapped>>
  PROVE  RingOrder' /\ QueueOrder' /\ Total' /\ Pending' = Pending
<1>1. Pending' = Pending /\ Newest' = Newest /\ \A p : Offset(p)' = Offset(p)
  BY DEF Pending, Newest, Offset
<1> QED
  BY <1>1 DEF RingOrder, QueueOrder, Total

(* Every step of the requests, the platform thread, the encoder, the       *)
(* presenting thread and the writer keeps it.                              *)
LEMMA Step == IInv /\ [Next]_vars => IInv'
<1> SUFFICES ASSUME IInv, [Next]_vars PROVE IInv'
  OBVIOUS
<1> USE Sizes DEF IInv, requests, session, pipeline, dmabuf, present, switch
<1>1. CASE Toggle
  <2>1. RingOrder' /\ QueueOrder' /\ Total' /\ Pending' = Pending
    BY <1>1, FramesKept DEF Toggle, Window
  <2>2. TypeOK'
    BY <1>1 DEF Toggle, TypeOK, PresentKnows
  <2>3. PresentKnows'
    BY <1>1, <2>1 DEF Toggle, TypeOK, PresentKnows, WriterLife
  <2>4. WriterLife'
    BY <1>1, <2>1 DEF Toggle, TypeOK, PresentKnows, WriterLife
  <2>5. SlotsAreHeld'
    BY <1>1 DEF Toggle, TypeOK, PresentKnows, SlotsAreHeld
  <2>6. NoSwitchUnder'
    BY <1>1 DEF Toggle, TypeOK, PresentKnows, NoSwitchUnder
  <2> QED
    BY <2>1, <2>2, <2>3, <2>4, <2>5, <2>6
<1>2. CASE RequestStart
  <2>1. RingOrder' /\ QueueOrder' /\ Total' /\ Pending' = Pending
    BY <1>2, FramesKept DEF RequestStart, Window
  <2>2. TypeOK'
    BY <1>2 DEF RequestStart, TypeOK, PresentKnows
  <2>3. PresentKnows'
    BY <1>2, <2>1 DEF RequestStart, TypeOK, PresentKnows, WriterLife
  <2>4. WriterLife'
    BY <1>2, <2>1 DEF RequestStart, TypeOK, PresentKnows, WriterLife
  <2>5. SlotsAreHeld'
    BY <1>2 DEF RequestStart, TypeOK, PresentKnows, SlotsAreHeld
  <2>6. NoSwitchUnder'
    BY <1>2 DEF RequestStart, TypeOK, PresentKnows, NoSwitchUnder
  <2> QED
    BY <2>1, <2>2, <2>3, <2>4, <2>5, <2>6
<1>3. CASE RequestStop
  <2>1. RingOrder' /\ QueueOrder' /\ Total' /\ Pending' = Pending
    BY <1>3, FramesKept DEF RequestStop, Window
  <2>2. TypeOK'
    BY <1>3 DEF RequestStop, TypeOK, PresentKnows
  <2>3. PresentKnows'
    BY <1>3, <2>1 DEF RequestStop, TypeOK, PresentKnows, WriterLife
  <2>4. WriterLife'
    BY <1>3, <2>1 DEF RequestStop, TypeOK, PresentKnows, WriterLife
  <2>5. SlotsAreHeld'
    BY <1>3 DEF RequestStop, TypeOK, PresentKnows, SlotsAreHeld
  <2>6. NoSwitchUnder'
    BY <1>3 DEF RequestStop, TypeOK, PresentKnows, NoSwitchUnder
  <2> QED
    BY <2>1, <2>2, <2>3, <2>4, <2>5, <2>6
<1>4. ASSUME NEW on \in BOOLEAN, SetDmabuf(on) PROVE IInv'
  <2>1. RingOrder' /\ QueueOrder' /\ Total' /\ Pending' = Pending
    BY <1>4, FramesKept DEF SetDmabuf, Window
  <2>2. TypeOK'
    BY <1>4 DEF SetDmabuf, TypeOK, PresentKnows
  <2>3. PresentKnows'
    BY <1>4, <2>1 DEF SetDmabuf, TypeOK, PresentKnows, WriterLife
  <2>4. WriterLife'
    BY <1>4, <2>1 DEF SetDmabuf, TypeOK, PresentKnows, WriterLife
  <2>5. SlotsAreHeld'
    BY <1>4 DEF SetDmabuf, TypeOK, PresentKnows, SlotsAreHeld
  <2>6. NoSwitchUnder'
    BY <1>4 DEF SetDmabuf, TypeOK, PresentKnows, NoSwitchUnder
  <2> QED
    BY <2>1, <2>2, <2>3, <2>4, <2>5, <2>6
<1>5. ASSUME NEW s \in held, ReleaseSlot(s) PROVE IInv'
  <2>1. RingOrder' /\ QueueOrder' /\ Total' /\ Pending' = Pending
    BY <1>5, FramesKept DEF ReleaseSlot, Window
  <2>2. TypeOK'
    <3>1. held' \subseteq (0..Slots-1) \X Outputs /\ busy' \subseteq 0..Slots-1
      BY <1>5 DEF ReleaseSlot, TypeOK
    <3> QED
      BY <1>5, <3>1, SMTT(60) DEF ReleaseSlot, TypeOK
  <2>3. PresentKnows'
    BY <1>5, <2>1 DEF ReleaseSlot, TypeOK, PresentKnows, WriterLife
  <2>4. WriterLife'
    BY <1>5, <2>1 DEF ReleaseSlot, TypeOK, PresentKnows, WriterLife
  <2>5. SlotsAreHeld'
    <3>1. held \subseteq (0..Slots-1) \X Outputs /\ held' = held \ {s}
          /\ busy' = busy \ {s[1]} /\ UNCHANGED <<ring, target, pres, sink, size>>
      BY <1>5 DEF ReleaseSlot, TypeOK
    <3>2. \A h \in held : h[1] = s[1] => h = s
      BY <3>1 DEF SlotsAreHeld
    <3>3. {h[1] : h \in held'} = {h[1] : h \in held} \ {s[1]}
      BY <3>1, <3>2
    <3>4. target # s[1]
      BY DEF SlotsAreHeld
    <3> QED
      BY <3>1, <3>3, <3>4 DEF SlotsAreHeld
  <2>6. NoSwitchUnder'
    BY <1>5 DEF ReleaseSlot, TypeOK, PresentKnows, NoSwitchUnder
  <2> QED
    BY <2>1, <2>2, <2>3, <2>4, <2>5, <2>6
<1>6. ASSUME NEW o \in Outputs, CheckSwitch(o) PROVE IInv'
  <2>1. RingOrder' /\ QueueOrder' /\ Total' /\ Pending' = Pending
    BY <1>6, FramesKept DEF CheckSwitch, Window
  <2>2. TypeOK'
    BY <1>6 DEF CheckSwitch, TypeOK, PresentKnows
  <2>3. PresentKnows'
    BY <1>6, <2>1 DEF CheckSwitch, TypeOK, PresentKnows, WriterLife
  <2>4. WriterLife'
    BY <1>6, <2>1 DEF CheckSwitch, TypeOK, PresentKnows, WriterLife
  <2>5. SlotsAreHeld'
    BY <1>6 DEF CheckSwitch, TypeOK, PresentKnows, SlotsAreHeld
  <2>6. NoSwitchUnder'
    BY <1>6 DEF CheckSwitch, TypeOK, PresentKnows, NoSwitchUnder
  <2> QED
    BY <2>1, <2>2, <2>3, <2>4, <2>5, <2>6
<1>7. CASE SetPrimary
  <2>1. RingOrder' /\ QueueOrder' /\ Total' /\ Pending' = Pending
    BY <1>7, FramesKept DEF SetPrimary, Window
  <2>2. TypeOK'
    BY <1>7 DEF SetPrimary, TypeOK, PresentKnows
  <2>3. PresentKnows'
    BY <1>7, <2>1 DEF SetPrimary, TypeOK, PresentKnows, WriterLife
  <2>4. WriterLife'
    BY <1>7, <2>1 DEF SetPrimary, TypeOK, PresentKnows, WriterLife
  <2>5. SlotsAreHeld'
    BY <1>7 DEF SetPrimary, TypeOK, PresentKnows, SlotsAreHeld
  <2>6. NoSwitchUnder'
    BY <1>7 DEF SetPrimary, TypeOK, PresentKnows, NoSwitchUnder
  <2> QED
    BY <2>1, <2>2, <2>3, <2>4, <2>5, <2>6
<1>8. CASE BeginPresent
  <2>1. RingOrder' /\ QueueOrder' /\ Total' /\ Pending' = Pending
    BY <1>8, FramesKept DEF BeginPresent, Window
  <2>2. TypeOK'
    BY <1>8 DEF BeginPresent, TypeOK, PresentKnows
  <2>3. PresentKnows'
    BY <1>8, <2>1 DEF BeginPresent, TypeOK, PresentKnows, WriterLife
  <2>4. WriterLife'
    BY <1>8, <2>1 DEF BeginPresent, TypeOK, PresentKnows, WriterLife
  <2>5. SlotsAreHeld'
    BY <1>8 DEF BeginPresent, TypeOK, PresentKnows, SlotsAreHeld
  <2>6. NoSwitchUnder'
    BY <1>8 DEF BeginPresent, TypeOK, PresentKnows, NoSwitchUnder
  <2> QED
    BY <2>1, <2>2, <2>3, <2>4, <2>5, <2>6
<1>9. CASE TakeToggle
  <2>1. RingOrder' /\ QueueOrder' /\ Total' /\ Pending' = Pending
    BY <1>9, FramesKept DEF TakeToggle, NewSession, Window
  <2>2. TypeOK'
    <3>1. /\ toggle' = FALSE
          /\ UNCHANGED <<startReq, stopReq, armed, recording, dmabuf, frameOf, switch>>
          /\ UNCHANGED <<captured, dropped, unmapped, pbo, slot, queue, done, writing,
                         delivered, last>>
      BY <1>9 DEF TakeToggle, NewSession
    <3>2. /\ sink' \in {sink, "file"} /\ size' \in {size, frameOf}
          /\ writer' \in {writer, "waiting"} /\ then' \in {then, "stop"}
          /\ left' \in {left, PboRing} /\ pres' \in {"raiseFile", "drain", "stop"}
      BY <1>9 DEF TakeToggle, NewSession
    <3>3. size' \in Outputs \cup {None} /\ left' \in 0..PboRing
      BY <1>9, <3>2 DEF TakeToggle, TypeOK
    <3>4. slipped' \in BOOLEAN
      BY <1>9 DEF TakeToggle, NewSession, TypeOK
    <3>5. /\ sink' \in {None, "file", "callback", "dmabuf"}
          /\ writer' \in {"none", "waiting", "writing", "exited"}
          /\ then' \in {"stop", "start"}
      BY <3>2 DEF TypeOK
    <3>6. /\ pres' \in {"idle", "toggle", "raiseFile", "stop", "start", "sink", "raise",
                       "drain", "join", "capture", "blit", "draw", "hand"}
          /\ frameOf' \in Outputs \cup {None}
      BY <3>1, <3>2 DEF TypeOK
    <3>7. /\ toggle' \in BOOLEAN /\ startReq' \in BOOLEAN /\ stopReq' \in BOOLEAN
          /\ armed' \in BOOLEAN /\ recording' \in BOOLEAN /\ done' \in BOOLEAN
      BY <3>1 DEF TypeOK
    <3> QED
      BY <3>1, <3>3, <3>4, <3>5, <3>6, <3>7 DEF TypeOK
  <2>3. PresentKnows'
    BY <1>9, <2>1 DEF TakeToggle, NewSession, TypeOK, PresentKnows, WriterLife
  <2>4. WriterLife'
    BY <1>9, <2>1 DEF TakeToggle, NewSession, TypeOK, PresentKnows, WriterLife
  <2>5. SlotsAreHeld'
    BY <1>9 DEF TakeToggle, NewSession, TypeOK, PresentKnows, SlotsAreHeld
  <2>6. NoSwitchUnder'
    BY <1>9 DEF TakeToggle, NewSession, TypeOK, PresentKnows, NoSwitchUnder
  <2> QED
    BY <2>1, <2>2, <2>3, <2>4, <2>5, <2>6
<1>10. CASE TakeStop
  <2>1. RingOrder' /\ QueueOrder' /\ Total' /\ Pending' = Pending
    BY <1>10, FramesKept DEF TakeStop, Window
  <2>2. TypeOK'
    BY <1>10, SMTT(60) DEF TakeStop, TypeOK, PresentKnows
  <2>3. PresentKnows'
    BY <1>10, <2>1 DEF TakeStop, TypeOK, PresentKnows, WriterLife
  <2>4. WriterLife'
    BY <1>10, <2>1 DEF TakeStop, TypeOK, PresentKnows, WriterLife
  <2>5. SlotsAreHeld'
    BY <1>10 DEF TakeStop, TypeOK, PresentKnows, SlotsAreHeld
  <2>6. NoSwitchUnder'
    BY <1>10 DEF TakeStop, TypeOK, PresentKnows, NoSwitchUnder
  <2> QED
    BY <2>1, <2>2, <2>3, <2>4, <2>5, <2>6
<1>11. CASE TakeStart
  <2>1. RingOrder' /\ QueueOrder' /\ Total' /\ Pending' = Pending
    BY <1>11, FramesKept DEF TakeStart, NewSession, Window
  <2>2. TypeOK'
    BY <1>11, SMTT(60) DEF TakeStart, NewSession, TypeOK, PresentKnows
  <2>3. PresentKnows'
    BY <1>11, <2>1 DEF TakeStart, NewSession, TypeOK, PresentKnows, WriterLife
  <2>4. WriterLife'
    BY <1>11, <2>1 DEF TakeStart, NewSession, TypeOK, PresentKnows, WriterLife
  <2>5. SlotsAreHeld'
    BY <1>11 DEF TakeStart, NewSession, TypeOK, PresentKnows, SlotsAreHeld
  <2>6. NoSwitchUnder'
    BY <1>11 DEF TakeStart, NewSession, TypeOK, PresentKnows, NoSwitchUnder
  <2> QED
    BY <2>1, <2>2, <2>3, <2>4, <2>5, <2>6
<1>12. CASE ChooseSink
  <2>1. RingOrder' /\ QueueOrder' /\ Total' /\ Pending' = Pending
    BY <1>12, FramesKept DEF ChooseSink, EnsureDmabufRing, Window
  <2>2. TypeOK'
    BY <1>12 DEF ChooseSink, EnsureDmabufRing, TypeOK, PresentKnows
  <2>3. PresentKnows'
    BY <1>12, <2>1 DEF ChooseSink, EnsureDmabufRing, TypeOK, PresentKnows, WriterLife
  <2>4. WriterLife'
    BY <1>12, <2>1 DEF ChooseSink, EnsureDmabufRing, TypeOK, PresentKnows, WriterLife
  <2>5. SlotsAreHeld'
    <3>1. /\ UNCHANGED <<busy, held, target, size>> /\ pres = "sink" /\ pres' = "raise"
          /\ sink = "callback" /\ busy = {h[1] : h \in held} /\ size \in Outputs
      BY <1>12 DEF ChooseSink, PresentKnows, SlotsAreHeld
    <3>2. busy = {} => held = {}
      BY <3>1
    <3>3. ring' = ring \/ held = {}
      BY <1>12, <3>2 DEF ChooseSink, EnsureDmabufRing, SlotsAreHeld
    <3>4. sink' = "dmabuf" => ring' = size
      BY <1>12, <3>1 DEF ChooseSink, EnsureDmabufRing
    <3> QED
      BY <3>1, <3>3, <3>4 DEF SlotsAreHeld
  <2>6. NoSwitchUnder'
    BY <1>12 DEF ChooseSink, EnsureDmabufRing, TypeOK, PresentKnows, NoSwitchUnder
  <2> QED
    BY <2>1, <2>2, <2>3, <2>4, <2>5, <2>6
<1>13. CASE RaiseFlag
  <2>1. RingOrder' /\ QueueOrder' /\ Total' /\ Pending' = Pending
    BY <1>13, FramesKept DEF RaiseFlag, Window
  <2>2. TypeOK'
    BY <1>13 DEF RaiseFlag, TypeOK, PresentKnows
  <2>3. PresentKnows'
    BY <1>13, <2>1 DEF RaiseFlag, TypeOK, PresentKnows, WriterLife
  <2>4. WriterLife'
    BY <1>13, <2>1 DEF RaiseFlag, TypeOK, PresentKnows, WriterLife
  <2>5. SlotsAreHeld'
    BY <1>13 DEF RaiseFlag, TypeOK, PresentKnows, SlotsAreHeld
  <2>6. NoSwitchUnder'
    BY <1>13 DEF RaiseFlag, TypeOK, PresentKnows, NoSwitchUnder
  <2> QED
    BY <2>1, <2>2, <2>3, <2>4, <2>5, <2>6
<1>14. CASE StopDrains
  <2>1. /\ DrainSlot(slot) /\ slot' = (slot + 1) % PboRing
        /\ pres = "drain" /\ pres' = "drain" /\ left \in 1..PboRing /\ left' = left - 1
        /\ UNCHANGED <<captured, delivered, last, writing, writer, done, sink>>
    BY <1>14 DEF StopDrains, TypeOK
  <2>2. /\ pbo' \in [0..PboRing-1 -> Frames \cup {None}] /\ pbo'[slot] = None
        /\ Pending' = Pending \ {slot} /\ \A p \in Pending' : pbo'[p] = pbo[p]
        /\ queue' \in Seq(Frames) /\ Len(queue') <= QueueBound
        /\ dropped' \in 0..MaxFrames /\ unmapped' \in 0..MaxFrames
        /\ Pending = {} => queue' = queue
        /\ QueueOrder' /\ Total'
    BY <2>1, DrainLemma
  <2>3. /\ slot' \in 0..PboRing-1
        /\ \A p \in 0..PboRing-1 :
             Offset(p)' = IF p = slot THEN PboRing - 1 ELSE Offset(p) - 1
    BY <2>1, OffsetStep DEF TypeOK
  <2>4. RingOrder'
    <3> SUFFICES ASSUME NEW p \in Pending'
                 PROVE  Offset(p)' < Window' /\ pbo'[p] + Window' = captured' + 1 + Offset(p)'
      BY DEF RingOrder
    <3>1. /\ p \in Pending /\ p # slot /\ p \in 0..PboRing-1 /\ pbo'[p] = pbo[p]
          /\ Offset(p)' = Offset(p) - 1 /\ Offset(p) \in Int /\ pbo[p] \in Int
      <4>1. p \in Pending /\ p # slot /\ pbo'[p] = pbo[p] /\ p \in 0..PboRing-1
        BY <2>2 DEF Pending
      <4>2. pbo[p] \in Frames /\ slot \in Int /\ p \in Int
        BY <4>1, Sizes DEF Pending, TypeOK
      <4>3. pbo[p] \in Int
        BY <4>2 DEF Frames
      <4>4. Offset(p) \in Int
        BY <4>2, Sizes DEF Offset
      <4> QED
        BY <2>3, <4>1, <4>3, <4>4
    <3>2. Window = left /\ Window' = left - 1
      BY <2>1 DEF Window
    <3>3. Offset(p) < left /\ pbo[p] + left = captured + 1 + Offset(p)
      BY <3>1, <3>2 DEF RingOrder
    <3>4. left \in Int /\ captured \in Int
      BY DEF TypeOK
    <3> QED
      BY <2>1, <3>1, <3>2, <3>3, <3>4
  <2>5. TypeOK'
    BY <1>14, <2>1, <2>2, <2>3 DEF StopDrains, TypeOK, PresentKnows
  <2>6. PresentKnows'
    BY <1>14, <2>1 DEF StopDrains, TypeOK, PresentKnows, WriterLife
  <2>7. WriterLife'
    BY <1>14, <2>1, <2>2 DEF StopDrains, TypeOK, PresentKnows, WriterLife
  <2>8. SlotsAreHeld'
    BY <1>14 DEF StopDrains, TypeOK, PresentKnows, SlotsAreHeld
  <2>9. NoSwitchUnder'
    BY <1>14 DEF StopDrains, TypeOK, PresentKnows, NoSwitchUnder
  <2> QED
    BY <2>1, <2>2, <2>3, <2>4, <2>5, <2>6, <2>7, <2>8, <2>9
<1>15. CASE StopDone
  <2>1. Pending = {}
    BY <1>15 DEF StopDone, RingOrder, Window, Offset, Pending, TypeOK
  <2>2. Pending' = {} /\ Newest' = Newest
    BY <1>15, <2>1 DEF StopDone, Pending, Newest
  <2>3. RingOrder'
    BY <2>2 DEF RingOrder
  <2>4. QueueOrder' /\ Total'
    BY <1>15, <2>1, <2>2 DEF StopDone, QueueOrder, Total
  <2>5. TypeOK'
    BY <1>15 DEF StopDone, TypeOK, PresentKnows
  <2>6. PresentKnows'
    BY <1>15 DEF StopDone, TypeOK, PresentKnows, WriterLife
  <2>7. WriterLife'
    BY <1>15, <2>1, <2>2 DEF StopDone, TypeOK, PresentKnows, WriterLife
  <2>8. SlotsAreHeld'
    BY <1>15 DEF StopDone, TypeOK, PresentKnows, SlotsAreHeld
  <2>9. NoSwitchUnder'
    BY <1>15 DEF StopDone, TypeOK, PresentKnows, NoSwitchUnder
  <2> QED
    BY <2>1, <2>2, <2>3, <2>4, <2>5, <2>6, <2>7, <2>8, <2>9
<1>16. CASE StopJoins
  <2>1. Pending' = {} /\ pbo' \in [0..PboRing-1 -> Frames \cup {None}] /\ writing' = None
    BY <1>16 DEF StopJoins, NoPbos, Pending, WriterLife
  <2>2. queue' = <<>> /\ queue' \in Seq(Frames) /\ Len(queue') = 0
    BY <1>16 DEF StopJoins
  <2>3. RingOrder' /\ QueueOrder'
    BY <1>16, <2>1, <2>2 DEF StopJoins, RingOrder, QueueOrder, Newest
  <2>4. Total'
    BY <1>16, <2>1, <2>2, FS_EmptySet DEF StopJoins, Total
  <2>5. TypeOK'
    <3>1. /\ UNCHANGED <<requests, slot, dmabuf, frameOf, left, switch>>
          /\ recording' = FALSE /\ done' = FALSE /\ slipped' = FALSE
          /\ sink' = None /\ size' = None /\ writer' = "none"
          /\ pres' \in {"stop", "start"} /\ then' = "stop"
          /\ captured' = 0 /\ dropped' = 0 /\ unmapped' = 0 /\ delivered' = 0 /\ last' = 0
      BY <1>16 DEF StopJoins, TypeOK
    <3>2. /\ UNCHANGED <<toggle, startReq, stopReq, armed, slot, frameOf, left>>
          /\ UNCHANGED <<ring, busy, cursor, held, target, mix, primary, plat, wanted>>
      BY <3>1
    <3> QED
      BY <2>1, <2>2, <3>1, <3>2, SMTT(60) DEF TypeOK
  <2>6. PresentKnows'
    BY <1>16 DEF StopJoins, TypeOK, PresentKnows, WriterLife
  <2>7. WriterLife'
    BY <1>16, <2>1, <2>2 DEF StopJoins, TypeOK, PresentKnows, WriterLife
  <2>8. SlotsAreHeld'
    BY <1>16 DEF StopJoins, TypeOK, PresentKnows, SlotsAreHeld
  <2>9. NoSwitchUnder'
    BY <1>16 DEF StopJoins, TypeOK, PresentKnows, NoSwitchUnder
  <2> QED
    BY <2>1, <2>2, <2>3, <2>4, <2>5, <2>6, <2>7, <2>8, <2>9
<1>17. CASE EndPresent
  <2>1. RingOrder' /\ QueueOrder' /\ Total' /\ Pending' = Pending
    BY <1>17, FramesKept DEF EndPresent, Window
  <2>2. TypeOK'
    BY <1>17 DEF EndPresent, TypeOK, PresentKnows
  <2>3. PresentKnows'
    BY <1>17, <2>1 DEF EndPresent, TypeOK, PresentKnows, WriterLife
  <2>4. WriterLife'
    BY <1>17, <2>1 DEF EndPresent, TypeOK, PresentKnows, WriterLife
  <2>5. SlotsAreHeld'
    BY <1>17 DEF EndPresent, TypeOK, PresentKnows, SlotsAreHeld
  <2>6. NoSwitchUnder'
    BY <1>17 DEF EndPresent, TypeOK, PresentKnows, NoSwitchUnder
  <2> QED
    BY <2>1, <2>2, <2>3, <2>4, <2>5, <2>6
<1>18. CASE CollectOldest
  <2>1. /\ DrainSlot(slot) /\ pres = "capture" /\ pres' = "blit"
        /\ UNCHANGED <<slot, captured, delivered, last, writing, writer, done, sink>>
    BY <1>18 DEF CollectOldest
  <2>2. /\ pbo' \in [0..PboRing-1 -> Frames \cup {None}] /\ pbo'[slot] = None
        /\ Pending' = Pending \ {slot} /\ \A p \in Pending' : pbo'[p] = pbo[p]
        /\ queue' \in Seq(Frames) /\ Len(queue') <= QueueBound
        /\ dropped' \in 0..MaxFrames /\ unmapped' \in 0..MaxFrames
        /\ Pending = {} => queue' = queue
        /\ QueueOrder' /\ Total'
    BY <2>1, DrainLemma
  <2>3. RingOrder'
    <3>1. Window' = Window /\ \A p : Offset(p)' = Offset(p)
      BY <2>1 DEF Window, Offset
    <3> QED
      BY <2>1, <2>2, <3>1 DEF RingOrder
  <2>4. TypeOK'
    BY <1>18, <2>1, <2>2 DEF CollectOldest, TypeOK, PresentKnows
  <2>5. PresentKnows'
    BY <1>18, <2>1, <2>2 DEF CollectOldest, TypeOK, PresentKnows, WriterLife
  <2>6. WriterLife'
    BY <1>18, <2>1, <2>2 DEF CollectOldest, TypeOK, PresentKnows, WriterLife
  <2>7. SlotsAreHeld'
    BY <1>18 DEF CollectOldest, TypeOK, PresentKnows, SlotsAreHeld
  <2>8. NoSwitchUnder'
    BY <1>18 DEF CollectOldest, TypeOK, PresentKnows, NoSwitchUnder
  <2> QED
    BY <2>1, <2>2, <2>3, <2>4, <2>5, <2>6, <2>7, <2>8
<1>19. CASE ReadIntoPbo
  <2>1. /\ slot' = (slot + 1) % PboRing /\ slot \in 0..PboRing-1 /\ pbo[slot] = None
        /\ captured' = captured + 1 /\ captured + 1 \in Frames
        /\ pbo' = [pbo EXCEPT ![slot] = captured + 1]
        /\ UNCHANGED <<queue, writing, last, delivered, dropped, unmapped, writer, done, sink>>
        /\ Window = PboRing /\ Window' = PboRing
    BY <1>19 DEF ReadIntoPbo, TypeOK, PresentKnows, Window, Frames
  <2>2. /\ pbo' \in [0..PboRing-1 -> Frames \cup {None}] /\ pbo'[slot] = captured + 1
        /\ \A p \in 0..PboRing-1 : p # slot => pbo'[p] = pbo[p]
    BY <2>1 DEF TypeOK
  <2>3. Pending' = Pending \cup {slot} /\ slot \notin Pending
    BY <2>1, <2>2 DEF Pending, Frames
  <2>4. /\ slot' \in 0..PboRing-1
        /\ \A p \in 0..PboRing-1 :
             Offset(p)' = IF p = slot THEN PboRing - 1 ELSE Offset(p) - 1
    BY <2>1, OffsetStep
  <2>5. RingOrder'
    <3> SUFFICES ASSUME NEW p \in Pending'
                 PROVE  Offset(p)' < PboRing /\ pbo'[p] + PboRing = captured + 2 + Offset(p)'
      BY <2>1 DEF RingOrder, TypeOK
    <3>1. CASE p = slot
      BY <2>1, <2>2, <2>4, <3>1 DEF TypeOK
    <3>2. CASE p # slot
      <4>1. /\ p \in Pending /\ p \in 0..PboRing-1 /\ pbo'[p] = pbo[p]
            /\ Offset(p)' = Offset(p) - 1 /\ Offset(p) \in Int /\ pbo[p] \in Int
        BY <2>1, <2>2, <2>3, <2>4, <3>2 DEF Pending, Offset, TypeOK, Frames
      <4>2. Offset(p) < PboRing /\ pbo[p] + PboRing = captured + 1 + Offset(p)
        BY <2>1, <4>1 DEF RingOrder
      <4>3. captured \in Nat
        BY DEF TypeOK
      <4> QED
        BY <4>1, <4>2, <4>3
    <3> QED
      BY <3>1, <3>2
  <2>6. QueueOrder'
    <3>1. Newest' = Newest /\ Newest \in Nat /\ captured \in Nat
      BY <2>1 DEF Newest, TypeOK, Frames
    <3>2. \A i \in DOMAIN queue : queue[i] \in Nat
      BY DEF TypeOK, Frames
    <3>3. \A p \in Pending' :
            Newest < pbo'[p] /\ \A i \in DOMAIN queue : queue[i] < pbo'[p]
      <4>1. Newest < captured + 1 /\ \A i \in DOMAIN queue : queue[i] < captured + 1
        BY <3>1, <3>2 DEF QueueOrder
      <4>2. \A p \in Pending : p \in 0..PboRing-1 /\ p # slot
        BY <2>3 DEF Pending
      <4> QED
        BY <2>2, <2>3, <4>1, <4>2 DEF QueueOrder
    <3>4. Newest <= captured + 1 /\ \A i \in DOMAIN queue : queue[i] <= captured + 1
      BY <3>1, <3>2 DEF QueueOrder
    <3> QED
      BY <2>1, <3>1, <3>3, <3>4 DEF QueueOrder
  <2>7. Total'
    <3>1. Cardinality(Pending') = Cardinality(Pending) + 1 /\ Cardinality(Pending) \in Nat
      BY <2>3, PendingCount DEF TypeOK
    <3>2. /\ captured \in Nat /\ delivered \in Nat /\ dropped \in Nat /\ unmapped \in Nat
          /\ Len(queue) \in Nat
          /\ (IF writing = None THEN 0 ELSE 1) \in Nat
      BY DEF TypeOK
    <3> QED
      BY <2>1, <3>1, <3>2 DEF Total
  <2>8. TypeOK'
    BY <1>19, <2>1, <2>2, <2>4 DEF ReadIntoPbo, TypeOK, PresentKnows
  <2>9. PresentKnows'
    BY <1>19, <2>1 DEF ReadIntoPbo, TypeOK, PresentKnows, WriterLife
  <2>10. WriterLife'
    BY <1>19, <2>1 DEF ReadIntoPbo, TypeOK, PresentKnows, WriterLife
  <2>11. SlotsAreHeld'
    BY <1>19 DEF ReadIntoPbo, TypeOK, PresentKnows, SlotsAreHeld
  <2>12. NoSwitchUnder'
    BY <1>19 DEF ReadIntoPbo, TypeOK, PresentKnows, NoSwitchUnder
  <2> QED
    BY <2>1, <2>2, <2>3, <2>4, <2>5, <2>6, <2>7, <2>8, <2>9, <2>10, <2>11, <2>12
<1>20. CASE ClaimSlot
  <2>1. RingOrder' /\ QueueOrder' /\ Total' /\ Pending' = Pending
    BY <1>20, FramesKept DEF ClaimSlot, Window
  <2>2. TypeOK'
    <3>1. target' \in 0..Slots-1 \cup {None} /\ cursor' \in 0..Slots-1
      <4>1. CASE busy = 0..Slots-1
        BY <1>20, <4>1 DEF ClaimSlot, TypeOK
      <4>2. CASE busy # 0..Slots-1
        <5>1. PICK i \in 0..Slots-1 :
                 target' = (cursor + i) % Slots /\ cursor' = (cursor + i + 1) % Slots
          BY <1>20, <4>2 DEF ClaimSlot
        <5>2. cursor + i \in Nat /\ cursor + i + 1 \in Nat
          BY DEF TypeOK
        <5> QED
          BY <5>1, <5>2, RemainderInRing
      <4> QED
        BY <4>1, <4>2
    <3> QED
      BY <1>20, <3>1 DEF ClaimSlot, TypeOK
  <2>3. PresentKnows'
    <3>1. CASE busy = 0..Slots-1
      BY <1>20, <3>1 DEF ClaimSlot, PresentKnows
    <3>2. CASE busy # 0..Slots-1
      <4>1. PICK i \in 0..Slots-1 :
               (cursor + i) % Slots \notin busy /\ target' = (cursor + i) % Slots
        BY <1>20, <3>2 DEF ClaimSlot
      <4>2. target' \in Nat
        BY <4>1, RemainderInRing DEF TypeOK
      <4> QED
        BY <1>20, <3>2, <4>1, <4>2 DEF ClaimSlot, PresentKnows
    <3> QED
      BY <3>1, <3>2
  <2>4. WriterLife'
    BY <1>20, <2>1 DEF ClaimSlot, TypeOK, PresentKnows, WriterLife
  <2>5. SlotsAreHeld'
    BY <1>20 DEF ClaimSlot, TypeOK, PresentKnows, SlotsAreHeld
  <2>6. NoSwitchUnder'
    BY <1>20 DEF ClaimSlot, TypeOK, PresentKnows, NoSwitchUnder
  <2> QED
    BY <2>1, <2>2, <2>3, <2>4, <2>5, <2>6
<1>21. CASE MarkBusy
  <2>1. RingOrder' /\ QueueOrder' /\ Total' /\ Pending' = Pending
    BY <1>21, FramesKept DEF MarkBusy, Window
  <2>2. TypeOK'
    BY <1>21 DEF MarkBusy, TypeOK, PresentKnows
  <2>3. PresentKnows'
    BY <1>21, <2>1 DEF MarkBusy, TypeOK, PresentKnows, WriterLife
  <2>4. WriterLife'
    BY <1>21, <2>1 DEF MarkBusy, TypeOK, PresentKnows, WriterLife
  <2>5. SlotsAreHeld'
    BY <1>21 DEF MarkBusy, TypeOK, PresentKnows, SlotsAreHeld
  <2>6. NoSwitchUnder'
    BY <1>21 DEF MarkBusy, TypeOK, PresentKnows, NoSwitchUnder
  <2> QED
    BY <2>1, <2>2, <2>3, <2>4, <2>5, <2>6
<1>22. CASE HandOver
  <2>1. RingOrder' /\ QueueOrder' /\ Total' /\ Pending' = Pending
    BY <1>22, FramesKept DEF HandOver, Window
  <2>2. TypeOK'
    <3>1. held' = held \cup {<<target, ring>>} /\ target \in 0..Slots-1 /\ ring \in Outputs
      BY <1>22 DEF HandOver, TypeOK, PresentKnows, SlotsAreHeld
    <3>2. held' \subseteq (0..Slots-1) \X Outputs
      BY <3>1 DEF TypeOK
    <3> QED
      BY <1>22, <3>2 DEF HandOver, TypeOK
  <2>3. PresentKnows'
    BY <1>22, <2>1 DEF HandOver, TypeOK, PresentKnows, WriterLife
  <2>4. WriterLife'
    BY <1>22, <2>1 DEF HandOver, TypeOK, PresentKnows, WriterLife
  <2>5. SlotsAreHeld'
    <3>1. /\ target' = None /\ pres' = "idle" /\ UNCHANGED <<busy, ring, sink, size>>
          /\ pres = "hand" /\ held' = held \cup {<<target, ring>>}
      BY <1>22 DEF HandOver
    <3>2. {h[1] : h \in held'} = {h[1] : h \in held} \cup {target}
      <4>1. \A h : h \in held' <=> h \in held \/ h = <<target, ring>>
        BY <3>1
      <4>2. <<target, ring>>[1] = target
        OBVIOUS
      <4> QED
        BY <4>1, <4>2
    <3>3. None \notin {h[1] : h \in held'}
      <4>1. target \in Nat /\ \A h \in held : h[1] \in Nat
        BY <3>1 DEF TypeOK, PresentKnows
      <4> QED
        BY <3>2, <4>1
    <3>4. \A h \in held' : h[2] = ring
      BY <3>1 DEF SlotsAreHeld
    <3> QED
      BY <3>1, <3>2, <3>3, <3>4 DEF SlotsAreHeld
  <2>6. NoSwitchUnder'
    BY <1>22 DEF HandOver, TypeOK, PresentKnows, NoSwitchUnder
  <2> QED
    BY <2>1, <2>2, <2>3, <2>4, <2>5, <2>6
<1>23. CASE WriterPops
  <2>1. /\ queue \in Seq(Frames) /\ queue # <<>> /\ writing' = Head(queue)
        /\ queue' = Tail(queue) /\ writing = None
        /\ UNCHANGED <<pbo, slot, captured, delivered, dropped, unmapped, last, pres, left>>
    BY <1>23 DEF WriterPops, TypeOK, WriterLife
  <2>2. /\ writing' \in Frames /\ writing' = queue[1] /\ 1 \in DOMAIN queue
        /\ queue' \in Seq(Frames) /\ Len(queue') = Len(queue) - 1 /\ Len(queue) \in Nat
        /\ \A i \in DOMAIN queue' :
             i + 1 \in DOMAIN queue /\ 1 < i + 1 /\ queue'[i] = queue[i + 1]
    <3> HIDE DEF Frames
    <3> QED
      BY <2>1, TailLemma
  <2>3. writing' # None /\ Newest' = queue[1] /\ Newest = last
    BY <2>1, <2>2 DEF Newest, Frames
  <2>4. Pending' = Pending /\ Window' = Window /\ \A p : Offset(p)' = Offset(p)
    BY <2>1 DEF Pending, Window, Offset
  <2>5. RingOrder'
    BY <2>1, <2>4 DEF RingOrder
  <2>6. QueueOrder'
    <3>1. \A i, j \in DOMAIN queue' : i < j => i + 1 < j + 1
      BY <2>2
    <3> QED
      BY <2>1, <2>2, <2>3, <2>4, <3>1 DEF QueueOrder
  <2>7. Total'
    <3>1. Cardinality(Pending) \in Nat
      BY PendingCount DEF TypeOK
    <3> QED
      BY <2>1, <2>2, <2>3, <2>4, <3>1 DEF Total, TypeOK
  <2>8. TypeOK'
    BY <1>23, <2>2 DEF WriterPops, TypeOK, PresentKnows
  <2>9. PresentKnows'
    BY <1>23, <2>1 DEF WriterPops, TypeOK, PresentKnows, WriterLife
  <2>10. WriterLife'
    BY <1>23, <2>1, <2>2, <2>3, <2>4 DEF WriterPops, TypeOK, PresentKnows, WriterLife
  <2>11. SlotsAreHeld'
    BY <1>23 DEF WriterPops, TypeOK, PresentKnows, SlotsAreHeld
  <2>12. NoSwitchUnder'
    BY <1>23 DEF WriterPops, TypeOK, PresentKnows, NoSwitchUnder
  <2> QED
    BY <2>1, <2>2, <2>3, <2>4, <2>5, <2>6, <2>7, <2>8, <2>9, <2>10, <2>11, <2>12
<1>24. CASE WriterDelivers
  <2>1. /\ writing # None /\ writing \in Frames /\ writing' = None /\ last' = writing
        /\ delivered' = delivered + 1
        /\ UNCHANGED <<pbo, slot, queue, captured, dropped, unmapped, pres, left>>
    BY <1>24 DEF WriterDelivers, TypeOK, WriterLife
  <2>2. Pending' = Pending /\ Window' = Window /\ Newest' = Newest
        /\ \A p : Offset(p)' = Offset(p)
    BY <2>1 DEF Pending, Window, Offset, Newest
  <2>3. RingOrder' /\ QueueOrder'
    BY <2>1, <2>2 DEF RingOrder, QueueOrder
  <2>4. Cardinality(Pending) \in Nat
    BY PendingCount DEF TypeOK
  <2>5. Total'
    BY <2>1, <2>2, <2>4 DEF Total, TypeOK
  <2>6. delivered' \in 0..MaxFrames /\ last' \in 0..MaxFrames
    BY <2>1, <2>4 DEF Total, TypeOK, Frames
  <2>7. TypeOK'
    BY <1>24, <2>1, <2>6 DEF WriterDelivers, TypeOK, PresentKnows
  <2>8. PresentKnows'
    BY <1>24, <2>1 DEF WriterDelivers, TypeOK, PresentKnows, WriterLife
  <2>9. WriterLife'
    BY <1>24, <2>1, <2>2 DEF WriterDelivers, TypeOK, PresentKnows, WriterLife
  <2>10. SlotsAreHeld'
    BY <1>24 DEF WriterDelivers, TypeOK, PresentKnows, SlotsAreHeld
  <2>11. NoSwitchUnder'
    BY <1>24 DEF WriterDelivers, TypeOK, PresentKnows, NoSwitchUnder
  <2> QED
    BY <2>1, <2>2, <2>3, <2>4, <2>5, <2>6, <2>7, <2>8, <2>9, <2>10, <2>11
<1>25. CASE WriterExits
  <2>1. RingOrder' /\ QueueOrder' /\ Total' /\ Pending' = Pending
    BY <1>25, FramesKept DEF WriterExits, Window
  <2>2. TypeOK'
    BY <1>25 DEF WriterExits, TypeOK, PresentKnows
  <2>3. PresentKnows'
    BY <1>25, <2>1 DEF WriterExits, TypeOK, PresentKnows, WriterLife
  <2>4. WriterLife'
    BY <1>25, <2>1 DEF WriterExits, TypeOK, PresentKnows, WriterLife
  <2>5. SlotsAreHeld'
    BY <1>25 DEF WriterExits, TypeOK, PresentKnows, SlotsAreHeld
  <2>6. NoSwitchUnder'
    BY <1>25 DEF WriterExits, TypeOK, PresentKnows, NoSwitchUnder
  <2> QED
    BY <2>1, <2>2, <2>3, <2>4, <2>5, <2>6
<1>26. CASE UNCHANGED vars
  <2>1. RingOrder' /\ QueueOrder' /\ Total' /\ Pending' = Pending
    BY <1>26, FramesKept DEF vars, Window
  <2> QED
    BY <1>26, <2>1 DEF vars, TypeOK, PresentKnows, WriterLife, SlotsAreHeld, NoSwitchUnder, Frames
<1> QED
  BY <1>1, <1>2, <1>3, <1>4, <1>5, <1>6, <1>7, <1>8, <1>9, <1>10, <1>11,
     <1>12, <1>13, <1>14, <1>15, <1>16, <1>17, <1>18, <1>19, <1>20, <1>21, <1>22,
     <1>23, <1>24, <1>25, <1>26
     DEF Next, PresentStep, WriterStep

-----------------------------------------------------------------------------
(* The i-th oldest slot is at distance i.                                  *)
LEMMA NthOffset ==
  ASSUME slot \in 0..PboRing-1, NEW i \in 0..PboRing-1
  PROVE  (slot + i) % PboRing \in 0..PboRing-1 /\ Offset((slot + i) % PboRing) = i
<1>1. (slot + i) % PboRing = IF slot + i < PboRing THEN slot + i ELSE slot + i - PboRing
  BY RingIndex, Sizes
<1>2. PboRing \in Nat
  BY Sizes
<1>3. CASE slot + i < PboRing
  BY <1>1, <1>2, <1>3 DEF Offset
<1>4. CASE ~(slot + i < PboRing)
  BY <1>1, <1>2, <1>4 DEF Offset
<1> QED
  BY <1>3, <1>4

(* IInv holds in every reachable state.                                    *)
THEOREM InductiveInvariant == Spec => []IInv
BY InitInv, Step, PTL DEF Spec

(* The variables keep their types: the queue never grows past its bound,   *)
(* and rec_slot and zc_cursor stay in their rings.                         *)
THEOREM TypeCorrect == Spec => []TypeOK
<1>1. IInv => TypeOK
  BY DEF IInv
<1> QED
  BY InductiveInvariant, <1>1, PTL

(* Every frame RunCaptureHooks takes is in the ring, queued, being written,*)
(* delivered, counted as dropped or one whose PBO could not be mapped, in  *)
(* the order of capture, and stop_rec leaves none behind, for every ring   *)
(* size and queue bound.                                                   *)
THEOREM NoFrameIsLost == Spec => []FramesAccounted
<1>1. IInv => FramesAccounted
  <2> SUFFICES ASSUME IInv PROVE FramesAccounted
    OBVIOUS
  <2> USE Sizes DEF IInv
  <2>1. InOrder
    <3>1. \A i \in 0..PboRing-1 : Nth(i) # None =>
            /\ (slot + i) % PboRing \in Pending /\ Nth(i) \in Nat
            /\ Nth(i) + Window = captured + 1 + i
      <4> SUFFICES ASSUME NEW i \in 0..PboRing-1, Nth(i) # None
                   PROVE  /\ (slot + i) % PboRing \in Pending /\ Nth(i) \in Nat
                          /\ Nth(i) + Window = captured + 1 + i
        OBVIOUS
      <4> DEFINE p == (slot + i) % PboRing
      <4>1. p \in 0..PboRing-1 /\ Offset(p) = i
        BY NthOffset DEF TypeOK
      <4>2. p \in Pending
        BY <4>1 DEF Nth, Pending
      <4>3. pbo[p] \in Nat
        BY <4>1, <4>2 DEF TypeOK, Frames, Pending
      <4> HIDE DEF p
      <4>4. pbo[p] + Window = captured + 1 + i
        BY <4>1, <4>2 DEF RingOrder
      <4> QED
        BY <4>2, <4>3, <4>4 DEF Nth, p
    <3>2. Window \in Nat /\ captured \in Nat
      BY DEF Window, TypeOK
    <3>3. \A i \in 0..PboRing-1 : Nth(i) # None =>
            \A j \in 0..i-1 : Nth(j) # None => Nth(j) < Nth(i)
      BY <3>1, <3>2
    <3>4. \A i \in 0..PboRing-1 : Nth(i) # None =>
            Newest < Nth(i) /\ \A j \in DOMAIN queue : queue[j] < Nth(i)
      BY <3>1 DEF QueueOrder, Nth
    <3>5. /\ writing # None => last < writing
          /\ \A i \in DOMAIN queue :
               Newest < queue[i] /\ \A j \in DOMAIN queue : i < j => queue[i] < queue[j]
      BY DEF QueueOrder
    <3> QED
      BY <3>3, <3>4, <3>5 DEF InOrder, Newest
  <2>2. Finished => writing = None /\ queue = <<>> /\ Pending = {}
    BY DEF Finished, WriterLife
  <2>3. sink = None => writer = "none"
    BY DEF WriterLife
  <2> QED
    BY <2>1, <2>2, <2>3 DEF FramesAccounted, Total
<1> QED
  BY InductiveInvariant, <1>1, PTL

(* CaptureDmabufFrame never draws into a slot the encoder has, the busy    *)
(* mask is exact, and EnsureDmabufRing never touches a ring of which the   *)
(* encoder holds a slot, across any number of sessions.                    *)
THEOREM EncoderKeepsItsSlots == Spec => []SlotsAreHeld
<1>1. IInv => SlotsAreHeld
  BY DEF IInv
<1> QED
  BY InductiveInvariant, <1>1, PTL

(* fl_drm_view_set_primary_output does not move the primary under a        *)
(* session, for any number of outputs, but in the windows it excepts.      *)
THEOREM SizeStaysThePrimarys == Spec => []PrimaryIsFrozen
<1>1. IInv => PrimaryIsFrozen
  BY DEF IInv, NoSwitchUnder, PrimaryIsFrozen
<1> QED
  BY InductiveInvariant, <1>1, PTL

-----------------------------------------------------------------------------
(* Recording implements FrameFeed.                                         *)

(* Frames pending in two slots of the ring are two frames.                 *)
LEMMA RingDistinct ==
  ASSUME TypeOK, RingOrder, slot \in Pending, NEW p \in Pending, p # slot
  PROVE  pbo[p] # pbo[slot]
<1>1. /\ slot \in 0..PboRing-1 /\ p \in 0..PboRing-1 /\ PboRing \in Nat
      /\ left \in 0..PboRing /\ captured \in Nat
  BY Sizes DEF TypeOK, Pending
<1>2. pbo[p] \in Frames /\ pbo[slot] \in Frames
  BY DEF TypeOK, Pending
<1>3. /\ Offset(p) \in Nat \ {0} /\ Offset(slot) = 0
  BY <1>1 DEF Offset
<1>4. Window \in Nat
  BY <1>1 DEF Window
<1>5. /\ pbo[p] + Window = captured + 1 + Offset(p)
      /\ pbo[slot] + Window = captured + 1 + Offset(slot)
  BY DEF RingOrder
<1> QED
  BY <1>1, <1>2, <1>3, <1>4, <1>5 DEF Frames

(* drain_slot on the oldest slot passes its frame on, gives it up while the*)
(* queue holds an earlier one, or fails to read it.                        *)
LEMMA DrainFeed ==
  ASSUME TypeOK, RingOrder, QueueOrder, DrainSlot(slot),
         UNCHANGED <<sink, captured, delivered, last, writing>>
  PROVE  [Feed!Next]_(Feed!vars)
<1>0. /\ pbo \in [0..PboRing-1 -> Frames \cup {None}] /\ slot \in 0..PboRing-1
      /\ queue \in Seq(Frames) /\ writing \in Frames \cup {None} /\ last \in Nat
      /\ \A i \in DOMAIN queue : queue[i] \in Nat
      /\ None \notin Frames /\ Frames \subseteq Nat
  BY Sizes DEF TypeOK, Frames
<1>1. pbo' = [pbo EXCEPT ![slot] = None]
  BY DEF DrainSlot
<1>2. Pending' = Pending \ {slot} /\ \A p \in Pending' : pbo'[p] = pbo[p]
  BY <1>0, <1>1 DEF Pending
<1>3. CASE pbo[slot] = None
  <2>1. Pending' = Pending /\ UNCHANGED <<queue, dropped, unmapped>>
    BY <1>0, <1>2, <1>3 DEF Pending, DrainSlot
  <2>2. Way' = Way
    BY <1>2, <2>1 DEF Way
  <2> QED
    BY <2>1, <2>2 DEF Feed!vars
<1>4. CASE pbo[slot] # None
  <2>1. slot \in Pending /\ pbo[slot] \in Frames
    BY <1>0, <1>4 DEF Pending
  <2>2. CASE queue' = Append(queue, pbo[slot]) /\ UNCHANGED <<dropped, unmapped>>
    <3>1. queue' = Append(queue, pbo[slot]) /\ dropped' = dropped /\ unmapped' = unmapped
      BY <2>2
    <3>2. {queue'[i] : i \in DOMAIN queue'} = {queue[i] : i \in DOMAIN queue} \cup {pbo[slot]}
      <4>1. /\ DOMAIN queue' = DOMAIN queue \cup {Len(queue) + 1}
            /\ \A i \in DOMAIN queue : queue'[i] = queue[i]
            /\ queue'[Len(queue) + 1] = pbo[slot]
        BY <1>0, <2>1, <3>1, AppendLemma
      <4> QED
        BY <4>1
    <3>3. {pbo[i] : i \in Pending} = {pbo'[i] : i \in Pending'} \cup {pbo[slot]}
      BY <1>2, <2>1
    <3>4. Way' = Way
      BY <3>2, <3>3 DEF Way
    <3> QED
      BY <3>1, <3>4 DEF Feed!vars
  <2>3. ASSUME queue' = queue PROVE Way' = Way \ {pbo[slot]} /\ pbo[slot] \in Way
    <3>1. /\ \A i \in DOMAIN queue : queue[i] < pbo[slot]
          /\ writing # None => writing < pbo[slot]
      BY <2>1 DEF QueueOrder, Newest
    <3>2. /\ \A i \in DOMAIN queue : queue[i] # pbo[slot]
          /\ writing # None => writing # pbo[slot]
      BY <1>0, <2>1, <3>1
    <3>3. \A p \in Pending' : pbo'[p] # pbo[slot]
      BY <1>2, <2>1, RingDistinct
    <3> QED
      BY <1>2, <2>1, <2>3, <3>2, <3>3 DEF Way
  <2>4. CASE /\ Len(queue) >= QueueBound /\ dropped' = dropped + 1
             /\ UNCHANGED <<queue, unmapped>>
    <3>1. 1 \in DOMAIN queue
      <4>1. Len(queue) \in Nat /\ QueueBound \in Nat \ {0}
        BY <1>0, Sizes
      <4>2. DOMAIN queue = 1..Len(queue)
        BY <1>0
      <4> QED
        BY <2>4, <4>1, <4>2
    <3>2. queue[1] \in Way /\ queue[1] < pbo[slot]
      BY <2>1, <3>1 DEF Way, QueueOrder
    <3> QED
      BY <2>3, <2>4, <3>2 DEF Feed!Next, Feed!GiveUp
  <2>5. CASE unmapped' = unmapped + 1 /\ UNCHANGED <<queue, dropped>>
    BY <2>3, <2>5 DEF Feed!Next, Feed!Fail
  <2> QED
    BY <1>4, <2>2, <2>4, <2>5 DEF DrainSlot
<1> QED
  BY <1>3, <1>4

(* No session, nothing on its way.                                         *)
LEMMA InitFeed == Init => Feed!Init
BY DEF Init, NoPbos, Feed!Init, Way, Pending

(* Every step is a step of FrameFeed or changes nothing it speaks of.      *)
LEMMA FeedStep == IInv /\ [Next]_vars => [Feed!Next]_(Feed!vars)
<1> SUFFICES ASSUME IInv, [Next]_vars PROVE [Feed!Next]_(Feed!vars)
  OBVIOUS
<1> USE DEF IInv, requests, session, pipeline, dmabuf, present, switch
<1>w. ASSUME UNCHANGED <<pbo, queue, writing>> PROVE Way' = Way
  BY <1>w DEF Way, Pending
<1>s. ASSUME UNCHANGED <<sink, captured, dropped, unmapped, delivered, last, pbo, queue, writing>>
      PROVE  [Feed!Next]_(Feed!vars)
  BY <1>s, <1>w DEF Feed!vars
<1>1. CASE Toggle \/ RequestStart \/ RequestStop
  BY <1>1, <1>s DEF Toggle, RequestStart, RequestStop
<1>2. ASSUME NEW on \in BOOLEAN, SetDmabuf(on) PROVE [Feed!Next]_(Feed!vars)
  BY <1>2, <1>s DEF SetDmabuf
<1>3. ASSUME NEW s \in held, ReleaseSlot(s) PROVE [Feed!Next]_(Feed!vars)
  BY <1>3, <1>s DEF ReleaseSlot
<1>4. ASSUME NEW o \in Outputs, CheckSwitch(o) PROVE [Feed!Next]_(Feed!vars)
  BY <1>4, <1>s DEF CheckSwitch
<1>5. CASE SetPrimary \/ BeginPresent \/ TakeStop \/ RaiseFlag \/ StopDone
  BY <1>5, <1>s DEF SetPrimary, BeginPresent, TakeStop, RaiseFlag, StopDone
<1>6. CASE EndPresent \/ ClaimSlot \/ MarkBusy \/ HandOver \/ WriterExits
  BY <1>6, <1>s DEF EndPresent, ClaimSlot, MarkBusy, HandOver, WriterExits
<1>7. CASE TakeToggle \/ TakeStart
  <2>1. UNCHANGED <<captured, dropped, unmapped, delivered, last, pbo, queue, writing>>
    BY <1>7 DEF TakeToggle, TakeStart
  <2>2. sink' = sink \/ (sink = None /\ sink' \in {"file", "callback"})
    BY <1>7 DEF TakeToggle, TakeStart, NewSession
  <2>3. CASE sink' = sink
    BY <1>s, <2>1, <2>3
  <2>4. CASE sink = None /\ sink' \in {"file", "callback"}
    <3>1. sink' # None /\ Way' = Way
      BY <1>w, <2>1, <2>4, Sizes
    <3> QED
      BY <2>1, <2>4, <3>1 DEF Feed!Next, Feed!Open
  <2> QED
    BY <2>2, <2>3, <2>4
<1>8. CASE ChooseSink
  <2>1. UNCHANGED <<captured, dropped, unmapped, delivered, last, pbo, queue, writing>>
    BY <1>8 DEF ChooseSink
  <2>2. sink # None /\ sink' # None
    BY <1>8, Sizes DEF ChooseSink, PresentKnows
  <2> QED
    BY <1>w, <2>1, <2>2 DEF Feed!vars
<1>9. CASE StopDrains
  <2>1. DrainSlot(slot) /\ UNCHANGED <<sink, captured, delivered, last, writing>>
    BY <1>9 DEF StopDrains
  <2> QED
    BY <2>1, DrainFeed
<1>10. CASE CollectOldest
  <2>1. DrainSlot(slot) /\ UNCHANGED <<sink, captured, delivered, last, writing>>
    BY <1>10 DEF CollectOldest
  <2> QED
    BY <2>1, DrainFeed
<1>11. CASE ReadIntoPbo
  <2>1. /\ captured' = captured + 1 /\ pbo' = [pbo EXCEPT ![slot] = captured + 1]
        /\ UNCHANGED <<sink, dropped, unmapped, delivered, last, queue, writing>>
    BY <1>11 DEF ReadIntoPbo
  <2>2. sink # None /\ pbo[slot] = None /\ captured + 1 # None
    <3>1. sink # None /\ pbo[slot] = None
      BY <1>11 DEF ReadIntoPbo, PresentKnows
    <3>2. captured + 1 \in Nat
      BY DEF TypeOK
    <3> QED
      BY <3>1, <3>2, Sizes
  <2>3. /\ slot \in 0..PboRing-1 /\ pbo \in [0..PboRing-1 -> Frames \cup {None}]
    BY DEF TypeOK
  <2>4. /\ Pending' = Pending \cup {slot} /\ slot \notin Pending /\ pbo'[slot] = captured + 1
        /\ \A p \in Pending : pbo'[p] = pbo[p]
    BY <2>1, <2>2, <2>3 DEF Pending
  <2>5. {pbo'[i] : i \in Pending'} = {pbo[i] : i \in Pending} \cup {captured + 1}
    BY <2>4
  <2>6. Way' = Way \cup {captured + 1}
    BY <2>1, <2>5 DEF Way
  <2> QED
    BY <2>1, <2>2, <2>6 DEF Feed!Next, Feed!Take
<1>12. CASE StopJoins
  <2>1. Pending = {} /\ queue = <<>> /\ writing = None
    BY <1>12 DEF StopJoins, WriterLife
  <2>2. /\ sink # None /\ sink' = None /\ captured' = 0 /\ dropped' = 0
        /\ unmapped' = 0 /\ delivered' = 0 /\ last' = 0
    BY <1>12 DEF StopJoins, PresentKnows
  <2>3. Pending' = {} /\ queue' = <<>> /\ writing' = None
    BY <1>12, <2>1 DEF StopJoins, NoPbos, Pending
  <2>4. Way = {} /\ Way' = {}
    BY <2>1, <2>3 DEF Way
  <2> QED
    BY <2>2, <2>4 DEF Feed!Next, Feed!Close
<1>13. CASE WriterPops
  <2>1. /\ writing = None /\ queue # <<>> /\ writing' = Head(queue) /\ queue' = Tail(queue)
        /\ UNCHANGED <<sink, captured, dropped, unmapped, delivered, last, pbo>>
    BY <1>13 DEF WriterPops, WriterLife
  <2>2. Pending' = Pending /\ Head(queue) # None
    <3>1. queue \in Seq(Frames) /\ None \notin Frames
      BY Sizes DEF TypeOK, Frames
    <3>2. Head(queue) \in Frames
      BY <2>1, <3>1, TailLemma
    <3> QED
      BY <2>1, <3>1, <3>2 DEF Pending
  <2>3. {queue[i] : i \in DOMAIN queue} = {queue'[i] : i \in DOMAIN queue'} \cup {Head(queue)}
    <3>1. queue \in Seq(Frames)
      BY DEF TypeOK
    <3>2. /\ Head(queue) = queue[1] /\ 1 \in DOMAIN queue /\ queue' \in Seq(Frames)
          /\ Len(queue') = Len(queue) - 1
          /\ \A i \in DOMAIN queue' : i + 1 \in DOMAIN queue /\ queue'[i] = queue[i + 1]
      BY <2>1, <3>1, TailLemma
    <3>3. ASSUME NEW i \in DOMAIN queue, i # 1
          PROVE  \E j \in DOMAIN queue' : queue'[j] = queue[i]
      <4>1. DOMAIN queue = 1..Len(queue) /\ Len(queue) \in Nat
        BY <3>1
      <4>2. DOMAIN queue' = 1..(Len(queue) - 1)
        BY <3>2
      <4>3. i - 1 \in DOMAIN queue' /\ (i - 1) + 1 = i
        BY <3>3, <4>1, <4>2
      <4> QED
        BY <3>2, <4>3
    <3> QED
      BY <3>2, <3>3
  <2>4. Way' = Way
    BY <2>1, <2>2, <2>3 DEF Way
  <2> QED
    BY <2>1, <2>4 DEF Feed!vars
<1>14. CASE WriterDelivers
  <2>1. /\ writing # None /\ delivered' = delivered + 1 /\ last' = writing /\ writing' = None
        /\ UNCHANGED <<sink, captured, dropped, unmapped, pbo, queue>>
    BY <1>14 DEF WriterDelivers, WriterLife
  <2>2. /\ last < writing /\ writing \in Nat
        /\ \A p \in Pending : pbo[p] \in Nat /\ writing < pbo[p]
        /\ \A i \in DOMAIN queue : queue[i] \in Nat /\ writing < queue[i]
    <3>1. writing \in Frames /\ queue \in Seq(Frames) /\ \A p \in Pending : pbo[p] \in Frames
      BY <2>1, Sizes DEF TypeOK, Pending
    <3>2. Frames \subseteq Nat /\ \A i \in DOMAIN queue : queue[i] \in Frames
      BY <3>1, Sizes DEF Frames
    <3>3. Newest = writing
      BY <2>1 DEF Newest
    <3> QED
      BY <2>1, <3>1, <3>2, <3>3 DEF QueueOrder
  <2>3. writing \in Way /\ \A g \in Way : g \in Nat /\ writing <= g
    BY <2>1, <2>2 DEF Way
  <2>4. /\ \A p \in Pending : pbo[p] # writing
        /\ \A i \in DOMAIN queue : queue[i] # writing
    BY <2>2
  <2>5. Way' = Way \ {writing}
    BY <2>1, <2>4 DEF Way, Pending
  <2>6. writing > last
    <3>1. last \in Nat
      BY DEF TypeOK
    <3> QED
      BY <2>2, <3>1
  <2> QED
    BY <2>1, <2>3, <2>5, <2>6 DEF Feed!Next, Feed!Deliver
<1>15. CASE UNCHANGED vars
  BY <1>15, <1>s DEF vars
<1> QED
  BY <1>1, <1>2, <1>3, <1>4, <1>5, <1>6, <1>7, <1>8, <1>9, <1>10, <1>11, <1>12, <1>13,
     <1>14, <1>15 DEF Next, PresentStep, WriterStep

(* The PBO ring, the bounded queue and the writer thread give a sink what  *)
(* FrameFeed promises, for every ring size, queue bound and session        *)
(* length: a frame that was read back is dropped only behind one that is   *)
(* still on its way.                                                       *)
THEOREM Refinement == Spec => KeepsFeed
BY InductiveInvariant, InitFeed, FeedStep, PTL DEF Spec, KeepsFeed, Feed!Spec
=============================================================================
