--------------------------- MODULE OutputsProofs ---------------------------
(***************************************************************************)
(* Theorems about Outputs, for any connectors, CRTCs, table size and       *)
(* views, in every environment: monitors may bounce, the VT may be left,   *)
(* pipelines may fail and the primary may be switched at any moment.       *)
(***************************************************************************)
EXTENDS Outputs, TLAPS

(* A rescan counts every live output's CRTC as used, an output it added is *)
(* alive and its connector visited, and removals wait only in a rescan.    *)
RescanKnows ==
  /\ plat = "rescan" => {crtc[s] : s \in alive} \subseteq used
  /\ \A s \in added : s \in alive /\ conn[s] \notin todo
  /\ plat # "rescan" => removed = {} /\ added = {}

(* A primary switch is on its way to a live output with a chain and, since *)
(* its first step, without a view.                                         *)
SwitchKnows ==
  /\ plat \in {"displaced", "retargeted"} => target \in alive /\ chain[target] # None
  /\ plat = "displaced" => \A v \in Views \cup {Implicit} : viewMap[v] # target
  /\ plat = "retargeted" => primary = target

(* The inductive invariant.                                                *)
IInv ==
  /\ TypeOK
  /\ OutputsAreDistinct
  /\ RescanKnows
  /\ SwitchKnows
  /\ DeadOutputIsTornDown
  /\ OneViewPerOutput

(* Appending to a sequence keeps its members and adds the new one last.    *)
LEMMA AppendLemma ==
  ASSUME NEW S, NEW q \in Seq(S), NEW e \in S
  PROVE  /\ Append(q, e) \in Seq(S)
         /\ Len(Append(q, e)) = Len(q) + 1
         /\ DOMAIN Append(q, e) = 1..(Len(q) + 1)
         /\ \A i \in DOMAIN q : i \in DOMAIN Append(q, e) /\ Append(q, e)[i] = q[i]
         /\ Append(q, e)[Len(q) + 1] = e
  OBVIOUS

(* Taking the head off leaves the other members, one place earlier.        *)
LEMMA TailLemma ==
  ASSUME NEW S, NEW q \in Seq(S), q # <<>>
  PROVE  /\ Head(q) \in S /\ Head(q) = q[1]
         /\ Tail(q) \in Seq(S)
         /\ Len(Tail(q)) = Len(q) - 1
         /\ \A i \in DOMAIN q : i # 1 => i - 1 \in DOMAIN Tail(q) /\ Tail(q)[i - 1] = q[i]
  OBVIOUS

(* The same, for the queue of RemoveView requests.                         *)
LEMMA LeavingTail ==
  ASSUME NEW q \in Seq(Removal), q # <<>>
  PROVE  /\ Head(q) \in Removal /\ Head(q) = q[1]
         /\ Tail(q) \in Seq(Removal)
         /\ Len(Tail(q)) = Len(q) - 1
         /\ \A i \in DOMAIN q : i # 1 => i - 1 \in DOMAIN Tail(q) /\ Tail(q)[i - 1] = q[i]
  BY TailLemma

(* What three of the steps do.                                             *)
LEMMA ViewRemovedTakes ==
  ASSUME leaving \in Seq(Removal), ViewRemoved
  PROVE  /\ Head(leaving) \in Removal /\ Head(leaving) = leaving[1]
         /\ leaving' \in Seq(Removal) /\ Len(leaving') = Len(leaving) - 1
         /\ \A i \in DOMAIN leaving :
              i # 1 => i - 1 \in DOMAIN leaving' /\ leaving'[i - 1] = leaving[i]
<1>1. leaving # <<>> /\ leaving' = Tail(leaving)
  BY DEF ViewRemoved
<1> QED
  BY <1>1, LeavingTail

LEMMA RescanGoneDrops ==
  ASSUME NEW c \in Connectors, RescanGone(c)
  PROVE  /\ alive' \subseteq alive /\ removed \subseteq removed'
         /\ \A t \in removed' : t \in removed \/ t \in alive \ alive'
         /\ alive' # alive => removed' # {}
         /\ UNCHANGED <<kernel, vtActive, conn, crtc, switch, chain, viewMap, engine, pending,
                        plat, used, added, news, told, history>>
<1>1. PICK s \in SlotOf(c) \cap alive : IF s = primary THEN UNCHANGED <<alive, removed>>
                                         ELSE /\ alive' = alive \ {s}
                                              /\ removed' = removed \cup {s}
  BY DEF RescanGone
<1>2. UNCHANGED <<kernel, vtActive, conn, crtc, switch, chain, viewMap, engine, pending,
                  plat, used, added, news, told, history>>
  BY DEF RescanGone
<1>3. CASE s = primary
  BY <1>1, <1>2, <1>3
<1>4. CASE s # primary
  BY <1>1, <1>2, <1>4
<1> QED
  BY <1>3, <1>4

LEMMA BuildPipelineTypes ==
  ASSUME NEW s \in Slots, BuildPipeline(s), lit \subseteq Crtcs, crtc[s] \in Crtcs,
         chain \in [Slots -> Crtcs \cup {None}], news \in BOOLEAN
  PROVE  /\ lit' \subseteq Crtcs /\ chain' \in [Slots -> Crtcs \cup {None}]
         /\ news' \in BOOLEAN
<1>1. \/ UNCHANGED <<chain, lit, news>>
      \/ /\ chain' = [chain EXCEPT ![s] = crtc[s]] /\ news' = TRUE
         /\ lit' = IF vtActive THEN lit \cup {crtc[s]} ELSE lit
  BY DEF BuildPipeline
<1> QED
  BY <1>1

-----------------------------------------------------------------------------
(* The initial state satisfies the invariant.                              *)
LEMMA InitInv == Init => IInv
<1> SUFFICES ASSUME Init PROVE IInv
  OBVIOUS
<1> USE ConstantsOK DEF Slots, Known
<1>1. TypeOK
  <2>1. leaving \in Seq(Removal) /\ Len(leaving) <= MaxRemovals
    BY DEF Init
  <2>2. /\ lit \subseteq Crtcs /\ plugged \subseteq Connectors
        /\ viewMap \in [Views \cup {Implicit} -> Slots \cup {None}]
    BY DEF Init
  <2> QED
    BY <2>1, <2>2 DEF Init, TypeOK, Usable
<1>2. OutputsAreDistinct
  BY DEF Init, OutputsAreDistinct
<1>3. RescanKnows
  BY DEF Init, RescanKnows
<1>4. DeadOutputIsTornDown
  BY DEF Init, DeadOutputIsTornDown
<1>5. OneViewPerOutput
  BY DEF Init, OneViewPerOutput
<1>6. SwitchKnows
  BY DEF Init, SwitchKnows
<1> QED
  BY <1>1, <1>2, <1>3, <1>4, <1>5, <1>6 DEF IInv

(* Every step of the kernel, the platform thread, the raster thread and    *)
(* the app keeps the invariant.                                            *)
LEMMA Step == IInv /\ [Next]_vars => IInv'
<1> SUFFICES ASSUME IInv, [Next]_vars PROVE IInv'
  OBVIOUS
<1> USE ConstantsOK
    DEF IInv, TypeOK, OutputsAreDistinct, RescanKnows, DeadOutputIsTornDown,
        SwitchKnows, OneViewPerOutput, UnderTeardown, TearingDown, Known, Removal, ViewsOn,
        SlotOf, Usable, table, switch, engine, scan, kernel, history
<1>1. ASSUME NEW c \in Connectors, Plug(c) PROVE IInv'
  BY <1>1 DEF Plug
<1>2. ASSUME NEW c \in Connectors, Unplug(c) PROVE IInv'
  BY <1>2 DEF Unplug
<1>3. CASE ReadUevent
  <2>1. TypeOK'
    <3>1. {crtc[s] : s \in alive} \subseteq Crtcs
      OBVIOUS
    <3>2. /\ plat' \in {"loop", "rescan"} /\ todo' \subseteq Connectors
          /\ used' \subseteq Crtcs /\ added' \subseteq Slots
          /\ removed' \subseteq Slots /\ news' \in BOOLEAN /\ uevent' \in BOOLEAN
      <4>1. CASE vtActive
        <5>1. /\ plat' = "rescan" /\ todo' = Connectors
              /\ used' = {crtc[s] : s \in alive} /\ uevent' = FALSE
              /\ added' = {} /\ removed' = {} /\ news' = FALSE
          BY <1>3, <4>1 DEF ReadUevent
        <5> QED
          BY <3>1, <5>1
      <4>2. CASE ~vtActive
        BY <1>3, <4>2 DEF ReadUevent
      <4> QED
        BY <4>1, <4>2
    <3> QED
      BY <1>3, <3>2 DEF ReadUevent
  <2>2. OutputsAreDistinct'
    BY <1>3 DEF ReadUevent
  <2>3. RescanKnows'
    BY <1>3 DEF ReadUevent
  <2>4. DeadOutputIsTornDown'
    BY <1>3 DEF ReadUevent
  <2>5. OneViewPerOutput'
    BY <1>3 DEF ReadUevent
  <2>6. SwitchKnows'
    BY <1>3 DEF ReadUevent
  <2> QED
    BY <2>1, <2>2, <2>3, <2>4, <2>5, <2>6
<1>4. ASSUME NEW c \in Connectors, RescanGone(c) PROVE IInv'
  <2>1. TypeOK'
    BY <1>4 DEF RescanGone, Visit
  <2>2. OutputsAreDistinct'
    BY <1>4 DEF RescanGone, Visit
  <2>3. RescanKnows'
    BY <1>4 DEF RescanGone, Visit
  <2>4. DeadOutputIsTornDown'
    BY <1>4 DEF RescanGone, Visit
  <2>5. OneViewPerOutput'
    BY <1>4 DEF RescanGone, Visit
  <2>6. SwitchKnows'
    BY <1>4 DEF RescanGone, Visit
  <2> QED
    BY <2>1, <2>2, <2>3, <2>4, <2>5, <2>6
<1>5. ASSUME NEW c \in Connectors, RescanSkip(c) PROVE IInv'
  BY <1>5 DEF RescanSkip, Visit
<1>6. ASSUME NEW c \in Connectors, RescanFull(c) PROVE IInv'
  BY <1>6 DEF RescanFull, Visit
<1>7. ASSUME NEW c \in Connectors, RescanNew(c) PROVE IInv'
  <2>1. TypeOK'
    BY <1>7 DEF RescanNew, HandOut, Visit, SlotFor
  <2>2. OutputsAreDistinct'
    BY <1>7 DEF RescanNew, HandOut, Visit, SlotFor
  <2>3. RescanKnows'
    BY <1>7 DEF RescanNew, HandOut, Visit, SlotFor
  <2>4. DeadOutputIsTornDown'
    BY <1>7 DEF RescanNew, HandOut, Visit, SlotFor
  <2>5. OneViewPerOutput'
    BY <1>7 DEF RescanNew, HandOut, Visit, SlotFor
  <2>6. SwitchKnows'
    BY <1>7 DEF RescanNew, HandOut, Visit, SlotFor
  <2> QED
    BY <2>1, <2>2, <2>3, <2>4, <2>5, <2>6
<1>8. ASSUME NEW s \in Slots, BeginOutputRemoval(s) PROVE IInv'
  <2>0. /\ leaving' \in Seq(Removal) /\ Len(leaving') <= MaxRemovals
        /\ \A i \in DOMAIN leaving : i \in DOMAIN leaving' /\ leaving'[i] = leaving[i]
        /\ ViewsOn(s) # {} =>
             \E i \in DOMAIN leaving' : leaving'[i].baton /\ leaving'[i].slot = s
    <3>1. CASE ViewsOn(s) = {}
      BY <1>8, <3>1 DEF BeginOutputRemoval
    <3>2. CASE ViewsOn(s) # {}
      <4> PICK v \in ViewsOn(s) :
            leaving' = Append(leaving, [slot |-> s, view |-> v, baton |-> TRUE])
        BY <1>8, <3>2 DEF BeginOutputRemoval
      <4>1. [slot |-> s, view |-> v, baton |-> TRUE] \in Removal
        OBVIOUS
      <4>2. Len(leaving) < MaxRemovals
        BY <1>8, <3>2 DEF BeginOutputRemoval
      <4>3. /\ leaving' \in Seq(Removal) /\ Len(leaving') = Len(leaving) + 1
            /\ DOMAIN leaving' = 1..(Len(leaving) + 1)
            /\ \A i \in DOMAIN leaving : i \in DOMAIN leaving' /\ leaving'[i] = leaving[i]
            /\ leaving'[Len(leaving) + 1] = [slot |-> s, view |-> v, baton |-> TRUE]
        BY <4>1, AppendLemma
      <4>4. Len(leaving') <= MaxRemovals
        BY <4>2, <4>3
      <4>5. Len(leaving) + 1 \in DOMAIN leaving'
        BY <4>3
      <4> QED
        BY <4>3, <4>4, <4>5
    <3> QED
      BY <3>1, <3>2
  <2>1. TypeOK'
    BY <1>8, <2>0 DEF BeginOutputRemoval, Teardown, RescanDone
  <2>2. OutputsAreDistinct'
    BY <1>8 DEF BeginOutputRemoval, Teardown, RescanDone
  <2>3. RescanKnows'
    BY <1>8 DEF BeginOutputRemoval, Teardown, RescanDone
  <2>4. DeadOutputIsTornDown'
    BY <1>8, <2>0 DEF BeginOutputRemoval, Teardown, RescanDone
  <2>5. OneViewPerOutput'
    BY <1>8 DEF BeginOutputRemoval, Teardown, RescanDone
  <2>6. SwitchKnows'
    BY <1>8 DEF BeginOutputRemoval, Teardown, RescanDone
  <2> QED
    BY <2>1, <2>2, <2>3, <2>4, <2>5, <2>6
<1>9. ASSUME NEW s \in Slots, BuildPipeline(s) PROVE IInv'
  <2>0. crtc[s] \in Crtcs
    BY <1>9 DEF BuildPipeline
  <2>1. TypeOK'
    <3>1. /\ lit' \subseteq Crtcs /\ chain' \in [Slots -> Crtcs \cup {None}]
          /\ news' \in BOOLEAN
      BY <1>9, <2>0, BuildPipelineTypes
    <3>2. added' \subseteq Slots
      BY <1>9 DEF BuildPipeline
    <3> QED
      BY <1>9, <3>1, <3>2 DEF BuildPipeline
  <2>2. OutputsAreDistinct'
    BY <1>9 DEF BuildPipeline, RescanDone
  <2>3. RescanKnows'
    BY <1>9 DEF BuildPipeline, RescanDone
  <2>4. DeadOutputIsTornDown'
    BY <1>9 DEF BuildPipeline, RescanDone
  <2>5. OneViewPerOutput'
    BY <1>9 DEF BuildPipeline, RescanDone
  <2>6. SwitchKnows'
    BY <1>9 DEF BuildPipeline, RescanDone
  <2> QED
    BY <2>1, <2>2, <2>3, <2>4, <2>5, <2>6
<1>10. CASE EndRescan
  BY <1>10 DEF EndRescan, RescanDone
<1>11. CASE CompletePending
  <2>1. TypeOK'
    BY <1>11 DEF CompletePending, Teardown
  <2>2. OutputsAreDistinct'
    BY <1>11 DEF CompletePending, Teardown
  <2>3. RescanKnows'
    BY <1>11 DEF CompletePending, Teardown
  <2>4. DeadOutputIsTornDown'
    BY <1>11 DEF CompletePending, Teardown
  <2>5. OneViewPerOutput'
    BY <1>11 DEF CompletePending, Teardown
  <2>6. SwitchKnows'
    BY <1>11 DEF CompletePending, Teardown
  <2> QED
    BY <2>1, <2>2, <2>3, <2>4, <2>5, <2>6
<1>12. ASSUME NEW s \in Slots, SetPrimaryOutput(s) PROVE IInv'
  <2>0. /\ leaving' \in Seq(Removal) /\ Len(leaving') <= MaxRemovals
        /\ \A i \in DOMAIN leaving : i \in DOMAIN leaving' /\ leaving'[i] = leaving[i]
    <3>1. CASE ViewsOn(s) = {}
      <4>1. leaving' = leaving
        BY <1>12, <3>1 DEF SetPrimaryOutput, MaySetPrimary
      <4> QED
        BY <4>1
    <3>2. CASE ViewsOn(s) # {}
      <4> PICK v \in ViewsOn(s) :
            leaving' = Append(leaving, [slot |-> s, view |-> v, baton |-> FALSE])
        BY <1>12, <3>2 DEF SetPrimaryOutput, MaySetPrimary
      <4>1. [slot |-> s, view |-> v, baton |-> FALSE] \in Removal
        OBVIOUS
      <4>2. Len(leaving) < MaxRemovals
        BY <1>12, <3>2 DEF SetPrimaryOutput, MaySetPrimary
      <4>3. /\ leaving' \in Seq(Removal) /\ Len(leaving') = Len(leaving) + 1
            /\ \A i \in DOMAIN leaving : i \in DOMAIN leaving' /\ leaving'[i] = leaving[i]
        BY <4>1, AppendLemma
      <4> QED
        BY <4>2, <4>3
    <3> QED
      BY <3>1, <3>2
  <2>1. TypeOK'
    BY <1>12, <2>0 DEF SetPrimaryOutput, MaySetPrimary
  <2>2. OutputsAreDistinct'
    BY <1>12 DEF SetPrimaryOutput, MaySetPrimary
  <2>3. RescanKnows'
    BY <1>12 DEF SetPrimaryOutput, MaySetPrimary
  <2>4. DeadOutputIsTornDown'
    <3>1. UNCHANGED <<alive, chain, removed, pending>>
      BY <1>12 DEF SetPrimaryOutput, MaySetPrimary
    <3>2. \A t \in Slots : UnderTeardown(t) => UnderTeardown(t)'
      BY <2>0, <3>1
    <3> QED
      BY <3>1, <3>2
  <2>5. OneViewPerOutput'
    BY <1>12 DEF SetPrimaryOutput, MaySetPrimary
  <2>6. SwitchKnows'
    BY <1>12 DEF SetPrimaryOutput, MaySetPrimary
  <2> QED
    BY <2>1, <2>2, <2>3, <2>4, <2>5, <2>6
<1>20. CASE RetargetPrimary
  BY <1>20 DEF RetargetPrimary
<1>21. CASE RouteImplicit
  <2>1. TypeOK'
    BY <1>21 DEF RouteImplicit
  <2>2. OutputsAreDistinct'
    BY <1>21 DEF RouteImplicit
  <2>3. RescanKnows'
    BY <1>21 DEF RouteImplicit
  <2>4. DeadOutputIsTornDown'
    BY <1>21 DEF RouteImplicit
  <2>5. OneViewPerOutput'
    BY <1>21 DEF RouteImplicit
  <2>6. SwitchKnows'
    BY <1>21 DEF RouteImplicit
  <2> QED
    BY <2>1, <2>2, <2>3, <2>4, <2>5, <2>6
<1>13. ASSUME NEW s \in Slots, NEW v \in Views, AddOutputView(s, v) PROVE IInv'
  BY <1>13 DEF AddOutputView
<1>14. CASE EndPresent
  <2>1. TypeOK'
    BY <1>14 DEF EndPresent
  <2>2. OutputsAreDistinct'
    BY <1>14 DEF EndPresent
  <2>3. RescanKnows'
    BY <1>14 DEF EndPresent
  <2>4. DeadOutputIsTornDown'
    BY <1>14 DEF EndPresent
  <2>5. OneViewPerOutput'
    BY <1>14 DEF EndPresent
  <2>6. SwitchKnows'
    BY <1>14 DEF EndPresent
  <2> QED
    BY <2>1, <2>2, <2>3, <2>4, <2>5, <2>6
<1>15. CASE ViewRemoved
  <2> DEFINE h == Head(leaving)
             task == [slot |-> h.slot, view |-> h.view]
  <2>0. /\ h \in Removal /\ h = leaving[1] /\ leaving' \in Seq(Removal)
        /\ Len(leaving') = Len(leaving) - 1
        /\ \A i \in DOMAIN leaving :
             i # 1 => i - 1 \in DOMAIN leaving' /\ leaving'[i - 1] = leaving[i]
    <3>1. leaving \in Seq(Removal)
      OBVIOUS
    <3> QED
      BY <1>15, <3>1, ViewRemovedTakes
  <2>a. task \in [slot : Slots, view : Views]
    BY <2>0
  <2>b. /\ pending' \subseteq [slot : Slots, view : Views] /\ pending \subseteq pending'
        /\ h.baton => \E r \in pending' : r.slot = h.slot
    <3>1. CASE h.baton
      <4>1. pending' = pending \cup {task}
        BY <1>15, <3>1 DEF ViewRemoved
      <4>2. task \in pending' /\ task.slot = h.slot
        BY <4>1
      <4> QED
        BY <2>a, <4>1, <4>2
    <3>2. CASE ~h.baton
      BY <1>15, <3>2 DEF ViewRemoved
    <3> QED
      BY <3>1, <3>2
  <2>d. ASSUME NEW t \in Slots, TearingDown(t) PROVE TearingDown(t)'
    <3>1. CASE \E r \in pending : r.slot = t
      BY <2>b, <3>1
    <3>2. CASE \E i \in DOMAIN leaving : leaving[i].baton /\ leaving[i].slot = t
      <4> PICK i \in DOMAIN leaving : leaving[i].baton /\ leaving[i].slot = t
        BY <3>2
      <4>1. CASE i = 1
        BY <2>0, <2>b, <4>1
      <4>2. CASE i # 1
        BY <2>0, <4>2
      <4> QED
        BY <4>1, <4>2
    <3> QED
      BY <2>d, <3>1, <3>2
  <2>1. TypeOK'
    BY <1>15, <2>0, <2>b DEF ViewRemoved
  <2>2. OutputsAreDistinct'
    BY <1>15 DEF ViewRemoved
  <2>3. RescanKnows'
    BY <1>15 DEF ViewRemoved
  <2>4. DeadOutputIsTornDown'
    BY <1>15, <2>d DEF ViewRemoved
  <2>5. OneViewPerOutput'
    BY <1>15 DEF ViewRemoved
  <2>6. SwitchKnows'
    BY <1>15 DEF ViewRemoved
  <2> QED
    BY <2>1, <2>2, <2>3, <2>4, <2>5, <2>6
<1>16. ASSUME NEW v \in Views \cup {Implicit}, BeginPresent(v) PROVE IInv'
  BY <1>16 DEF BeginPresent
<1>17. CASE VtLeave
  <2>1. TypeOK'
    BY <1>17 DEF VtLeave
  <2>2. OutputsAreDistinct'
    BY <1>17 DEF VtLeave
  <2>3. RescanKnows'
    BY <1>17 DEF VtLeave
  <2>4. DeadOutputIsTornDown'
    BY <1>17 DEF VtLeave
  <2>5. OneViewPerOutput'
    BY <1>17 DEF VtLeave
  <2>6. SwitchKnows'
    BY <1>17 DEF VtLeave
  <2> QED
    BY <2>1, <2>2, <2>3, <2>4, <2>5, <2>6
<1>18. CASE VtReturn
  BY <1>18 DEF VtReturn
<1>19. CASE UNCHANGED vars
  BY <1>19 DEF vars
<1> QED
  BY <1>1, <1>2, <1>3, <1>4, <1>5, <1>6, <1>7, <1>8, <1>9, <1>10, <1>11, <1>12,
     <1>13, <1>14, <1>15, <1>16, <1>17, <1>18, <1>19, <1>20, <1>21
  DEF Next, HotplugStep, SwitchStep, RasterStep
-----------------------------------------------------------------------------
(* The invariant holds of every reachable state.                           *)
LEMMA InductiveInvariant == Spec => []IInv
BY InitInv, Step, PTL DEF Spec

(* The module keeps its types, and the queues their bound.                 *)
THEOREM TypeCorrect == Spec => []TypeOK
<1>1. IInv => TypeOK
  BY DEF IInv
<1> QED
  BY InductiveInvariant, <1>1, PTL

(* No reuse of dead slots ever gives two live outputs one connector or one *)
(* CRTC, and the primary never leaves the table (RescanConnectors).        *)
THEOREM ConflictFreeCrtcs == Spec => []OutputsAreDistinct
<1>1. IInv => OutputsAreDistinct
  BY DEF IInv
<1> QED
  BY InductiveInvariant, <1>1, PTL

(* No disconnected output's chain and surfaces are forgotten: the teardown *)
(* that frees them is always still on its way (BeginOutputRemoval).        *)
THEOREM NothingForgotten == Spec => []DeadOutputIsTornDown
<1>1. IInv => DeadOutputIsTornDown
  BY DEF IInv
<1> QED
  BY InductiveInvariant, <1>1, PTL

(* view_to_output routes one view to an output, and view 0 to the primary. *)
THEOREM OneViewEach == Spec => []OneViewPerOutput
<1>1. IInv => OneViewPerOutput
  BY DEF IInv
<1> QED
  BY InductiveInvariant, <1>1, PTL

-----------------------------------------------------------------------------
(* What holds besides IInv of the outputs that were not handed out early:  *)
(* no teardown under way concerns them or their CRTC.                      *)

(* Only dead outputs, and those handed out early, are under teardown.      *)
DeadOrEarly == \A s \in Slots : UnderTeardown(s) => s \notin alive \/ s \in early

(* A request of RemoveView carries a view that is routed to its output or  *)
(* nowhere, and once its teardown waits for the loop the engine has let go *)
(* of the view.                                                            *)
RequestsMatch ==
  /\ \A i \in DOMAIN leaving : viewMap[leaving[i].view] \in {leaving[i].slot, None}
  /\ \A r \in pending : viewMap[r.view] \in {r.slot, None} /\ r.view \notin inEngine

(* An output not handed out early is in one stage of its removal at a      *)
(* time, and keeps its view until the teardown.                            *)
RemovedOnce ==
  /\ \A i \in DOMAIN leaving : leaving[i].baton /\ leaving[i].slot \notin early =>
       /\ viewMap[leaving[i].view] = leaving[i].slot
       /\ leaving[i].slot \notin removed
       /\ \A r \in pending : r.slot # leaving[i].slot
       /\ \A j \in DOMAIN leaving :
            leaving[j].baton /\ leaving[j].slot = leaving[i].slot => i = j
  /\ \A r \in pending : r.slot \notin early =>
       viewMap[r.view] = r.slot /\ r.slot \notin removed

(* A chain drives the CRTC its entry names until it is under teardown, and *)
(* no other chain or dead entry concerns the CRTC of a live output.        *)
OwnResources ==
  /\ primary \notin early => chain[primary] # None
  /\ \A t \in Slots : chain[t] # None /\ ~UnderTeardown(t) => chain[t] = crtc[t]
  /\ \A s \in alive \ early :
       /\ chain[s] # None /\ vtActive => crtc[s] \in lit
       /\ \A t \in Slots \ {s} : chain[t] # None => crtc[s] \notin {chain[t], crtc[t]}

(* A guarded present is on the output one of the engine's views, or the    *)
(* implicit view, is still routed to.                                      *)
GuardedPresent ==
  presenting # None /\ ~unguarded =>
    /\ presenting \notin early /\ chain[presenting] # None
    /\ \E v \in inEngine \cup {Implicit} : viewMap[v] = presenting

(* What the app was told is stale only in a rescan that will call it back. *)
TellsTheApp ==
  \/ told \subseteq alive /\ told \ early = Usable \ early
  \/ plat = "rescan" /\ (news \/ removed # {})

CleanInv ==
  /\ DeadOrEarly /\ RequestsMatch /\ RemovedOnce
  /\ OwnResources /\ GuardedPresent /\ TellsTheApp

(* The initial state satisfies it.                                         *)
LEMMA CleanInit == Init => CleanInv
<1> SUFFICES ASSUME Init PROVE CleanInv
  OBVIOUS
<1> USE ConstantsOK DEF Init, Slots, Known
<1>1. TypeOK /\ \A s \in Slots : ~UnderTeardown(s)
  BY InitInv DEF IInv, UnderTeardown, TearingDown
<1>2. DeadOrEarly
  BY <1>1 DEF DeadOrEarly
<1>3. RequestsMatch
  BY DEF RequestsMatch
<1>4. RemovedOnce
  BY DEF RemovedOnce
<1>5. OwnResources
  BY <1>1 DEF OwnResources
<1>6. GuardedPresent
  BY DEF GuardedPresent
<1>7. TellsTheApp
  BY DEF TellsTheApp, Usable
<1> QED
  BY <1>2, <1>3, <1>4, <1>5, <1>6, <1>7 DEF CleanInv

(* A request in the engine has a slot and a view.                          *)
LEMMA LeavingTypes ==
  ASSUME leaving \in Seq(Removal), NEW i \in DOMAIN leaving
  PROVE  leaving[i].slot \in Slots /\ leaving[i].view \in Views
<1>1. leaving[i] \in Removal
  OBVIOUS
<1> QED
  BY <1>1 DEF Removal

(* Steps that touch nothing of it.                                         *)
LEMMA CleanFrame ==
  ASSUME CleanInv,
         UNCHANGED <<lit, vtActive, alive, crtc, chain, primary, viewMap, engine, pending,
                     plat, removed, news, told, history>>
  PROVE  CleanInv'
<1> USE DEF CleanInv, engine, history
<1>t. \A t \in Slots : UnderTeardown(t)' <=> UnderTeardown(t)
  BY DEF UnderTeardown, TearingDown
<1>1. DeadOrEarly'
  BY <1>t DEF DeadOrEarly
<1>2. RequestsMatch'
  BY DEF RequestsMatch
<1>3. RemovedOnce'
  BY DEF RemovedOnce
<1>4. OwnResources'
  BY <1>t DEF OwnResources
<1>5. GuardedPresent'
  BY DEF GuardedPresent
<1>6. TellsTheApp'
  BY DEF TellsTheApp, Usable
<1> QED
  BY <1>1, <1>2, <1>3, <1>4, <1>5, <1>6

(* Every step of every actor keeps it.                                     *)
LEMMA CleanStep ==
  ASSUME IInv, CleanInv, [Next]_vars
  PROVE  CleanInv'
<1> USE ConstantsOK
    DEF IInv, CleanInv, TypeOK, OutputsAreDistinct, RescanKnows, SwitchKnows,
        DeadOutputIsTornDown, OneViewPerOutput, Known, Removal, table, switch, engine, scan,
        kernel, history
<1>1. ASSUME NEW c \in Connectors, Plug(c) PROVE CleanInv'
  BY <1>1, CleanFrame DEF Plug
<1>2. ASSUME NEW c \in Connectors, Unplug(c) PROVE CleanInv'
  BY <1>2, CleanFrame DEF Unplug
<1>3. CASE ReadUevent
  <2>t. \A t \in Slots : UnderTeardown(t)' <=> UnderTeardown(t)
    BY <1>3 DEF ReadUevent, UnderTeardown, TearingDown
  <2>a. removed' = removed
    BY <1>3 DEF ReadUevent
  <2>1. DeadOrEarly'
    BY <1>3, <2>t DEF ReadUevent, DeadOrEarly
  <2>2. RequestsMatch'
    BY <1>3 DEF ReadUevent, RequestsMatch
  <2>3. RemovedOnce'
    BY <1>3 DEF ReadUevent, RemovedOnce
  <2>4. OwnResources'
    BY <1>3, <2>t DEF ReadUevent, OwnResources
  <2>5. GuardedPresent'
    BY <1>3 DEF ReadUevent, GuardedPresent
  <2>6. TellsTheApp'
    BY <1>3 DEF ReadUevent, TellsTheApp, Usable
  <2> QED
    BY <2>1, <2>2, <2>3, <2>4, <2>5, <2>6
<1>4. ASSUME NEW c \in Connectors, RescanGone(c) PROVE CleanInv'
  <2>a. /\ alive' \subseteq alive /\ removed \subseteq removed'
        /\ \A t \in removed' : t \in removed \/ t \in alive \ alive'
        /\ alive' # alive => removed' # {}
        /\ UNCHANGED <<kernel, vtActive, conn, crtc, switch, chain, viewMap, engine, pending,
                       plat, used, added, news, told, history>>
    BY <1>4, RescanGoneDrops
  <2>t. \A t \in Slots : UnderTeardown(t)' <=> UnderTeardown(t) \/ t \in alive \ alive'
    <3>1. \A t \in Slots : TearingDown(t)' <=> TearingDown(t)
      BY <2>a DEF TearingDown
    <3>2. \A t \in alive \ alive' : t \in removed'
      BY <1>4 DEF RescanGone, Visit, SlotOf
    <3> QED
      BY <2>a, <3>1, <3>2 DEF UnderTeardown
  <2>1. DeadOrEarly'
    BY <2>a, <2>t DEF DeadOrEarly
  <2>2. RequestsMatch'
    BY <2>a DEF RequestsMatch
  <2>3. RemovedOnce'
    <3>1. ASSUME NEW i \in DOMAIN leaving, leaving[i].baton, leaving[i].slot \notin early
          PROVE  leaving[i].slot \notin removed'
      <4>1. leaving[i].slot \in Slots /\ leaving[i].slot \notin removed
        BY <3>1, LeavingTypes DEF RemovedOnce
      <4>2. leaving[i].slot \notin alive
        BY <3>1, <4>1 DEF DeadOrEarly, UnderTeardown, TearingDown
      <4> QED
        BY <2>a, <4>1, <4>2
    <3>2. ASSUME NEW r \in pending, r.slot \notin early PROVE r.slot \notin removed'
      <4>1. r.slot \in Slots /\ r.slot \notin removed
        BY <3>2 DEF RemovedOnce
      <4>2. r.slot \notin alive
        BY <3>2, <4>1 DEF DeadOrEarly, UnderTeardown, TearingDown
      <4> QED
        BY <2>a, <4>1, <4>2
    <3> QED
      BY <2>a, <3>1, <3>2 DEF RemovedOnce
  <2>4. OwnResources'
    BY <2>a, <2>t DEF OwnResources
  <2>5. GuardedPresent'
    BY <2>a DEF GuardedPresent
  <2>6. TellsTheApp'
    <3>1. plat' = "rescan"
      BY <1>4 DEF RescanGone, Visit
    <3>2. CASE alive' = alive
      BY <2>a, <3>2 DEF TellsTheApp, Usable
    <3>3. CASE alive' # alive
      BY <2>a, <3>1, <3>3 DEF TellsTheApp
    <3> QED
      BY <3>2, <3>3
  <2> QED
    BY <2>1, <2>2, <2>3, <2>4, <2>5, <2>6
<1>5. ASSUME NEW c \in Connectors, RescanSkip(c) PROVE CleanInv'
  BY <1>5, CleanFrame DEF RescanSkip
<1>6. ASSUME NEW c \in Connectors, RescanFull(c) PROVE CleanInv'
  BY <1>6, CleanFrame DEF RescanFull
<1>7. ASSUME NEW c \in Connectors, RescanNew(c) PROVE CleanInv'
  <2> PICK s \in SlotFor(c), k \in Drives[c] \ used : HandOut(c, s, k)
    BY <1>7 DEF RescanNew
  <2>a. UNCHANGED <<kernel, vtActive, switch, chain, viewMap, engine, pending, plat, removed,
                    news, told>> /\ plat = "rescan"
    BY <1>7 DEF RescanNew, Visit
  <2>b. s \in Slots /\ s \notin alive /\ s # primary /\ k \in Crtcs /\ k \notin used
    BY <1>7 DEF RescanNew, Visit, SlotFor, SlotOf
  <2>c. /\ alive' = alive \cup {s} /\ \A t \in Slots \ {s} : crtc'[t] = crtc[t]
        /\ crtc'[s] = k /\ \A t \in Slots \ {s} : t \in early' <=> t \in early
        /\ s \in early' <=> Early(s, k)
        /\ unguarded' = (unguarded \/ (presenting = s /\ Early(s, k)))
    BY <2>b DEF HandOut
  <2>d. /\ UnderTeardown(s) => s \in early'
        /\ chain[s] # None => UnderTeardown(s)
    BY <2>b, <2>c DEF Early
  <2>t. \A t \in Slots : UnderTeardown(t)' <=> UnderTeardown(t)
    BY <2>a DEF UnderTeardown, TearingDown
  <2>1. DeadOrEarly'
    BY <2>b, <2>c, <2>d, <2>t DEF DeadOrEarly
  <2>2. RequestsMatch'
    BY <2>a DEF RequestsMatch
  <2>3. RemovedOnce'
    <3>1. ASSUME NEW i \in DOMAIN leaving, leaving[i].baton, leaving[i].slot \notin early'
          PROVE  leaving[i].slot \notin early
      <4>1. leaving[i].slot \in Slots /\ UnderTeardown(leaving[i].slot)
        BY <3>1, LeavingTypes DEF UnderTeardown, TearingDown
      <4> QED
        BY <2>c, <2>d, <3>1, <4>1
    <3>2. ASSUME NEW r \in pending, r.slot \notin early' PROVE r.slot \notin early
      <4>1. r.slot \in Slots /\ UnderTeardown(r.slot)
        BY DEF UnderTeardown, TearingDown
      <4> QED
        BY <2>c, <2>d, <3>2, <4>1
    <3> QED
      BY <2>a, <3>1, <3>2 DEF RemovedOnce
  <2>4. OwnResources'
    <3>1. primary' \notin early' => chain'[primary'] # None
      BY <2>a, <2>b, <2>c DEF OwnResources
    <3>2. ASSUME NEW t \in Slots, chain'[t] # None, ~UnderTeardown(t)'
          PROVE  chain'[t] = crtc'[t]
      BY <2>a, <2>c, <2>d, <2>t, <3>2 DEF OwnResources
    <3>3. ASSUME NEW u \in alive' \ early', chain'[u] # None, vtActive'
          PROVE  crtc'[u] \in lit'
      BY <2>a, <2>b, <2>c, <2>d, <3>3 DEF OwnResources
    <3>4. ASSUME NEW u \in alive' \ early', NEW t \in Slots \ {u}, chain'[t] # None
          PROVE  crtc'[u] \notin {chain'[t], crtc'[t]}
      <4>1. CASE u = s
        <5>1. ~Early(s, k) /\ crtc'[t] = crtc[t] /\ crtc'[u] = k
          BY <2>b, <2>c, <3>4, <4>1
        <5>2. CASE UnderTeardown(t)
          BY <2>a, <5>1, <5>2 DEF Early
        <5>3. CASE ~UnderTeardown(t)
          <6>1. chain[t] = crtc[t] /\ t \in alive
            BY <2>a, <3>4, <5>3 DEF OwnResources
          <6>2. crtc[t] \in used
            BY <2>a, <6>1
          <6> QED
            BY <2>a, <2>b, <5>1, <6>1, <6>2
        <5> QED
          BY <5>2, <5>3
      <4>2. CASE u # s
        <5>1. u \in alive \ early /\ crtc'[u] = crtc[u] /\ crtc[u] \in used
          BY <2>a, <2>b, <2>c, <3>4, <4>2
        <5>2. crtc[u] \notin {chain[t], crtc[t]}
          BY <2>a, <3>4, <5>1 DEF OwnResources
        <5> QED
          BY <2>a, <2>b, <2>c, <5>1, <5>2
      <4> QED
        BY <4>1, <4>2
    <3> QED
      BY <3>1, <3>2, <3>3, <3>4 DEF OwnResources
  <2>5. GuardedPresent'
    BY <2>a, <2>b, <2>c, <2>d DEF GuardedPresent
  <2>6. TellsTheApp'
    <3>1. CASE told \subseteq alive /\ told \ early = Usable \ early
      <4>1. \A t \in Slots \ {s} : t \in Usable' \ early' <=> t \in Usable \ early
        BY <2>a, <2>b, <2>c DEF Usable
      <4>2. s \notin Usable' \ early'
        BY <2>a, <2>c, <2>d DEF Usable
      <4>3. told' \subseteq alive' /\ s \notin told' /\ told' = told
        BY <2>a, <2>b, <2>c, <3>1
      <4>4. Usable' \subseteq Slots /\ Usable \subseteq Slots
        BY <2>b, <2>c DEF Usable
      <4>5. \A t \in Slots : t \in told' \ early' <=> t \in Usable' \ early'
        BY <2>c, <3>1, <4>1, <4>2, <4>3
      <4> QED
        BY <4>3, <4>4, <4>5 DEF TellsTheApp
    <3>2. CASE plat = "rescan" /\ (news \/ removed # {})
      BY <2>a, <3>2 DEF TellsTheApp
    <3> QED
      BY <3>1, <3>2 DEF TellsTheApp
  <2> QED
    BY <2>1, <2>2, <2>3, <2>4, <2>5, <2>6
<1>8. ASSUME NEW s \in Slots, BeginOutputRemoval(s) PROVE CleanInv'
  <2>a. /\ s \in removed /\ removed' = removed \ {s} /\ news' = TRUE /\ plat = "rescan"
        /\ UNCHANGED <<plugged, uevent, vtActive, table, switch, inEngine, presenting,
                       pending, plat, told, history>>
    BY <1>8 DEF BeginOutputRemoval, RescanDone
  <2>b. s \notin early => s \notin alive /\ s # primary
    BY <2>a DEF DeadOrEarly, UnderTeardown
  <2>c. CASE ViewsOn(s) = {}
    <3>1. /\ viewMap' = viewMap /\ chain' = [t \in Slots |-> IF t = s THEN None ELSE chain[t]]
          /\ lit' = lit \ (IF chain[s] # None THEN {crtc[s]} ELSE {})
          /\ UNCHANGED leaving
      BY <1>8, <2>c DEF BeginOutputRemoval, Teardown
    <3>t. \A t \in Slots : /\ UnderTeardown(t)' => UnderTeardown(t)
                           /\ t # s => (UnderTeardown(t)' <=> UnderTeardown(t))
      BY <2>a, <3>1 DEF UnderTeardown, TearingDown
    <3>2. DeadOrEarly'
      BY <2>a, <3>t DEF DeadOrEarly
    <3>3. RequestsMatch'
      BY <2>a, <3>1 DEF RequestsMatch
    <3>4. RemovedOnce'
      BY <2>a, <3>1 DEF RemovedOnce
    <3>5. OwnResources'
      <4>1. \A t \in Slots : chain'[t] # None => t # s /\ chain'[t] = chain[t]
        BY <3>1
      <4>2. ASSUME NEW u \in alive \ early, u # s, chain[s] # None PROVE crtc[u] # crtc[s]
        BY <4>2 DEF OwnResources
      <4>3. primary' \notin early' => chain'[primary'] # None
        BY <2>a, <2>b, <3>1 DEF OwnResources
      <4>4. \A t \in Slots : chain'[t] # None /\ ~UnderTeardown(t)' => chain'[t] = crtc'[t]
        BY <2>a, <3>t, <4>1 DEF OwnResources
      <4>5. ASSUME NEW u \in alive' \ early', chain'[u] # None, vtActive' PROVE crtc'[u] \in lit'
        BY <2>a, <3>1, <4>1, <4>2, <4>5 DEF OwnResources
      <4>6. ASSUME NEW u \in alive' \ early', NEW t \in Slots \ {u}, chain'[t] # None
            PROVE  crtc'[u] \notin {chain'[t], crtc'[t]}
        BY <2>a, <4>1, <4>6 DEF OwnResources
      <4> QED
        BY <4>3, <4>4, <4>5, <4>6 DEF OwnResources
    <3>6. GuardedPresent'
      <4>1. presenting # None /\ ~unguarded => presenting # s
        <5> SUFFICES ASSUME presenting = s, ~unguarded, presenting # None PROVE FALSE
          OBVIOUS
        <5>1. s \notin early /\ \E v \in inEngine \cup {Implicit} : viewMap[v] = s
          BY DEF GuardedPresent
        <5>2. viewMap[Implicit] = primary
          BY <2>a
        <5> QED
          BY <2>b, <2>c, <5>1, <5>2 DEF ViewsOn
      <4> QED
        BY <2>a, <3>1, <4>1 DEF GuardedPresent
    <3>7. TellsTheApp'
      BY <2>a DEF TellsTheApp
    <3> QED
      BY <3>2, <3>3, <3>4, <3>5, <3>6, <3>7
  <2>d. CASE ViewsOn(s) # {}
    <3> DEFINE request(v) == [slot |-> s, view |-> v, baton |-> TRUE]
    <3> PICK v \in ViewsOn(s) : leaving' = Append(leaving, request(v))
      BY <1>8, <2>d DEF BeginOutputRemoval
    <3>1. /\ DOMAIN leaving' = 1..(Len(leaving) + 1)
          /\ \A i \in DOMAIN leaving : i \in DOMAIN leaving' /\ leaving'[i] = leaving[i]
          /\ leaving'[Len(leaving) + 1] = request(v)
      <4>1. request(v) \in Removal
        BY DEF ViewsOn
      <4> QED
        BY <4>1, AppendLemma
    <3>2. \A i \in DOMAIN leaving' : i = Len(leaving) + 1 \/ i \in DOMAIN leaving
      BY <3>1
    <3>3. UNCHANGED <<viewMap, chain, lit>> /\ viewMap[v] = s /\ v \in Views
      BY <1>8, <2>d DEF BeginOutputRemoval, ViewsOn
    <3>t. \A t \in Slots : UnderTeardown(t)' <=> UnderTeardown(t)
      <4>1. Len(leaving) + 1 \in DOMAIN leaving' /\ UnderTeardown(s)
        BY <2>a, <3>1 DEF UnderTeardown
      <4>2. UnderTeardown(s)'
        BY <3>1, <4>1 DEF UnderTeardown, TearingDown
      <4>3. \A t \in Slots : UnderTeardown(t)' => t = s \/ UnderTeardown(t)
        BY <2>a, <3>1, <3>2 DEF UnderTeardown, TearingDown
      <4>4. \A t \in Slots : UnderTeardown(t) => t = s \/ UnderTeardown(t)'
        BY <2>a, <3>1 DEF UnderTeardown, TearingDown
      <4> QED
        BY <4>1, <4>2, <4>3, <4>4
    <3>4. DeadOrEarly'
      BY <2>a, <3>t DEF DeadOrEarly
    <3>5. RequestsMatch'
      <4>1. ASSUME NEW i \in DOMAIN leaving'
            PROVE  viewMap[leaving'[i].view] \in {leaving'[i].slot, None}
        <5>1. CASE i \in DOMAIN leaving
          BY <3>1, <5>1 DEF RequestsMatch
        <5>2. CASE i = Len(leaving) + 1
          BY <3>1, <3>3, <5>2
        <5> QED
          BY <3>2, <5>1, <5>2
      <4> QED
        BY <2>a, <3>3, <4>1 DEF RequestsMatch
    <3>6. RemovedOnce'
      <4>1. s \notin early =>
              /\ \A r \in pending : r.slot # s
              /\ \A i \in DOMAIN leaving : leaving[i].baton => leaving[i].slot # s
        BY <2>a DEF RemovedOnce
      <4>2. ASSUME NEW i \in DOMAIN leaving', leaving'[i].baton, leaving'[i].slot \notin early
            PROVE  /\ viewMap[leaving'[i].view] = leaving'[i].slot
                   /\ leaving'[i].slot \notin removed'
                   /\ \A r \in pending : r.slot # leaving'[i].slot
        BY <2>a, <3>1, <3>2, <3>3, <4>1, <4>2 DEF RemovedOnce
      <4>3. ASSUME NEW i \in DOMAIN leaving', NEW j \in DOMAIN leaving', leaving'[i].baton,
                   leaving'[j].baton, leaving'[j].slot = leaving'[i].slot,
                   leaving'[i].slot \notin early
            PROVE  i = j
        BY <3>1, <3>2, <4>1, <4>3 DEF RemovedOnce
      <4> QED
        BY <2>a, <3>3, <4>2, <4>3 DEF RemovedOnce
    <3>7. OwnResources'
      BY <2>a, <3>3, <3>t DEF OwnResources
    <3>8. GuardedPresent'
      BY <2>a, <3>3 DEF GuardedPresent
    <3>9. TellsTheApp'
      BY <2>a DEF TellsTheApp
    <3> QED
      BY <3>4, <3>5, <3>6, <3>7, <3>8, <3>9
  <2> QED
    BY <2>c, <2>d
<1>9. ASSUME NEW s \in Slots, BuildPipeline(s) PROVE CleanInv'
  <2>t. \A t \in Slots : UnderTeardown(t)' <=> UnderTeardown(t)
    BY <1>9 DEF BuildPipeline, UnderTeardown, TearingDown
  <2>a. /\ s \in added /\ s \in alive /\ plat = "rescan"
        /\ \/ UNCHANGED <<chain, lit, news>>
           \/ /\ chain[s] = None /\ chain' = [chain EXCEPT ![s] = crtc[s]] /\ news' = TRUE
              /\ lit' = IF vtActive THEN lit \cup {crtc[s]} ELSE lit
        /\ UNCHANGED <<vtActive, table, switch, viewMap, engine, pending, plat, removed, told,
                       history>>
    BY <1>9 DEF BuildPipeline, RescanDone
  <2>1. DeadOrEarly'
    BY <1>9, <2>t DEF BuildPipeline, DeadOrEarly
  <2>2. RequestsMatch'
    BY <1>9 DEF BuildPipeline, RequestsMatch
  <2>3. RemovedOnce'
    BY <1>9 DEF BuildPipeline, RemovedOnce
  <2>4. OwnResources'
    <3>1. CASE UNCHANGED <<chain, lit, news>>
      BY <2>a, <2>t, <3>1 DEF OwnResources
    <3>2. CASE /\ chain[s] = None /\ chain' = [chain EXCEPT ![s] = crtc[s]]
               /\ lit' = IF vtActive THEN lit \cup {crtc[s]} ELSE lit
      <4>1. lit \subseteq lit' /\ (vtActive => crtc[s] \in lit')
        BY <3>2
      <4>2. \A u \in alive : u # s => crtc[u] # crtc[s]
        BY <2>a
      <4>3. chain'[s] = crtc[s] /\ \A t \in Slots \ {s} : chain'[t] = chain[t]
        BY <3>2
      <4> QED
        BY <2>a, <2>t, <4>1, <4>2, <4>3 DEF OwnResources
    <3> QED
      BY <2>a, <3>1, <3>2
  <2>5. GuardedPresent'
    BY <2>a DEF GuardedPresent
  <2>6. TellsTheApp'
    BY <2>a DEF TellsTheApp, Usable
  <2> QED
    BY <2>1, <2>2, <2>3, <2>4, <2>5, <2>6
<1>10. CASE EndRescan
  <2>t. \A t \in Slots : UnderTeardown(t)' <=> UnderTeardown(t)
    BY <1>10 DEF EndRescan, RescanDone, UnderTeardown, TearingDown
  <2>1. DeadOrEarly'
    BY <1>10, <2>t DEF EndRescan, RescanDone, DeadOrEarly
  <2>2. RequestsMatch'
    BY <1>10 DEF EndRescan, RescanDone, RequestsMatch
  <2>3. RemovedOnce'
    BY <1>10 DEF EndRescan, RescanDone, RemovedOnce
  <2>4. OwnResources'
    BY <1>10, <2>t DEF EndRescan, RescanDone, OwnResources
  <2>5. GuardedPresent'
    BY <1>10 DEF EndRescan, RescanDone, GuardedPresent
  <2>6. TellsTheApp'
    BY <1>10 DEF EndRescan, RescanDone, TellsTheApp, Usable
  <2> QED
    BY <2>1, <2>2, <2>3, <2>4, <2>5, <2>6
<1>11. CASE CompletePending
  <2> DEFINE torn == {r.slot : r \in pending}
  <2>a. /\ viewMap' = [w \in DOMAIN viewMap |->
                        IF w \in {r.view : r \in pending} THEN None ELSE viewMap[w]]
        /\ chain' = [t \in Slots |-> IF t \in torn THEN None ELSE chain[t]]
        /\ lit' = lit \ {crtc[t] : t \in {u \in torn : chain[u] # None}}
        /\ pending' = {} /\ plat = "loop"
        /\ UNCHANGED <<plugged, uevent, vtActive, table, switch, engine, scan, history>>
    BY <1>11 DEF CompletePending, Teardown
  <2>b. \A t \in torn : /\ t \in Slots /\ UnderTeardown(t)
                        /\ t \notin early => t \notin alive /\ t # primary
    BY DEF UnderTeardown, TearingDown, DeadOrEarly
  <2>c. /\ \A w \in Views \cup {Implicit} : viewMap'[w] = viewMap[w] \/ viewMap'[w] = None
        /\ \A w \in inEngine \cup {Implicit} : viewMap'[w] = viewMap[w]
    BY <2>a DEF RequestsMatch
  <2>t. \A t \in Slots : /\ UnderTeardown(t)' => UnderTeardown(t)
                         /\ t \notin torn => (UnderTeardown(t)' <=> UnderTeardown(t))
    BY <2>a DEF UnderTeardown, TearingDown
  <2>1. DeadOrEarly'
    BY <2>a, <2>t DEF DeadOrEarly
  <2>2. RequestsMatch'
    <3>1. ASSUME NEW i \in DOMAIN leaving
          PROVE  viewMap'[leaving[i].view] \in {leaving[i].slot, None}
      BY <2>c, LeavingTypes DEF RequestsMatch
    <3> QED
      BY <2>a, <3>1 DEF RequestsMatch
  <2>3. RemovedOnce'
    <3>1. ASSUME NEW i \in DOMAIN leaving, leaving[i].baton, leaving[i].slot \notin early
          PROVE  viewMap'[leaving[i].view] = leaving[i].slot
      <4>1. /\ leaving[i].view \in Views /\ leaving[i].slot \in Slots
            /\ viewMap[leaving[i].view] = leaving[i].slot
            /\ \A r \in pending : r.slot # leaving[i].slot
        BY <3>1, LeavingTypes DEF RemovedOnce
      <4>2. \A r \in pending : r.view # leaving[i].view
        BY <4>1 DEF RequestsMatch
      <4> QED
        BY <2>a, <4>1, <4>2
    <3>2. pending' = {} /\ leaving' = leaving /\ early' = early /\ removed' = removed
      BY <2>a
    <3>3. \A i \in DOMAIN leaving : leaving[i].baton /\ leaving[i].slot \notin early =>
            /\ leaving[i].slot \notin removed
            /\ \A j \in DOMAIN leaving :
                 leaving[j].baton /\ leaving[j].slot = leaving[i].slot => i = j
      BY DEF RemovedOnce
    <3> QED
      BY <3>1, <3>2, <3>3 DEF RemovedOnce
  <2>4. OwnResources'
    <3>1. \A t \in Slots : chain'[t] # None => t \notin torn /\ chain'[t] = chain[t]
      BY <2>a
    <3>2. ASSUME NEW u \in alive \ early, NEW t \in torn, chain[t] # None
          PROVE  crtc[u] # crtc[t]
      <4>1. t \in Slots /\ t # u
        BY <2>b
      <4> QED
        BY <3>2, <4>1 DEF OwnResources
    <3>3. primary' \notin early' => chain'[primary'] # None
      BY <2>a, <2>b DEF OwnResources
    <3>4. \A t \in Slots : chain'[t] # None /\ ~UnderTeardown(t)' => chain'[t] = crtc'[t]
      BY <2>a, <2>t, <3>1 DEF OwnResources
    <3>5. ASSUME NEW u \in alive' \ early', chain'[u] # None, vtActive' PROVE crtc'[u] \in lit'
      <4>1. crtc[u] \in lit
        BY <2>a, <3>1, <3>5 DEF OwnResources
      <4> QED
        BY <2>a, <3>2, <3>5, <4>1
    <3>6. ASSUME NEW u \in alive' \ early', NEW t \in Slots \ {u}, chain'[t] # None
          PROVE  crtc'[u] \notin {chain'[t], crtc'[t]}
      BY <2>a, <3>1, <3>6 DEF OwnResources
    <3> QED
      BY <3>3, <3>4, <3>5, <3>6 DEF OwnResources
  <2>5. GuardedPresent'
    <3> SUFFICES ASSUME presenting # None, ~unguarded
                 PROVE  chain'[presenting] # None
      BY <2>a, <2>c DEF GuardedPresent
    <3>1. presenting \notin early /\ presenting \in Slots /\ chain[presenting] # None
      BY DEF GuardedPresent
    <3> PICK v \in inEngine \cup {Implicit} : viewMap[v] = presenting
      BY DEF GuardedPresent
    <3>2. presenting \notin torn
      <4> SUFFICES ASSUME NEW r \in pending, r.slot = presenting PROVE FALSE
        OBVIOUS
      <4>1. viewMap[r.view] = presenting /\ r.view \in Views /\ r.view \notin inEngine
        BY <3>1 DEF RemovedOnce, RequestsMatch
      <4>2. r.view = v
        BY <3>1, <4>1
      <4> QED
        BY <4>1, <4>2
    <3> QED
      BY <2>a, <3>1, <3>2
  <2>6. TellsTheApp'
    <3>1. told \subseteq alive /\ told \ early = Usable \ early
      BY <2>a DEF TellsTheApp
    <3>2. Usable' \ early = Usable \ early
      BY <2>a, <2>b DEF Usable
    <3> QED
      BY <2>a, <3>1, <3>2 DEF TellsTheApp
  <2> QED
    BY <2>1, <2>2, <2>3, <2>4, <2>5, <2>6
<1>12. ASSUME NEW s \in Slots, SetPrimaryOutput(s) PROVE CleanInv'
  <2>a. /\ s \in alive /\ chain[s] # None /\ plat = "loop" /\ plat' = "displaced"
        /\ removed = {} /\ unguarded' = (unguarded \/ presenting = s)
        /\ UNCHANGED <<kernel, vtActive, table, primary, chain, inEngine, presenting, pending,
                       removed, news, told, early>>
    BY <1>12 DEF SetPrimaryOutput, MaySetPrimary
  <2>b. \A w \in Views \cup {Implicit} :
          viewMap'[w] = IF w # Implicit /\ viewMap[w] = s THEN None ELSE viewMap[w]
    BY <1>12 DEF SetPrimaryOutput
  <2>d. /\ \A i \in DOMAIN leaving : i \in DOMAIN leaving' /\ leaving'[i] = leaving[i]
        /\ \A i \in DOMAIN leaving' : \/ i \in DOMAIN leaving
                                      \/ ~leaving'[i].baton /\ leaving'[i].view \in ViewsOn(s)
    <3>1. CASE leaving' = leaving
      BY <3>1
    <3>2. CASE leaving' # leaving
      <4> DEFINE request(v) == [slot |-> s, view |-> v, baton |-> FALSE]
      <4> PICK v \in ViewsOn(s) : leaving' = Append(leaving, request(v))
        BY <1>12, <3>2 DEF SetPrimaryOutput
      <4>1. request(v) \in Removal
        BY DEF ViewsOn
      <4>2. /\ DOMAIN leaving' = 1..(Len(leaving) + 1)
            /\ \A i \in DOMAIN leaving : i \in DOMAIN leaving' /\ leaving'[i] = leaving[i]
            /\ leaving'[Len(leaving) + 1] = request(v)
        BY <4>1, AppendLemma
      <4>3. \A i \in DOMAIN leaving' : i \in DOMAIN leaving \/ i = Len(leaving) + 1
        BY <4>2
      <4> QED
        BY <4>2, <4>3
    <3> QED
      BY <3>1, <3>2
  <2>t. \A t \in Slots : UnderTeardown(t)' <=> UnderTeardown(t)
    BY <2>a, <2>d DEF UnderTeardown, TearingDown
  <2>1. DeadOrEarly'
    BY <2>a, <2>t DEF DeadOrEarly
  <2>2. RequestsMatch'
    <3>1. ASSUME NEW i \in DOMAIN leaving'
          PROVE  viewMap'[leaving'[i].view] \in {leaving'[i].slot, None}
      <4>1. CASE i \in DOMAIN leaving
        <5>1. leaving'[i] = leaving[i] /\ leaving[i].view \in Views
          BY <2>d, <4>1, LeavingTypes
        <5> QED
          BY <2>b, <4>1, <5>1 DEF RequestsMatch
      <4>2. CASE leaving'[i].view \in ViewsOn(s)
        BY <2>b, <4>2 DEF ViewsOn
      <4> QED
        BY <2>d, <4>1, <4>2
    <3> QED
      BY <2>a, <2>b, <3>1 DEF RequestsMatch
  <2>3. RemovedOnce'
    <3>1. ASSUME NEW i \in DOMAIN leaving, leaving[i].baton, leaving[i].slot \notin early
          PROVE  viewMap'[leaving[i].view] = leaving[i].slot
      <4>1. /\ leaving[i].view \in Views /\ leaving[i].slot \in Slots
            /\ viewMap[leaving[i].view] = leaving[i].slot
        BY <3>1, LeavingTypes DEF RemovedOnce
      <4>2. leaving[i].slot # s
        BY <2>a, <3>1, <4>1 DEF DeadOrEarly, UnderTeardown, TearingDown
      <4> QED
        BY <2>b, <4>1, <4>2
    <3>2. ASSUME NEW r \in pending, r.slot \notin early PROVE viewMap'[r.view] = r.slot
      <4>1. r.view \in Views /\ viewMap[r.view] = r.slot /\ r.slot # s
        BY <1>12, <3>2 DEF SetPrimaryOutput, MaySetPrimary, RemovedOnce
      <4> QED
        BY <2>b, <4>1
    <3> QED
      BY <2>a, <2>d, <3>1, <3>2 DEF RemovedOnce
  <2>4. OwnResources'
    BY <2>a, <2>t DEF OwnResources
  <2>5. GuardedPresent'
    BY <2>a, <2>b DEF GuardedPresent
  <2>6. TellsTheApp'
    BY <2>a DEF TellsTheApp, Usable
  <2> QED
    BY <2>1, <2>2, <2>3, <2>4, <2>5, <2>6
<1>13. ASSUME NEW s \in Slots, NEW v \in Views, AddOutputView(s, v) PROVE CleanInv'
  <2>t. \A t \in Slots : UnderTeardown(t)' <=> UnderTeardown(t)
    BY <1>13 DEF AddOutputView, UnderTeardown, TearingDown
  <2>a. /\ viewMap[v] = None /\ \A w \in Views \cup {Implicit} : w # v => viewMap'[w] = viewMap[w]
        /\ inEngine' = inEngine \cup {v}
        /\ \A i \in DOMAIN leaving : leaving[i].view # v
        /\ \A r \in pending : r.view # v
        /\ UNCHANGED <<kernel, vtActive, table, switch, chain, leaving, presenting, pending, scan,
                       history>>
    BY <1>13 DEF AddOutputView
  <2>1. DeadOrEarly'
    BY <1>13, <2>t DEF AddOutputView, DeadOrEarly
  <2>2. RequestsMatch'
    <3>1. ASSUME NEW i \in DOMAIN leaving PROVE viewMap'[leaving[i].view] = viewMap[leaving[i].view]
      BY <2>a, LeavingTypes
    <3>2. ASSUME NEW r \in pending PROVE viewMap'[r.view] = viewMap[r.view] /\ r.view \notin inEngine'
      BY <2>a DEF RequestsMatch
    <3> QED
      BY <2>a, <3>1, <3>2 DEF RequestsMatch
  <2>3. RemovedOnce'
    <3>1. ASSUME NEW i \in DOMAIN leaving PROVE viewMap'[leaving[i].view] = viewMap[leaving[i].view]
      BY <2>a, LeavingTypes
    <3>2. ASSUME NEW r \in pending PROVE viewMap'[r.view] = viewMap[r.view]
      BY <2>a
    <3> QED
      BY <2>a, <3>1, <3>2 DEF RemovedOnce
  <2>4. OwnResources'
    BY <1>13, <2>t DEF AddOutputView, OwnResources
  <2>5. GuardedPresent'
    BY <2>a DEF GuardedPresent
  <2>6. TellsTheApp'
    BY <1>13 DEF AddOutputView, TellsTheApp, Usable
  <2> QED
    BY <2>1, <2>2, <2>3, <2>4, <2>5, <2>6
<1>14. CASE EndPresent
  <2>t. \A t \in Slots : UnderTeardown(t)' <=> UnderTeardown(t)
    BY <1>14 DEF EndPresent, UnderTeardown, TearingDown
  <2>1. DeadOrEarly'
    BY <1>14, <2>t DEF EndPresent, DeadOrEarly
  <2>2. RequestsMatch'
    BY <1>14 DEF EndPresent, RequestsMatch
  <2>3. RemovedOnce'
    BY <1>14 DEF EndPresent, RemovedOnce
  <2>4. OwnResources'
    BY <1>14, <2>t DEF EndPresent, OwnResources
  <2>5. GuardedPresent'
    BY <1>14 DEF EndPresent, GuardedPresent
  <2>6. TellsTheApp'
    BY <1>14 DEF EndPresent, TellsTheApp, Usable
  <2> QED
    BY <2>1, <2>2, <2>3, <2>4, <2>5, <2>6
<1>15. CASE ViewRemoved
  <2> DEFINE h    == Head(leaving)
             task == [slot |-> h.slot, view |-> h.view]
  <2>a. /\ h \in Removal /\ h = leaving[1] /\ 1 \in DOMAIN leaving /\ leaving' = Tail(leaving)
        /\ DOMAIN leaving = 1..Len(leaving) /\ DOMAIN leaving' = 1..(Len(leaving) - 1)
        /\ \A i \in DOMAIN leaving' : i + 1 \in DOMAIN leaving /\ leaving'[i] = leaving[i + 1]
    <3>1. leaving # <<>> /\ leaving' = Tail(leaving)
      BY <1>15 DEF ViewRemoved
    <3>2. /\ h \in Removal /\ h = leaving[1] /\ leaving' \in Seq(Removal)
          /\ Len(leaving') = Len(leaving) - 1
          /\ \A i \in DOMAIN leaving :
               i # 1 => i - 1 \in DOMAIN leaving' /\ leaving'[i - 1] = leaving[i]
      BY <3>1, LeavingTail
    <3>3. /\ DOMAIN leaving = 1..Len(leaving) /\ Len(leaving) \in Nat
          /\ DOMAIN leaving' = 1..(Len(leaving) - 1) /\ Len(leaving') \in Nat
      BY <3>2
    <3>4. ASSUME NEW i \in DOMAIN leaving'
          PROVE  i + 1 \in DOMAIN leaving /\ leaving'[i] = leaving[i + 1]
      <4>1. i \in 1..(Len(leaving) - 1) /\ Len(leaving) \in Nat
        BY <3>3
      <4>2. i + 1 \in 1..Len(leaving) /\ i + 1 # 1 /\ (i + 1) - 1 = i
        BY <4>1
      <4> QED
        BY <3>2, <3>3, <4>2
    <3> QED
      BY <3>1, <3>2, <3>3, <3>4
  <2>b. /\ \A r \in pending' : r \in pending \/ (h.baton /\ r = task)
        /\ pending \subseteq pending' /\ (h.baton => task \in pending')
        /\ inEngine' = inEngine \ {h.view}
        /\ UNCHANGED <<kernel, vtActive, table, switch, chain, viewMap, presenting, scan,
                       history>> /\ presenting = None
    BY <1>15 DEF ViewRemoved
  <2>c. \A i \in DOMAIN leaving : i = 1 \/ (i - 1 \in DOMAIN leaving' /\ leaving'[i - 1] = leaving[i])
    <3> SUFFICES ASSUME NEW i \in DOMAIN leaving, i # 1
                 PROVE  i - 1 \in DOMAIN leaving' /\ leaving'[i - 1] = leaving[i]
      OBVIOUS
    <3>1. i - 1 \in 1..(Len(leaving) - 1) /\ (i - 1) + 1 = i
      BY <2>a
    <3> QED
      BY <2>a, <3>1
  <2>t. \A t \in Slots : UnderTeardown(t)' <=> UnderTeardown(t)
    <3>1. \A t \in Slots : UnderTeardown(t)' => UnderTeardown(t)
      BY <2>a, <2>b DEF UnderTeardown, TearingDown
    <3>2. ASSUME NEW t \in Slots, UnderTeardown(t) PROVE UnderTeardown(t)'
      <4>1. CASE t \in removed \/ \E r \in pending : r.slot = t
        BY <2>b, <4>1 DEF UnderTeardown, TearingDown
      <4>2. CASE \E i \in DOMAIN leaving : leaving[i].baton /\ leaving[i].slot = t
        <5> PICK i \in DOMAIN leaving : leaving[i].baton /\ leaving[i].slot = t
          BY <4>2
        <5>1. CASE i = 1
          BY <2>a, <2>b, <5>1 DEF UnderTeardown, TearingDown
        <5>2. CASE i # 1
          BY <2>c, <5>2 DEF UnderTeardown, TearingDown
        <5> QED
          BY <5>1, <5>2
      <4> QED
        BY <3>2, <4>1, <4>2 DEF UnderTeardown, TearingDown
    <3> QED
      BY <3>1, <3>2
  <2>1. DeadOrEarly'
    BY <2>b, <2>t DEF DeadOrEarly
  <2>2. RequestsMatch'
    <3>1. ASSUME NEW i \in DOMAIN leaving'
          PROVE  viewMap[leaving'[i].view] \in {leaving'[i].slot, None}
      <4>1. i + 1 \in DOMAIN leaving /\ leaving'[i] = leaving[i + 1]
        BY <2>a
      <4> QED
        BY <4>1 DEF RequestsMatch
    <3>2. ASSUME NEW r \in pending'
          PROVE  viewMap[r.view] \in {r.slot, None} /\ r.view \notin inEngine'
      <4>1. CASE r \in pending
        BY <2>b, <4>1 DEF RequestsMatch
      <4>2. CASE r \notin pending
        <5>1. r = [slot |-> h.slot, view |-> h.view]
          BY <2>b, <4>2, <3>2
        <5> QED
          BY <2>a, <2>b, <5>1 DEF RequestsMatch
      <4> QED
        BY <4>1, <4>2
    <3> QED
      BY <2>b, <3>1, <3>2 DEF RequestsMatch
  <2>3. RemovedOnce'
    <3>1. ASSUME NEW i \in DOMAIN leaving', leaving'[i].baton, leaving'[i].slot \notin early
          PROVE  /\ viewMap[leaving'[i].view] = leaving'[i].slot
                 /\ leaving'[i].slot \notin removed
                 /\ \A r \in pending' : r.slot # leaving'[i].slot
      <4>1. i + 1 \in DOMAIN leaving /\ leaving'[i] = leaving[i + 1] /\ i + 1 # 1
        BY <2>a
      <4>2. h.baton => h.slot # leaving[i + 1].slot
        BY <2>a, <3>1, <4>1 DEF RemovedOnce
      <4> QED
        BY <2>b, <3>1, <4>1, <4>2 DEF RemovedOnce
    <3>2. ASSUME NEW i \in DOMAIN leaving', NEW j \in DOMAIN leaving', leaving'[i].baton,
                 leaving'[j].baton, leaving'[j].slot = leaving'[i].slot,
                 leaving'[i].slot \notin early
          PROVE  i = j
      <4>1. i + 1 = j + 1
        BY <2>a, <3>2 DEF RemovedOnce
      <4> QED
        BY <2>a, <4>1
    <3>3. ASSUME NEW r \in pending', r.slot \notin early
          PROVE  viewMap[r.view] = r.slot /\ r.slot \notin removed
      BY <2>a, <2>b, <3>3 DEF RemovedOnce
    <3> QED
      BY <2>b, <3>1, <3>2, <3>3 DEF RemovedOnce
  <2>4. OwnResources'
    BY <2>b, <2>t DEF OwnResources
  <2>5. GuardedPresent'
    BY <2>b DEF GuardedPresent
  <2>6. TellsTheApp'
    BY <2>b DEF TellsTheApp, Usable
  <2> QED
    BY <2>1, <2>2, <2>3, <2>4, <2>5, <2>6
<1>16. ASSUME NEW v \in Views \cup {Implicit}, BeginPresent(v) PROVE CleanInv'
  <2>t. \A t \in Slots : UnderTeardown(t)' <=> UnderTeardown(t)
    BY <1>16 DEF BeginPresent, UnderTeardown, TearingDown
  <2>1. DeadOrEarly'
    BY <1>16, <2>t DEF BeginPresent, DeadOrEarly
  <2>2. RequestsMatch'
    BY <1>16 DEF BeginPresent, RequestsMatch
  <2>3. RemovedOnce'
    BY <1>16 DEF BeginPresent, RemovedOnce
  <2>4. OwnResources'
    BY <1>16, <2>t DEF BeginPresent, OwnResources
  <2>5. GuardedPresent'
    BY <1>16 DEF BeginPresent, GuardedPresent
  <2>6. TellsTheApp'
    BY <1>16 DEF BeginPresent, TellsTheApp, Usable
  <2> QED
    BY <2>1, <2>2, <2>3, <2>4, <2>5, <2>6
<1>17. CASE VtLeave
  <2>t. \A t \in Slots : UnderTeardown(t)' <=> UnderTeardown(t)
    BY <1>17 DEF VtLeave, UnderTeardown, TearingDown
  <2>1. DeadOrEarly'
    BY <1>17, <2>t DEF VtLeave, DeadOrEarly
  <2>2. RequestsMatch'
    BY <1>17 DEF VtLeave, RequestsMatch
  <2>3. RemovedOnce'
    BY <1>17 DEF VtLeave, RemovedOnce
  <2>4. OwnResources'
    BY <1>17, <2>t DEF VtLeave, OwnResources
  <2>5. GuardedPresent'
    BY <1>17 DEF VtLeave, GuardedPresent
  <2>6. TellsTheApp'
    BY <1>17 DEF VtLeave, TellsTheApp, Usable
  <2> QED
    BY <2>1, <2>2, <2>3, <2>4, <2>5, <2>6
<1>18. CASE VtReturn
  <2>t. \A t \in Slots : UnderTeardown(t)' <=> UnderTeardown(t)
    BY <1>18 DEF VtReturn, UnderTeardown, TearingDown
  <2>1. DeadOrEarly'
    BY <1>18, <2>t DEF VtReturn, DeadOrEarly
  <2>2. RequestsMatch'
    BY <1>18 DEF VtReturn, RequestsMatch
  <2>3. RemovedOnce'
    BY <1>18 DEF VtReturn, RemovedOnce
  <2>4. OwnResources'
    <3>1. ASSUME NEW s \in alive \ early, chain[s] # None PROVE crtc[s] \in lit'
      <4>1. chain[s] = crtc[s]
        BY <3>1 DEF DeadOrEarly, OwnResources
      <4> QED
        BY <1>18, <3>1, <4>1 DEF VtReturn
    <3> QED
      BY <1>18, <2>t, <3>1 DEF VtReturn, OwnResources
  <2>5. GuardedPresent'
    BY <1>18 DEF VtReturn, GuardedPresent
  <2>6. TellsTheApp'
    BY <1>18 DEF VtReturn, TellsTheApp, Usable
  <2> QED
    BY <2>1, <2>2, <2>3, <2>4, <2>5, <2>6
<1>19. CASE UNCHANGED vars
  BY <1>19, CleanFrame DEF vars
<1>20. CASE RetargetPrimary
  <2>t. \A t \in Slots : UnderTeardown(t)' <=> UnderTeardown(t)
    BY <1>20 DEF RetargetPrimary, UnderTeardown, TearingDown
  <2>1. DeadOrEarly'
    BY <1>20, <2>t DEF RetargetPrimary, DeadOrEarly
  <2>2. RequestsMatch'
    BY <1>20 DEF RetargetPrimary, RequestsMatch
  <2>3. RemovedOnce'
    BY <1>20 DEF RetargetPrimary, RemovedOnce
  <2>4. OwnResources'
    BY <1>20, <2>t DEF RetargetPrimary, OwnResources
  <2>5. GuardedPresent'
    BY <1>20 DEF RetargetPrimary, GuardedPresent
  <2>6. TellsTheApp'
    BY <1>20 DEF RetargetPrimary, TellsTheApp, Usable
  <2> QED
    BY <2>1, <2>2, <2>3, <2>4, <2>5, <2>6
<1>21. CASE RouteImplicit
  <2>t. \A t \in Slots : UnderTeardown(t)' <=> UnderTeardown(t)
    BY <1>21 DEF RouteImplicit, UnderTeardown, TearingDown
  <2>a. /\ \A w \in Views : viewMap'[w] = viewMap[w]
        /\ unguarded' = (unguarded \/ presenting = viewMap[Implicit])
        /\ UNCHANGED <<kernel, vtActive, table, primary, chain, engine, pending, removed, news,
                       told, early>>
    BY <1>21 DEF RouteImplicit
  <2>1. DeadOrEarly'
    BY <1>21, <2>t DEF RouteImplicit, DeadOrEarly
  <2>2. RequestsMatch'
    <3>1. \A i \in DOMAIN leaving : viewMap'[leaving[i].view] = viewMap[leaving[i].view]
      BY <2>a, LeavingTypes
    <3> QED
      BY <2>a, <3>1 DEF RequestsMatch
  <2>3. RemovedOnce'
    <3>1. \A i \in DOMAIN leaving : viewMap'[leaving[i].view] = viewMap[leaving[i].view]
      BY <2>a, LeavingTypes
    <3> QED
      BY <2>a, <3>1 DEF RemovedOnce
  <2>4. OwnResources'
    BY <1>21, <2>t DEF RouteImplicit, OwnResources
  <2>5. GuardedPresent'
    BY <2>a DEF GuardedPresent
  <2>6. TellsTheApp'
    BY <1>21, <2>a DEF RouteImplicit, TellsTheApp, Usable
  <2> QED
    BY <2>1, <2>2, <2>3, <2>4, <2>5, <2>6
<1> QED
  BY <1>1, <1>2, <1>3, <1>4, <1>5, <1>6, <1>7, <1>8, <1>9, <1>10, <1>11, <1>12,
     <1>13, <1>14, <1>15, <1>16, <1>17, <1>18, <1>19, <1>20, <1>21
  DEF Next, HotplugStep, SwitchStep, RasterStep

-----------------------------------------------------------------------------
(* CleanInv holds of every reachable state.                                *)
LEMMA CleanInvariant == Spec => []CleanInv
<1>1. IInv /\ CleanInv /\ [Next]_vars => CleanInv'
  BY CleanStep
<1> QED
  BY InductiveInvariant, CleanInit, <1>1, PTL DEF Spec

(* Whatever monitors, the VT and the app do, no reuse of slots and CRTCs,  *)
(* no removal, VT switch or change of primary leaves a usable output dark, *)
(* or sharing its CRTC, that was not handed out early (RescanConnectors);  *)
(* and the primary's chain is never torn down unless it was handed out     *)
(* early.                                                                  *)
THEOREM UsableIsLit == Spec => []UsableOutputsScanOut
<1>1. IInv /\ CleanInv => UsableOutputsScanOut
  BY ConstantsOK
     DEF IInv, CleanInv, TypeOK, OutputsAreDistinct, DeadOrEarly, OwnResources,
         UsableOutputsScanOut, Usable
<1> QED
  BY InductiveInvariant, CleanInvariant, <1>1, PTL

(* HandleDrmHotplug's callback misses no change of the outputs the app may *)
(* use, except of those handed out early.                                  *)
THEOREM AppKnows == Spec => []AppIsTold
<1>1. CleanInv => AppIsTold
  BY DEF CleanInv, TellsTheApp, AppIsTold
<1> QED
  BY CleanInvariant, <1>1, PTL

(* CompleteOutputTeardown keeps its contract for every guarded present:    *)
(* the engine has stopped presenting on a chain before it is deleted.      *)
THEOREM ChainOutlivesPresent == Spec => []NoChainDeletedUnderPresent
<1>1. CleanInv => NoChainDeletedUnderPresent
  BY DEF CleanInv, GuardedPresent, NoChainDeletedUnderPresent
<1> QED
  BY CleanInvariant, <1>1, PTL
=============================================================================
