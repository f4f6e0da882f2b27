------------------------------- MODULE Outputs -----------------------------
(***************************************************************************)
(* The output table of FlDrmDisplay and the scanout resources, views and   *)
(* present routing FlDrmView keeps beside it, through monitor hotplug:     *)
(* the platform thread rescans connectors, starts and completes removals   *)
(* and builds pipelines; the engine releases removed views on the raster   *)
(* thread, which presents; the app gives outputs views and moves the       *)
(* primary.                                                                *)
(*                                                                         *)
(* A slot's swap chain copies the output it is built for, so chain[s] is   *)
(* the CRTC it drives, while crtc[s] is the table's entry: a later plug    *)
(* may overwrite the entry and leave the chain.  What one chain does with  *)
(* its page flips is module SwapChain.                                     *)
(***************************************************************************)
EXTENDS Naturals, Sequences, FiniteSets

CONSTANTS
  Connectors, Crtcs,
  Drives,           \* the CRTCs a connector's encoders reach; none when
                    \* the filter refuses it or no mode suits
  MaxSlots,         \* capacity of the output table (outputs_.reserve(16))
  Views,            \* explicit view ids; the implicit view 0 is Implicit
  Implicit, None,
  MaxRemovals,      \* bound: RemoveView requests in flight
  PipelineFails,    \* TRUE: creating surfaces or the black modeset may fail
  PrimarySwitches,  \* TRUE: the app calls fl_drm_view_set_primary_output
  VtSwitches        \* TRUE: the VT is left and entered again

Slots == 1..MaxSlots

ASSUME ConstantsOK ==
  /\ MaxSlots \in Nat \ {0} /\ MaxRemovals \in Nat
  /\ Drives \in [Connectors -> SUBSET Crtcs]
  /\ Implicit \notin Views
  /\ None \notin Views \cup {Implicit} \cup Connectors \cup Crtcs \cup Slots
  /\ {PipelineFails, PrimarySwitches, VtSwitches} \subseteq BOOLEAN

VARIABLES
  plugged, uevent,       \* the kernel: connected connectors; a change uevent
  lit,                   \* CRTCs that scan out
  vtActive,
  conn, crtc, alive, primary,   \* outputs_ and primary_
  chain,                 \* output_resources: the CRTC a slot's chain drives
  viewMap,               \* view_to_output
  inEngine,              \* explicit views the raster thread may still present
  leaving,               \* RemoveView requests the raster thread has not reached
  pending,               \* pending_teardowns
  plat,                  \* platform thread: "loop", "rescan", or the steps of
                         \* a primary switch, "displaced" and "retargeted"
  target,                \* the output a primary switch is on its way to
  todo, used, added, removed, news,   \* locals of HandleDrmHotplug and rescan
  told,                  \* outputs usable when the app was last called back
  presenting,            \* the slot the raster thread is presenting on
  early,                 \* history: slots handed out too early (see Early)
  unguarded              \* history: no removal would wait for this present

table  == <<conn, crtc, alive>>
engine == <<inEngine, leaving, presenting>>
switch == <<primary, target>>
scan   == <<plat, todo, used, added, removed, news, told>>
kernel == <<plugged, uevent, lit>>
history == <<early, unguarded>>
vars == <<kernel, vtActive, table, switch, chain, viewMap, engine, pending, scan,
          history>>

Known(s) == conn[s] # None              \* s < num_outputs()
Usable == {s \in alive : chain[s] # None}
SlotOf(c) == {s \in Slots : conn[s] = c}
ViewsOn(s) == {v \in Views : viewMap[v] = s}
TearingDown(s) ==
  \/ \E i \in DOMAIN leaving : leaving[i].baton /\ leaving[i].slot = s
  \/ \E r \in pending : r.slot = s
UnderTeardown(s) == s \in removed \/ TearingDown(s)
Tracked == {conn[s] : s \in alive}
Quiet == plat = "loop" /\ ~uevent /\ leaving = <<>> /\ pending = {}

(* fl_drm_view_create: a connected connector has a slot with a CRTC of its *)
(* own, unless none was free for it; the primary's chain is mode-set, a    *)
(* secondary's may be missing.                                             *)
Init ==
  /\ conn \in [Slots -> Connectors \cup {None}]
  /\ crtc \in [Slots -> Crtcs \cup {None}]
  /\ alive = {s \in Slots : Known(s)} /\ alive # {}
  /\ \A s \in Slots : s > 1 /\ Known(s) => Known(s - 1)
  /\ \A s \in Slots : IF Known(s) THEN crtc[s] \in Drives[conn[s]] ELSE crtc[s] = None
  /\ \A s, t \in alive : s # t => conn[s] # conn[t] /\ crtc[s] # crtc[t]
  /\ primary \in alive
  /\ chain \in [Slots -> Crtcs \cup {None}]
  /\ \A s \in Slots : \/ chain[s] = crtc[s]
                      \/ PipelineFails /\ s # primary /\ chain[s] = None
  /\ plugged \in SUBSET Connectors /\ Tracked \subseteq plugged /\ uevent = FALSE
  /\ \A c \in plugged \ Tracked : Drives[c] \subseteq {crtc[s] : s \in alive}
  /\ lit = {chain[s] : s \in alive} \ {None}
  /\ vtActive = TRUE
  /\ viewMap = [v \in Views \cup {Implicit} |-> IF v = Implicit THEN primary ELSE None]
  /\ inEngine = {} /\ leaving = <<>> /\ presenting = None
  /\ pending = {}
  /\ target = None /\ early = {} /\ unguarded = FALSE
  /\ plat = "loop" /\ todo = {} /\ used = {} /\ added = {} /\ removed = {}
  /\ news = FALSE /\ told = Usable

-----------------------------------------------------------------------------
(* The kernel: connectors come and go, each change raising a uevent.       *)

Plug(c) ==
  /\ c \notin plugged
  /\ plugged' = plugged \cup {c} /\ uevent' = TRUE
  /\ UNCHANGED <<lit, vtActive, table, switch, chain, viewMap, engine, pending, scan,
                 history>>

Unplug(c) ==
  /\ c \in plugged
  /\ plugged' = plugged \ {c} /\ uevent' = TRUE
  /\ UNCHANGED <<lit, vtActive, table, switch, chain, viewMap, engine, pending, scan,
                 history>>

-----------------------------------------------------------------------------
(* The platform thread: RescanConnectors, then HandleDrmHotplug.           *)

(* Mutant: the CRTCs of live outputs are not marked as used.               *)
ReadUeventUnmasked ==
  /\ plat = "loop" /\ uevent
  /\ uevent' = FALSE
  /\ IF vtActive
     THEN /\ plat' = "rescan" /\ todo' = Connectors
          /\ used' = {}
          /\ added' = {} /\ removed' = {} /\ news' = FALSE
     ELSE UNCHANGED <<plat, todo, used, added, removed, news>>
  /\ UNCHANGED <<plugged, lit, vtActive, table, switch, chain, viewMap,
                 engine, pending, told, history>>

(* All queued uevents are drained; away from our VT they are only drained. *)
ReadUevent ==
  /\ plat = "loop" /\ uevent
  /\ uevent' = FALSE
  /\ IF vtActive
     THEN /\ plat' = "rescan" /\ todo' = Connectors
          /\ used' = {crtc[s] : s \in alive}
          /\ added' = {} /\ removed' = {} /\ news' = FALSE
     ELSE UNCHANGED <<plat, todo, used, added, removed, news>>
  /\ UNCHANGED <<plugged, lit, vtActive, table, switch, chain, viewMap,
                 engine, pending, told, history>>

Visit(c) ==
  /\ plat = "rescan" /\ c \in todo
  /\ todo' = todo \ {c}

(* A tracked connector is gone; the primary is kept, alive.                *)
RescanGone(c) ==
  /\ Visit(c) /\ c \notin plugged
  /\ \E s \in SlotOf(c) \cap alive :
       IF s = primary
       THEN UNCHANGED <<alive, removed>>
       ELSE alive' = alive \ {s} /\ removed' = removed \cup {s}
  /\ UNCHANGED <<kernel, vtActive, conn, crtc, switch, chain, viewMap, engine,
                 pending, plat, used, added, news, told, history>>

(* Still connected, still absent, or no CRTC it can drive is free: those   *)
(* of outputs found gone in this rescan still count as used.               *)
RescanSkip(c) ==
  /\ Visit(c)
  /\ \/ c \in plugged <=> SlotOf(c) \cap alive # {}
     \/ c \in plugged /\ Drives[c] \subseteq used
  /\ UNCHANGED <<kernel, vtActive, table, switch, chain, viewMap, engine,
                 pending, plat, used, added, removed, news, told, history>>

(* The table is full: the CRTC already claimed stays marked in used.       *)
RescanFull(c) ==
  /\ Visit(c) /\ c \in plugged
  /\ SlotOf(c) = {} /\ alive = Slots
  /\ \E k \in Drives[c] \ used : used' = used \cup {k}
  /\ UNCHANGED <<kernel, vtActive, table, switch, chain, viewMap, engine,
                 pending, plat, added, removed, news, told, history>>

(* The slot a new connector gets: its own, else the first dead one, else   *)
(* the next of the table.                                                  *)
SlotFor(c) ==
  LET dead == {s \in Slots : Known(s) /\ s \notin alive}
      fresh == {s \in Slots : ~Known(s)}
      First(S) == {s \in S : \A t \in S : s <= t}
  IN  IF SlotOf(c) # {} THEN SlotOf(c)
      ELSE IF dead # {} THEN First(dead) ELSE First(fresh)

(* An output is handed out early when the teardown of its slot's former    *)
(* output, or of one that drove its CRTC, is not complete.                 *)
Early(s, k) ==
  \E t \in Slots : UnderTeardown(t) /\ (t = s \/ k \in {crtc[t], chain[t]})

(* The connector c gets the slot s and the CRTC k.                         *)
HandOut(c, s, k) ==
  /\ conn' = [conn EXCEPT ![s] = c]
  /\ crtc' = [crtc EXCEPT ![s] = k]
  /\ alive' = alive \cup {s}
  /\ used' = used \cup {k}
  /\ added' = added \cup {s}
  /\ early' = IF Early(s, k) THEN early \cup {s} ELSE early \ {s}
  /\ unguarded' = (unguarded \/ (presenting = s /\ Early(s, k)))

(* A connector newly connected, or returning: a CRTC it can drive and no   *)
(* live output uses (which of them is the kernel's and encoders' choice).  *)
RescanNew(c) ==
  /\ Visit(c) /\ c \in plugged /\ SlotOf(c) \cap alive = {}
  /\ \E s \in SlotFor(c), k \in Drives[c] \ used : HandOut(c, s, k)
  /\ UNCHANGED <<kernel, vtActive, switch, chain, viewMap, engine, pending,
                 plat, removed, news, told>>

(* CompleteOutputTeardown, for the removals R: the views' map entries go,  *)
(* the CRTCs the table names are switched off, and the chains are deleted  *)
(* with their surfaces.                                                    *)
Teardown(R) ==
  LET slots == {r.slot : r \in R}
      views == {r.view : r \in R}
  IN  /\ viewMap' = [v \in DOMAIN viewMap |-> IF v \in views THEN None ELSE viewMap[v]]
      /\ chain' = [s \in Slots |-> IF s \in slots THEN None ELSE chain[s]]
      /\ lit' = lit \ {crtc[s] : s \in {t \in slots : chain[t] # None}}

RescanDone == plat = "rescan" /\ todo = {}

(* Mutant: the resources are torn down without waiting for the engine.     *)
RemoveAtOnce(s) ==
  /\ RescanDone /\ s \in removed
  /\ removed' = removed \ {s} /\ news' = TRUE
  /\ IF ViewsOn(s) = {}
     THEN Teardown({[slot |-> s, view |-> None]})
     ELSE Teardown({[slot |-> s, view |-> v] : v \in ViewsOn(s)})
  /\ UNCHANGED <<plugged, uevent, vtActive, table, switch, engine, pending,
                 plat, todo, used, added, told, history>>

(* Mutant: RemoveView is asked for even when the output has no view.       *)
BeginOutputRemovalNoView(s) ==
  /\ RescanDone /\ s \in removed
  /\ removed' = removed \ {s} /\ news' = TRUE
  /\ Len(leaving) < MaxRemovals
  /\ \E v \in IF ViewsOn(s) = {} THEN {None} ELSE ViewsOn(s) :
       leaving' = Append(leaving, [slot |-> s, view |-> v, baton |-> TRUE])
  /\ UNCHANGED <<viewMap, chain, lit>>
  /\ UNCHANGED <<plugged, uevent, vtActive, table, switch, inEngine,
                 presenting, pending, plat, todo, used, added, told, history>>

(* BeginOutputRemoval: with a view, the teardown waits for RemoveView.     *)
BeginOutputRemoval(s) ==
  /\ RescanDone /\ s \in removed
  /\ removed' = removed \ {s} /\ news' = TRUE
  /\ IF ViewsOn(s) = {}
     THEN Teardown({[slot |-> s, view |-> None]}) /\ UNCHANGED leaving
     ELSE /\ Len(leaving) < MaxRemovals
          /\ \E v \in ViewsOn(s) :
               leaving' = Append(leaving, [slot |-> s, view |-> v, baton |-> TRUE])
          /\ UNCHANGED <<viewMap, chain, lit>>
  /\ UNCHANGED <<plugged, uevent, vtActive, table, switch, inEngine,
                 presenting, pending, plat, todo, used, added, told, history>>

(* A new output gets surfaces, a chain and a black modeset, unless its     *)
(* slot is still busy or one of them fails.  A modeset away from our VT is *)
(* deferred to the re-acquire.                                             *)
BuildPipeline(s) ==
  /\ RescanDone /\ removed = {} /\ s \in added
  /\ added' = added \ {s}
  /\ \/ chain[s] # None /\ UNCHANGED <<chain, lit, news>>
     \/ chain[s] = None /\ PipelineFails /\ UNCHANGED <<chain, lit, news>>
     \/ /\ chain[s] = None
        /\ chain' = [chain EXCEPT ![s] = crtc[s]]
        /\ lit' = IF vtActive THEN lit \cup {crtc[s]} ELSE lit
        /\ news' = TRUE
  /\ UNCHANGED <<plugged, uevent, vtActive, table, switch, viewMap, engine,
                 pending, plat, todo, used, removed, told, history>>

(* Mutant: an output that became ready is announced only with a removal.   *)
EndRescanQuietly ==
  /\ RescanDone /\ removed = {} /\ added = {}
  /\ plat' = "loop"
  /\ UNCHANGED <<kernel, vtActive, table, switch, chain, viewMap, engine,
                 pending, todo, used, added, removed, news, told, history>>

(* The app is called back when something was removed or became ready.      *)
EndRescan ==
  /\ RescanDone /\ removed = {} /\ added = {}
  /\ plat' = "loop"
  /\ told' = IF news THEN Usable ELSE told
  /\ UNCHANGED <<kernel, vtActive, table, switch, chain, viewMap, engine,
                 pending, todo, used, added, removed, news, history>>

(* A pass of the loop takes the whole list and completes its teardowns.    *)
CompletePending ==
  /\ plat = "loop" /\ pending # {}
  /\ Teardown(pending)
  /\ pending' = {}
  /\ UNCHANGED <<plugged, uevent, vtActive, table, switch, engine, scan,
                 history>>

-----------------------------------------------------------------------------
(* The app, on the platform thread.                                        *)

AddOutputView(s, v) ==
  /\ plat = "loop"
  /\ Known(s) /\ s # primary /\ chain[s] # None
  /\ viewMap[v] = None /\ ViewsOn(s) = {}
  (* The app's ids are unique (fl_drm_view.h:418): one comes back here only *)
  (* when nothing is left of the view that had it.                          *)
  /\ v \notin inEngine
  /\ \A i \in DOMAIN leaving : leaving[i].view # v
  /\ \A r \in pending : r.view # v
  /\ viewMap' = [viewMap EXCEPT ![v] = s]
  /\ inEngine' = inEngine \cup {v}
  /\ UNCHANGED <<kernel, vtActive, table, switch, chain, leaving, presenting,
                 pending, scan, history>>

MaySetPrimary(s) ==
  /\ PrimarySwitches /\ plat = "loop"
  /\ Known(s) /\ s # primary /\ s \in alive /\ chain[s] # None
  /\ \A r \in pending : r.slot # s

(* Mutant: the displaced view stays routed to the output it leaves.        *)
SetPrimaryKeepsView(s) ==
  /\ MaySetPrimary(s)
  /\ plat' = "displaced" /\ target' = s
  /\ unguarded' = (unguarded \/ presenting = s)
  /\ UNCHANGED <<kernel, vtActive, table, primary, chain, viewMap, engine, pending,
                 todo, used, added, removed, news, told, early>>

(* fl_drm_view_set_primary_output takes three steps the raster thread can  *)
(* see between.  First the displaced view leaves the map, under its lock;  *)
(* its RemoveView only logs.                                               *)
SetPrimaryOutput(s) ==
  /\ MaySetPrimary(s)
  /\ plat' = "displaced" /\ target' = s
  /\ viewMap' = [v \in Views \cup {Implicit} |->
       IF v # Implicit /\ viewMap[v] = s THEN None ELSE viewMap[v]]
  /\ \/ ViewsOn(s) = {} /\ UNCHANGED leaving
     \/ /\ Len(leaving) < MaxRemovals
        /\ \E v \in ViewsOn(s) :
             leaving' = Append(leaving, [slot |-> s, view |-> v, baton |-> FALSE])
  /\ unguarded' = (unguarded \/ presenting = s)
  /\ UNCHANGED <<kernel, vtActive, table, primary, chain, inEngine, presenting, pending,
                 todo, used, added, removed, news, told, early>>

(* Then, without a lock, the primary moves.                                *)
RetargetPrimary ==
  /\ plat = "displaced"
  /\ plat' = "retargeted" /\ primary' = target
  /\ UNCHANGED <<kernel, vtActive, table, target, chain, viewMap, engine, pending,
                 todo, used, added, removed, news, told, history>>

(* Last, under the lock again, the implicit view is routed to it.          *)
RouteImplicit ==
  /\ plat = "retargeted"
  /\ plat' = "loop" /\ target' = None
  /\ viewMap' = [viewMap EXCEPT ![Implicit] = target]
  /\ unguarded' = (unguarded \/ presenting = viewMap[Implicit])
  /\ UNCHANGED <<kernel, vtActive, table, primary, chain, engine, pending,
                 todo, used, added, removed, news, told, early>>

-----------------------------------------------------------------------------
(* The raster thread.                                                      *)

(* CompositorPresentView finds the view's output and its chain.            *)
BeginPresent(v) ==
  /\ presenting = None /\ v \in inEngine \cup {Implicit}
  /\ viewMap[v] # None /\ chain[viewMap[v]] # None
  /\ presenting' = viewMap[v]
  /\ unguarded' = (viewMap[v] \in early)
  /\ UNCHANGED <<kernel, vtActive, table, switch, chain, viewMap, inEngine,
                 leaving, pending, scan, early>>

EndPresent ==
  /\ presenting # None
  /\ presenting' = None /\ unguarded' = FALSE
  /\ UNCHANGED <<kernel, vtActive, table, switch, chain, viewMap, inEngine,
                 leaving, pending, scan, early>>

(* Mutant: the callback of RemoveView only logs.                           *)
ViewRemovedForgotten ==
  /\ presenting = None /\ leaving # <<>>
  /\ inEngine' = inEngine \ {Head(leaving).view}
  /\ leaving' = Tail(leaving)
  /\ UNCHANGED <<kernel, vtActive, table, switch, chain, viewMap, presenting,
                 pending, scan, history>>

(* The raster task of RemoveView: the view is collected, and the callback  *)
(* queues the teardown for the platform loop.                              *)
ViewRemoved ==
  /\ presenting = None /\ leaving # <<>>
  /\ LET r == Head(leaving) IN
       /\ inEngine' = inEngine \ {r.view}
       /\ pending' = IF r.baton
                     THEN pending \cup {[slot |-> r.slot, view |-> r.view]}
                     ELSE pending
  /\ leaving' = Tail(leaving)
  /\ UNCHANGED <<kernel, vtActive, table, switch, chain, viewMap, presenting,
                 scan, history>>

-----------------------------------------------------------------------------
(* Another master scans out while the VT is not ours.                      *)
VtLeave ==
  /\ VtSwitches /\ vtActive
  /\ vtActive' = FALSE /\ lit' = {}
  /\ UNCHANGED <<plugged, uevent, table, switch, chain, viewMap, engine,
                 pending, scan, history>>

(* Mutant: only the primary's modeset is restored.                         *)
VtReturnPrimaryOnly ==
  /\ ~vtActive /\ plat = "loop"
  /\ vtActive' = TRUE
  /\ lit' = lit \cup {chain[primary]}
  /\ UNCHANGED <<plugged, uevent, table, switch, chain, viewMap, engine,
                 pending, scan, history>>

(* Every chain restores its modeset (pending_acquire).                     *)
VtReturn ==
  /\ ~vtActive /\ plat = "loop"
  /\ vtActive' = TRUE
  /\ lit' = lit \cup ({chain[s] : s \in Slots} \ {None})
  /\ UNCHANGED <<plugged, uevent, table, switch, chain, viewMap, engine,
                 pending, scan, history>>

HotplugStep ==
  \/ ReadUevent
  \/ \E c \in Connectors : RescanGone(c) \/ RescanSkip(c) \/ RescanFull(c) \/ RescanNew(c)
  \/ \E s \in Slots : BeginOutputRemoval(s) \/ BuildPipeline(s)
  \/ EndRescan
  \/ CompletePending

SwitchStep == RetargetPrimary \/ RouteImplicit

RasterStep == EndPresent \/ ViewRemoved

Next ==
  \/ \E c \in Connectors : Plug(c) \/ Unplug(c)
  \/ HotplugStep
  \/ \E s \in Slots : SetPrimaryOutput(s) \/ \E v \in Views : AddOutputView(s, v)
  \/ SwitchStep
  \/ RasterStep \/ \E v \in Views \cup {Implicit} : BeginPresent(v)
  \/ VtLeave \/ VtReturn

Spec == Init /\ [][Next]_vars

(* Both threads are scheduled.  The app's calls return to the loop, whose  *)
(* next pass looks at the uevents and teardowns whatever they did; every   *)
(* Present() returns (SwapChain's PresentReturns), and the raster thread   *)
(* gets to its tasks between two presents however often it presents: hence *)
(* the strong fairness of both.                                            *)
FairSpec ==
  /\ Spec
  /\ SF_vars(HotplugStep) /\ SF_vars(CompletePending) /\ WF_vars(SwitchStep)
  /\ WF_vars(EndPresent) /\ SF_vars(ViewRemoved)

-----------------------------------------------------------------------------
(* Properties.                                                             *)

Removal == [slot : Slots, view : Views, baton : BOOLEAN]

TypeOK ==
  /\ plugged \subseteq Connectors /\ uevent \in BOOLEAN /\ lit \subseteq Crtcs
  /\ vtActive \in BOOLEAN
  /\ conn \in [Slots -> Connectors \cup {None}]
  /\ crtc \in [Slots -> Crtcs \cup {None}]
  /\ alive \subseteq Slots /\ primary \in Slots
  /\ chain \in [Slots -> Crtcs \cup {None}]
  /\ viewMap \in [Views \cup {Implicit} -> Slots \cup {None}]
  /\ inEngine \subseteq Views
  /\ leaving \in Seq(Removal) /\ Len(leaving) <= MaxRemovals
  /\ pending \subseteq [slot : Slots, view : Views]
  /\ plat \in {"loop", "rescan", "displaced", "retargeted"}
  /\ target \in Slots \cup {None}
  /\ todo \subseteq Connectors /\ used \subseteq Crtcs
  /\ added \subseteq Slots /\ removed \subseteq Slots
  /\ news \in BOOLEAN /\ told \subseteq Slots
  /\ presenting \in Slots \cup {None}
  /\ early \subseteq Slots /\ unguarded \in BOOLEAN

(* Live outputs have connectors and CRTCs of their own, whatever plugs     *)
(* and replugs reused dead slots (FlDrmDisplay: "assigns each a            *)
(* conflict-free CRTC"), and the primary is one of them: an unplugged one   *)
(* too stays alive (fl_drm_display.cc:313, where fl_drm_display.h:81 has   *)
(* it "marked !alive").                                                    *)
OutputsAreDistinct ==
  /\ primary \in alive
  /\ \A s \in alive : conn[s] # None /\ crtc[s] # None
  /\ \A s, t \in alive : conn[s] = conn[t] \/ crtc[s] = crtc[t] => s = t

(* The scanout resources of a disconnected output are given back: while it *)
(* has a chain its removal is still under way in the rescan, in the engine *)
(* or in pending_teardowns.                                                *)
DeadOutputIsTornDown == \A s \in Slots \ alive : chain[s] # None => UnderTeardown(s)

(* No two views are routed to one output at any moment the raster thread   *)
(* may look at the map.  The implicit view goes to the primary, except     *)
(* between the last two steps of a switch, when no view goes to the new    *)
(* primary.                                                                *)
OneViewPerOutput ==
  /\ \A s \in Slots, v, w \in Views \cup {Implicit} :
       viewMap[v] = s /\ viewMap[w] = s => v = w
  /\ IF plat = "retargeted"
     THEN \A v \in Views \cup {Implicit} : viewMap[v] # primary
     ELSE viewMap[Implicit] = primary

(* An output that was not handed out early has its resources to itself:    *)
(* while it is usable its chain scans out on the CRTC the table names, that *)
(* CRTC is lit whenever the VT is ours, and no other chain drives it.  The *)
(* primary is always usable.                                               *)
UsableOutputsScanOut ==
  /\ primary \notin early => primary \in Usable
  /\ \A s \in Usable \ early :
       /\ chain[s] = crtc[s]
       /\ vtActive => crtc[s] \in lit
       /\ \A t \in Slots : chain[t] = chain[s] => t = s

(* The raster thread never presents on a chain that has been deleted: the  *)
(* teardown waits for the RemoveView of the view that is presented, unless *)
(* a primary switch took the view off the output during the present, or    *)
(* the output was handed out early.                                        *)
NoChainDeletedUnderPresent ==
  presenting # None /\ ~unguarded => chain[presenting] # None

(* Outside a rescan the app has been called back since the last change of  *)
(* what it can use (an output handed out early changes unannounced).       *)
AppIsTold == plat # "rescan" => told \ early = Usable \ early

(* OnChainFlip's demultiplexer: the first table entry with the CRTC.       *)
FlipIndex(k) ==
  LET match == {s \in Slots : Known(s) /\ crtc[s] = k} IN
  IF match = {} THEN primary
  ELSE CHOOSE s \in match : \A t \in match : s <= t

(* With no hotplug under way, a flip of an output's chain is reported with *)
(* that output's index, and takes that chain's dropped flag (OnChainFlip:  *)
(* "fire the public present callback with that output's index").           *)
FlipNamesItsOutput == Quiet => \A s \in Usable \ early : FlipIndex(chain[s]) = s

(* HandleDrmHotplug about a slot it skips because its teardown is pending: *)
(* "the next uevent will pick it up".                                      *)
NextUeventPicksUp ==
  RescanDone /\ removed = {} /\ added = {} /\ leaving = <<>> /\ pending = {} =>
    \A s \in alive : chain[s] # None

(* A change the kernel reports while the VT is ours is acted upon, unless  *)
(* the VT is left first: a connected monitor gets an output and a chain,   *)
(* unless the table is full or the rescan counts every CRTC it can drive   *)
(* as used (those of outputs it finds gone included) or hands it out early; *)
(* and a disconnected one, unless it is the primary, loses its chain and   *)
(* view.                                                                   *)
PlugsAreNoticed ==
  \A c \in Connectors :
    /\ c \in plugged /\ uevent /\ vtActive ~>
         \/ c \notin plugged \/ Drives[c] \subseteq used
         \/ ~vtActive
         \/ alive = Slots /\ c \notin Tracked
         \/ \E s \in alive : conn[s] = c /\ (chain[s] # None \/ PipelineFails \/ s \in early)
    /\ c \notin plugged /\ uevent /\ vtActive ~>
         \/ c \in plugged \/ ~vtActive
         \/ \A s \in SlotOf(c) : s = primary \/ (chain[s] = None /\ ViewsOn(s) = {})
=============================================================================
