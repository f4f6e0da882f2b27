------------------------------ MODULE Recording -----------------------------
(***************************************************************************)
(* Screen recording: one session at a time, begun and ended by requests    *)
(* that the presenting thread takes up at its next present of the primary  *)
(* output (RunCaptureHooks).  Frames go through a ring of PBOs and a       *)
(* bounded queue to a writer thread (sinks "file" and "callback"), or in a *)
(* ring of dmabuf slots straight to an encoder, which gives them back in   *)
(* its own time (sink "dmabuf").  The platform thread may move the primary *)
(* to another output, not while a session is on.                           *)
(*                                                                         *)
(* A frame is its number in the session; its size is that of the output    *)
(* (crops, downscaling and the cursor are left out), its callbacks are     *)
(* registered.                                                             *)
(***************************************************************************)
EXTENDS Naturals, Sequences, FiniteSets

CONSTANTS
  Outputs,
  PboRing,       \* kRecRing
  QueueBound,    \* frames the writer may be behind
  Slots,         \* 0..kDmabufRing-1 is 0..Slots-1
  MaxFrames,     \* bound: frames captured in a session
  Mixes,         \* which kinds of stimuli may occur together in one behaviour
  None

Stimuli == {"toggle", "api", "dmabuf", "primary"}

ASSUME ConstantsOK ==
  /\ {PboRing, QueueBound, Slots, MaxFrames} \subseteq Nat \ {0}
  /\ Outputs # {}                       \* fl_drm_display.cc:235
  /\ None \notin Outputs \cup Nat \cup {"file", "callback", "dmabuf"}
  /\ Mixes \subseteq SUBSET Stimuli

Frames == 1..MaxFrames

VARIABLES
  toggle, startReq, stopReq,    \* g_record_toggle, g_api_record_start, _stop
  armed,                        \* g_api_record_dmabuf
  recording,                    \* g_api_recording
  sink, size,                   \* rec: its sink, None without a session; its size
  captured, dropped,            \* frames taken in the session; rec->dropped
  unmapped,                     \* history: frames whose PBO could not be mapped
  pbo, slot,                    \* frames pending in the PBO ring; rec_slot
  queue, done,                  \* rec->q, rec->done
  writer, writing,              \* the writer thread; the frame it handles
  delivered, last,              \* how many frames the sink has got; the newest
  ring, busy, cursor,           \* size of the dmabuf ring; g_dmabuf_busy; zc_cursor
  held, target,                 \* <<slot, size of its ring>> the encoder has; drawn into
  pres, frameOf, then, left,    \* the presenting thread; its output; stop_rec's locals
  primary, plat, wanted,        \* primary_index; set_primary_output and its index
  mix,                          \* the stimuli of this behaviour
  slipped                       \* history: the session began as the primary moved

requests == <<toggle, startReq, stopReq, armed>>
session  == <<sink, size, captured, dropped, unmapped>>
pipeline == <<pbo, slot, queue, done, writer, writing, delivered, last>>
dmabuf   == <<ring, busy, cursor, held, target>>
present  == <<pres, frameOf, then, left>>
switch   == <<mix, primary, plat, wanted>>
vars == <<requests, recording, session, pipeline, dmabuf, present, switch, slipped>>

NoPbos == [i \in 0..PboRing-1 |-> None]

Init ==
  /\ toggle = FALSE /\ startReq = FALSE /\ stopReq = FALSE /\ armed = FALSE
  /\ recording = FALSE
  /\ sink = None /\ size = None /\ captured = 0 /\ dropped = 0 /\ unmapped = 0
  /\ pbo = NoPbos /\ slot = 0 /\ queue = <<>> /\ done = FALSE
  /\ writer = "none" /\ writing = None /\ delivered = 0 /\ last = 0
  /\ ring = None /\ busy = {} /\ cursor = 0 /\ held = {} /\ target = None
  /\ pres = "idle" /\ frameOf = None /\ then = "stop" /\ left = 0
  /\ primary = (CHOOSE o \in Outputs : TRUE) /\ plat = "idle" /\ wanted = None
  /\ mix \in Mixes
  /\ slipped = FALSE

-----------------------------------------------------------------------------
(* Requests, from any thread or signal handler.                            *)

Toggle ==
  /\ "toggle" \in mix
  /\ toggle' = TRUE
  /\ UNCHANGED <<startReq, stopReq, armed, recording, session, pipeline, dmabuf,
                 present, switch, slipped>>

RequestStart ==
  /\ "api" \in mix
  /\ startReq' = TRUE
  /\ UNCHANGED <<toggle, stopReq, armed, recording, session, pipeline, dmabuf,
                 present, switch, slipped>>

RequestStop ==
  /\ "api" \in mix
  /\ stopReq' = TRUE
  /\ UNCHANGED <<toggle, startReq, armed, recording, session, pipeline, dmabuf,
                 present, switch, slipped>>

(* Seen when a session begins: later changes are as good as after it.      *)
SetDmabuf(on) ==
  /\ "dmabuf" \in mix /\ (sink = None \/ pres = "sink")
  /\ armed' = on
  /\ UNCHANGED <<toggle, startReq, stopReq, recording, session, pipeline, dmabuf,
                 present, switch, slipped>>

(* The encoder gives a slot back, in this session or a later one.          *)
ReleaseSlot(s) ==
  /\ s \in held
  /\ held' = held \ {s} /\ busy' = busy \ {s[1]}
  /\ UNCHANGED <<requests, recording, session, pipeline, ring, cursor, target, present,
                 switch, slipped>>

(* fl_drm_view_set_primary_output: refused while a session is on or about  *)
(* to be ...                                                               *)
CheckSwitch(o) ==
  /\ "primary" \in mix /\ plat = "idle" /\ o # primary
  /\ ~recording /\ ~startReq
  /\ plat' = "switch" /\ wanted' = o
  /\ slipped' = (slipped \/ pres \in {"sink", "raise", "raiseFile"})
  /\ UNCHANGED <<requests, recording, session, pipeline, dmabuf, present, mix, primary>>

(* ... and done some steps later.                                          *)
SetPrimary ==
  /\ plat = "switch"
  /\ primary' = wanted /\ plat' = "idle" /\ wanted' = None
  /\ UNCHANGED <<requests, recording, session, pipeline, dmabuf, present, mix, slipped>>

-----------------------------------------------------------------------------
(* The presenting thread: RunCaptureHooks on a frame of the primary.       *)

BeginPresent ==
  /\ pres = "idle"
  /\ pres' = "toggle" /\ frameOf' = primary
  /\ UNCHANGED <<requests, recording, session, pipeline, dmabuf, then, left, switch,
                 slipped>>

(* A new RecWriter; for a file or callback sink its thread.                *)
NewSession(to) ==
  /\ sink' = to /\ size' = frameOf
  /\ slipped' = (plat = "switch" \/ frameOf # primary)

(* The signal's toggle: begins a file session, ends one, and is ignored    *)
(* during a session of the API.                                            *)
TakeToggle ==
  /\ pres = "toggle"
  /\ toggle' = FALSE
  /\ \/ /\ toggle /\ sink = None
        /\ NewSession("file") /\ writer' = "waiting"
        /\ pres' = "raiseFile"
        /\ UNCHANGED <<then, left, captured, dropped, unmapped, pbo, slot, queue, done,
                       writing, delivered, last>>
     \/ /\ toggle /\ sink = "file"
        /\ pres' = "drain" /\ then' = "stop" /\ left' = PboRing
        /\ UNCHANGED <<session, pipeline, slipped>>
     \/ /\ (toggle => sink # "file")        \* the file may not open
        /\ pres' = "stop"
        /\ UNCHANGED <<session, pipeline, slipped, then, left>>
  /\ UNCHANGED <<startReq, stopReq, armed, recording, dmabuf, frameOf, switch>>

(* Mutant: only a session that has a writer is stopped.                    *)
TakeStopOfWriter ==
  /\ pres = "stop"
  /\ stopReq' = FALSE
  /\ IF stopReq /\ sink = "callback"
     THEN pres' = "drain" /\ then' = "start" /\ left' = PboRing
     ELSE pres' = "start" /\ UNCHANGED <<then, left>>
  /\ UNCHANGED <<toggle, startReq, armed, recording, session, pipeline, dmabuf,
                 frameOf, switch, slipped>>

(* The API's stop is taken before its start.                               *)
TakeStop ==
  /\ pres = "stop"
  /\ stopReq' = FALSE
  /\ IF stopReq /\ sink \in {"callback", "dmabuf"}
     THEN pres' = "drain" /\ then' = "start" /\ left' = PboRing
     ELSE pres' = "start" /\ UNCHANGED <<then, left>>
  /\ UNCHANGED <<toggle, startReq, armed, recording, session, pipeline, dmabuf,
                 frameOf, switch, slipped>>

(* A start is ignored while a session is on.                               *)
TakeStart ==
  /\ pres = "start"
  /\ startReq' = FALSE
  /\ IF startReq /\ sink = None
     THEN NewSession("callback") /\ pres' = "sink"
     ELSE /\ pres' = "capture"
          /\ UNCHANGED <<sink, size, slipped>>
  /\ frameOf' = None
  /\ UNCHANGED <<toggle, stopReq, armed, recording, captured, dropped, unmapped,
                 pipeline, dmabuf, then, left, switch>>

(* Mutant: a ring of another size is rebuilt whoever holds it.             *)
EnsureDmabufRingAnyhow(built) == ring' = IF built THEN size ELSE None

(* The ring is kept if it fits; one of another size is not touched while   *)
(* the encoder holds any of it; building may fail.                         *)
EnsureDmabufRing(built) ==
  \/ built /\ (ring = size \/ busy = {}) /\ ring' = size
  \/ ~built /\ ring # size /\ ring' = IF busy = {} THEN None ELSE ring

(* The slots of the ring if the shell armed them, else a writer.           *)
ChooseSink ==
  /\ pres = "sink" /\ pres' = "raise"
  /\ \/ armed /\ EnsureDmabufRing(TRUE) /\ sink' = "dmabuf" /\ UNCHANGED writer
     \/ armed /\ EnsureDmabufRing(FALSE) /\ writer' = "waiting" /\ UNCHANGED sink
     \/ ~armed /\ writer' = "waiting" /\ UNCHANGED <<sink, ring>>
  /\ UNCHANGED <<requests, recording, size, captured, dropped, unmapped, pbo, slot,
                 queue, done, writing, delivered, last, busy, cursor, held, target,
                 frameOf, then, left, switch, slipped>>

(* Mutant: only a session of the API raises the flag.                      *)
RaiseFlagApiOnly ==
  /\ pres \in {"raiseFile", "raise"}
  /\ recording' = (pres = "raise")
  /\ pres' = IF pres = "raise" THEN "capture" ELSE "stop"
  /\ UNCHANGED <<requests, session, pipeline, dmabuf, frameOf, then, left, switch,
                 slipped>>

(* g_api_recording: "the raster-thread truth".                             *)
RaiseFlag ==
  /\ pres \in {"raiseFile", "raise"}
  /\ recording' = TRUE
  /\ pres' = IF pres = "raise" THEN "capture" ELSE "stop"
  /\ UNCHANGED <<requests, session, pipeline, dmabuf, frameOf, then, left, switch,
                 slipped>>

(* Mutant: the queue takes one frame too many.                             *)
DrainSlotOneMore(s) ==
  /\ pbo' = [pbo EXCEPT ![s] = None]
  /\ \/ pbo[s] = None /\ UNCHANGED <<queue, dropped, unmapped>>
     \/ /\ pbo[s] # None /\ Len(queue) <= QueueBound
        /\ queue' = Append(queue, pbo[s]) /\ UNCHANGED <<dropped, unmapped>>
     \/ /\ pbo[s] # None /\ Len(queue) > QueueBound
        /\ dropped' = dropped + 1 /\ UNCHANGED <<queue, unmapped>>
     \/ /\ pbo[s] # None
        /\ unmapped' = unmapped + 1 /\ UNCHANGED <<queue, dropped>>

(* drain_slot: under the writer's mutex the frame of the slot is queued, or*)
(* dropped when the writer is behind; or the PBO cannot be mapped, and the *)
(* frame is lost without being counted.                                    *)
DrainSlot(s) ==
  /\ pbo' = [pbo EXCEPT ![s] = None]
  /\ \/ pbo[s] = None /\ UNCHANGED <<queue, dropped, unmapped>>
     \/ /\ pbo[s] # None /\ Len(queue) < QueueBound
        /\ queue' = Append(queue, pbo[s]) /\ UNCHANGED <<dropped, unmapped>>
     \/ /\ pbo[s] # None /\ Len(queue) >= QueueBound
        /\ dropped' = dropped + 1 /\ UNCHANGED <<queue, unmapped>>
     \/ /\ pbo[s] # None
        /\ unmapped' = unmapped + 1 /\ UNCHANGED <<queue, dropped>>

(* Mutant: the slots are drained in the order of their indexes.            *)
StopDrainsByIndex ==
  /\ pres = "drain" /\ left > 0
  /\ DrainSlot(PboRing - left) /\ left' = left - 1
  /\ UNCHANGED <<requests, recording, sink, size, captured, slot, done, writer, writing,
                 delivered, last, dmabuf, pres, frameOf, then, switch, slipped>>

(* stop_rec: every slot is drained, the oldest first, ...                  *)
StopDrains ==
  /\ pres = "drain" /\ left > 0
  /\ DrainSlot(slot) /\ slot' = (slot + 1) % PboRing /\ left' = left - 1
  /\ UNCHANGED <<requests, recording, sink, size, captured, done, writer, writing,
                 delivered, last, dmabuf, pres, frameOf, then, switch, slipped>>

(* ... the writer, if there is one, told to finish ...                     *)
StopDone ==
  /\ pres = "drain" /\ left = 0
  /\ done' = (writer # "none") /\ pres' = "join"
  /\ UNCHANGED <<requests, recording, session, pbo, slot, queue, writer, writing,
                 delivered, last, dmabuf, frameOf, then, left, switch, slipped>>

(* ... and joined; the session is over.                                    *)
StopJoins ==
  /\ pres = "join" /\ writer \in {"none", "exited"}
  /\ writer' = "none" /\ sink' = None /\ size' = None
  /\ pbo' = NoPbos /\ queue' = <<>> /\ done' = FALSE
  /\ captured' = 0 /\ dropped' = 0 /\ unmapped' = 0 /\ delivered' = 0 /\ last' = 0
  /\ recording' = FALSE /\ pres' = then /\ then' = "stop" /\ slipped' = FALSE
  /\ UNCHANGED <<requests, slot, writing, dmabuf, frameOf, left, switch>>

(* No session, or nothing is taken of this present: unchanged content, the *)
(* rate cap, a texture that does not resolve.                              *)
EndPresent ==
  /\ pres \in {"capture", "blit", "draw"}
  /\ pres' = "idle" /\ target' = None
  /\ UNCHANGED <<requests, recording, session, pipeline, ring, busy, cursor, held,
                 frameOf, then, left, switch, slipped>>

(* The PBO to be used next holds the frame of PboRing captures ago.        *)
CollectOldest ==
  /\ pres = "capture" /\ sink \in {"file", "callback"} /\ captured < MaxFrames
  /\ DrainSlot(slot)
  /\ pres' = "blit"
  /\ UNCHANGED <<requests, recording, sink, size, captured, slot, done, writer, writing,
                 delivered, last, dmabuf, frameOf, then, left, switch, slipped>>

ReadIntoPbo ==
  /\ pres = "blit"
  /\ captured' = captured + 1
  /\ pbo' = [pbo EXCEPT ![slot] = captured + 1] /\ slot' = (slot + 1) % PboRing
  /\ pres' = "idle"
  /\ UNCHANGED <<requests, recording, sink, size, dropped, unmapped, queue, done, writer,
                 writing, delivered, last, dmabuf, frameOf, then, left, switch, slipped>>

(* A dmabuf frame leaves with its present and is not numbered.  It goes to *)
(* the first slot not busy, from the cursor on; without one it is dropped. *)
ClaimSlot ==
  /\ pres = "capture" /\ sink = "dmabuf"
  /\ IF busy = 0..Slots-1
     THEN pres' = "idle" /\ UNCHANGED <<target, cursor>>
     ELSE \E i \in 0..Slots-1 :
            /\ (cursor + i) % Slots \notin busy
            /\ \A j \in 0..i-1 : (cursor + j) % Slots \in busy
            /\ target' = (cursor + i) % Slots /\ cursor' = (cursor + i + 1) % Slots
            /\ pres' = "draw"
  /\ UNCHANGED <<requests, recording, session, pipeline, ring, busy, held, frameOf,
                 then, left, switch, slipped>>

(* The blit is submitted and the slot marked busy, before ...              *)
MarkBusy ==
  /\ pres = "draw"
  /\ busy' = busy \cup {target}
  /\ pres' = "hand"
  /\ UNCHANGED <<requests, recording, session, pipeline, ring, cursor, held, target,
                 frameOf, then, left, switch, slipped>>

(* ... the encoder gets it.                                                *)
HandOver ==
  /\ pres = "hand"
  /\ held' = held \cup {<<target, ring>>} /\ target' = None
  /\ pres' = "idle"
  /\ UNCHANGED <<requests, recording, session, pipeline, ring, busy, cursor, frameOf,
                 then, left, switch, slipped>>

-----------------------------------------------------------------------------
(* The writer thread.                                                      *)

WriterPops ==
  /\ writer = "waiting" /\ queue # <<>>
  /\ writing' = Head(queue) /\ queue' = Tail(queue)
  /\ writer' = "writing"
  /\ UNCHANGED <<requests, recording, session, pbo, slot, done, delivered, last, dmabuf,
                 present, switch, slipped>>

(* fwrite, or the callback.                                                *)
WriterDelivers ==
  /\ writer = "writing"
  /\ delivered' = delivered + 1 /\ last' = writing /\ writing' = None
  /\ writer' = "waiting"
  /\ UNCHANGED <<requests, recording, session, pbo, slot, queue, done, dmabuf, present,
                 switch, slipped>>

WriterExits ==
  /\ writer = "waiting" /\ done /\ queue = <<>>
  /\ writer' = "exited"
  /\ UNCHANGED <<requests, recording, session, pbo, slot, queue, done, writing,
                 delivered, last, dmabuf, present, switch, slipped>>

-----------------------------------------------------------------------------
PresentStep ==
  \/ BeginPresent \/ TakeToggle \/ TakeStop \/ TakeStart \/ ChooseSink \/ RaiseFlag
  \/ StopDrains \/ StopDone \/ StopJoins
  \/ EndPresent \/ CollectOldest \/ ReadIntoPbo
  \/ ClaimSlot \/ MarkBusy \/ HandOver

WriterStep == WriterPops \/ WriterDelivers \/ WriterExits

Next ==
  \/ Toggle \/ RequestStart \/ RequestStop
  \/ \E on \in BOOLEAN : SetDmabuf(on)
  \/ \E s \in held : ReleaseSlot(s)
  \/ \E o \in Outputs : CheckSwitch(o)
  \/ SetPrimary
  \/ PresentStep \/ WriterStep

Spec == Init /\ [][Next]_vars

(* Frames keep being presented while a request waits (the shell's pump),   *)
(* and the writer runs.  The encoder need not give slots back.             *)
FairSpec == Spec /\ WF_vars(PresentStep) /\ WF_vars(WriterStep)

-----------------------------------------------------------------------------
(* Properties.                                                             *)

TypeOK ==
  /\ toggle \in BOOLEAN /\ startReq \in BOOLEAN /\ stopReq \in BOOLEAN
  /\ armed \in BOOLEAN /\ recording \in BOOLEAN /\ done \in BOOLEAN /\ slipped \in BOOLEAN
  /\ sink \in {None, "file", "callback", "dmabuf"} /\ size \in Outputs \cup {None}
  /\ captured \in 0..MaxFrames /\ dropped \in 0..MaxFrames /\ unmapped \in 0..MaxFrames
  /\ delivered \in 0..MaxFrames /\ last \in 0..MaxFrames
  /\ pbo \in [0..PboRing-1 -> Frames \cup {None}] /\ slot \in 0..PboRing-1
  /\ queue \in Seq(Frames) /\ Len(queue) <= QueueBound
  /\ writer \in {"none", "waiting", "writing", "exited"}
  /\ writing \in Frames \cup {None}
  /\ ring \in Outputs \cup {None}
  /\ busy \subseteq 0..Slots-1 /\ held \subseteq (0..Slots-1) \X Outputs
  /\ cursor \in 0..Slots-1
  /\ target \in 0..Slots-1 \cup {None}
  /\ pres \in {"idle", "toggle", "raiseFile", "stop", "start", "sink", "raise", "drain",
               "join", "capture", "blit", "draw", "hand"}
  /\ frameOf \in Outputs \cup {None} /\ then \in {"stop", "start"} /\ left \in 0..PboRing
  /\ mix \in Mixes /\ primary \in Outputs
  /\ plat \in {"idle", "switch"} /\ wanted \in Outputs \cup {None}

(* The PBOs that hold a frame, and what the ring holds, the oldest first.  *)
Pending == {i \in 0..PboRing-1 : pbo[i] # None}
Nth(i)  == pbo[(slot + i) % PboRing]

(* The writer has the oldest frame, the queue the next, the ring the rest. *)
InOrder ==
  LET newest == IF writing = None THEN last ELSE writing
  IN /\ writing # None => writing > last
     /\ \A i \in DOMAIN queue :
          queue[i] > newest /\ \A j \in DOMAIN queue : i < j => queue[i] < queue[j]
     /\ \A i \in 0..PboRing-1 : Nth(i) # None =>
          /\ Nth(i) > newest /\ \A j \in DOMAIN queue : Nth(i) > queue[j]
          /\ \A j \in 0..i-1 : Nth(j) # None => Nth(j) < Nth(i)

Finished == sink = None \/ (pres = "join" /\ writer \in {"none", "exited"})

(* No captured frame is lost or doubled unaccounted, whenever the session  *)
(* is stopped: each is in a PBO, in the queue, with the writer, delivered, *)
(* counted as dropped (fl_drm_view.cc:907, "drop rather than stall") or was*)
(* in a PBO that could not be mapped, which the code does not count; those *)
(* on their way are in the order of capture, and the session is not over   *)
(* before all of them have arrived: StopJoins throws nothing away.         *)
FramesAccounted ==
  /\ delivered + dropped + unmapped + (IF writing = None THEN 0 ELSE 1) + Len(queue)
       + Cardinality(Pending) = captured
  /\ InOrder
  /\ Finished => writing = None /\ queue = <<>> /\ Pending = {}
  /\ sink = None => writer = "none"

(* The frames taken and not yet delivered, dropped or lost unmapped.       *)
Way == {pbo[i] : i \in Pending} \cup {queue[i] : i \in DOMAIN queue}
         \cup ({writing} \ {None})

Feed == INSTANCE FrameFeed WITH
  open <- sink # None, taken <- captured, way <- Way,
  got <- delivered, newest <- last, lost <- dropped,
  failed <- unmapped

(* The ring, the queue and the two threads implement the promise FrameFeed *)
(* makes to a session's sink, step by step: nothing overtakes, nothing that*)
(* could be read back is dropped unless an earlier frame still waits for   *)
(* the writer (fl_drm_view.cc:919), and stop_rec ends the session after    *)
(* the last one.                                                           *)
KeepsFeed == Feed!Spec

(* The presenting thread never draws into a slot the encoder still has,    *)
(* the busy mask is what the encoder has, and the ring is not freed or     *)
(* rebuilt under it, not even by a later session of another size           *)
(* (fl_drm_view.cc:592: "slots may still be held by the encoder when the   *)
(* stop is consumed").                                                     *)
SlotsAreHeld ==
  LET theirs == {h[1] : h \in held}
  IN /\ target \notin theirs
     /\ busy = theirs \cup (IF pres = "hand" THEN {target} ELSE {})
     /\ \A h \in held : h[2] = ring
     /\ sink = "dmabuf" => ring = size

(* A session keeps capturing the output whose size it froze: the primary   *)
(* does not move under it, whatever began it and however its requests      *)
(* cross the switch (fl_drm_view.cc:2424: "switching under it feeds an     *)
(* encoder wrong-sized frames").  Excepted are a switch that had passed its*)
(* check when the session began, one that passed it before the flag was    *)
(* raised, and a session begun by a present of the former primary.         *)
PrimaryIsFrozen == sink # None /\ ~slipped => size = primary

(* A requested stop ends the session of the API: it is neither missed by   *)
(* the presents nor does the join of the writer block for ever.            *)
StopEndsSession == stopReq /\ sink \in {"callback", "dmabuf"} ~> sink = None
=============================================================================
