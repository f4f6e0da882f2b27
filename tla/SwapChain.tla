----------------------------- MODULE SwapChain -----------------------------
(***************************************************************************)
(* One output's swap chain (FlDrmSwapChain): the presenting thread queues  *)
(* page flips, the platform thread reads their events, the kernel scans    *)
(* buffers out, and VT switches take DRM master away in between.           *)
(*                                                                         *)
(* A buffer object and its framebuffer id live and die together in every   *)
(* state between two steps, so a buffer b stands for both: "locked" is the *)
(* set of buffers taken with gbm_surface_lock_front_buffer and not yet     *)
(* released.  GL renders into, and eglSwapBuffers queues, only buffers     *)
(* outside "locked"; "content" records the frame each buffer holds.        *)
(*                                                                         *)
(* The kernel's part (onScreen, pending, events, master) is external and   *)
(* modelled from how the code uses it: at most one flip pending per CRTC,  *)
(* one event per landed flip unless it is lost, EACCES without master.     *)
(***************************************************************************)
EXTENDS Integers, FiniteSets

CONSTANTS
  Buffers,         \* the gbm surface's buffer objects
  Frames,          \* what a buffer can show (NoFrame included: the black frame)
  NoBuf, NoFrame,
  MaxEvents,       \* room in the DRM fd's event queue
  VtSwitches,      \* TRUE: the environment switches virtual terminals
  FlipsCanBeLost,  \* TRUE: a flip may land without its event ever arriving
  PromptFlips,     \* TRUE: an event that does arrive beats the 2000 ms watchdog
  StartsMailbox    \* skip_when_busy_ at creation: TRUE for a secondary output

ASSUME ConstantsOK ==
  /\ NoBuf \notin Buffers \cup Frames
  /\ NoFrame \in Frames
  /\ Buffers # {}
  /\ MaxEvents \in Nat \ {0}
  /\ {VtSwitches, FlipsCanBeLost, PromptFlips, StartsMailbox} \subseteq BOOLEAN

VARIABLES
  pc,        \* presenting thread: where it is in Present()
  next,      \* Present()'s local next_bo
  waiting,   \* waiting_for_flip_
  dropped,   \* dropped_since_flip_
  mailbox,   \* skip_when_busy_
  current, previous,   \* current_bo_, previous_bo_
  locked, content,     \* the gbm surface
  onScreen, pending, events, master,   \* the kernel's CRTC, fd and DRM master
  vt,        \* "here", "leaving" (master dropped), "away", "foreign"
  vtActive,  \* *vt_active_
  acquire,   \* g_vt_pending_acquire / the seat's pending enable
  plat,      \* platform thread: where it is in its loop body
  chain,     \* "live", "closing", "deleted" or "leaked"
  gaveUp     \* history: "no", "idle", "raced" or "early", see GiveUp

present  == <<pc, next, previous, current, locked, content>>
kernel   == <<onScreen, pending, events, master>>
session  == <<vt, vtActive, acquire>>
platform == <<plat, chain>>
vars == <<present, waiting, dropped, mailbox, kernel, session, platform, gaveUp>>

Opt(b) == {b} \ {NoBuf}

(* A flip is outstanding while the kernel has not landed it, its event is  *)
(* unread, or the presenting thread has raised the flag for it.            *)
Outstanding ==
  pending # NoBuf \/ events > 0 \/ pc \in {"ioctl", "commit"}

(* The flip wait ends without the flip's event.  "idle" records that       *)
(* nothing was outstanding (the event had really been lost), "early" that  *)
(* the flip, or its event, was still on its way.                           *)
GiveUp ==
  gaveUp' = IF ~waiting THEN gaveUp
            ELSE IF Outstanding \/ gaveUp = "early" THEN "early"
            ELSE IF gaveUp = "raced" THEN "raced" ELSE "idle"

(* No wait was given up early, and no modeset raced with a present.        *)
InSync == gaveUp \in {"no", "idle"}

Init ==
  /\ pc = "idle" /\ next = NoBuf
  /\ waiting = FALSE /\ dropped = FALSE /\ mailbox = StartsMailbox
  /\ current \in Buffers /\ previous = NoBuf
  /\ locked = {current} /\ content = [b \in Buffers |-> NoFrame]
  /\ pending = NoBuf /\ events = 0
  /\ \/ onScreen = current /\ master = TRUE /\ vt = "here"
     \/ VtSwitches /\ onScreen = NoBuf /\ master = FALSE /\ vt = "foreign"
  /\ vtActive = TRUE /\ acquire = FALSE
  /\ plat = "loop" /\ chain = "live"
  /\ gaveUp = "no"

-----------------------------------------------------------------------------
(* The presenting thread: Present().                                       *)

(* A mailbox chain drops the frame while a flip is pending; otherwise the  *)
(* thread goes on to the flip wait.                                        *)
BeginPresent ==
  /\ pc = "idle" /\ chain = "live"
  /\ IF mailbox /\ waiting
     THEN dropped' = TRUE /\ UNCHANGED pc
     ELSE pc' = "wait" /\ UNCHANGED dropped
  /\ UNCHANGED <<next, previous, current, locked, content, waiting, mailbox,
                 kernel, session, platform, gaveUp>>

(* Mutant: the displaced buffer is destroyed without waiting for the flip. *)
FlipWaitSkipped ==
  /\ pc = "wait"
  /\ pc' = "release"
  /\ UNCHANGED <<next, previous, current, locked, content, waiting, dropped,
                 mailbox, kernel, session, platform, gaveUp>>

FlipWaitOver ==
  /\ pc = "wait" /\ ~waiting
  /\ pc' = "release"
  /\ UNCHANGED <<next, previous, current, locked, content, waiting, dropped,
                 mailbox, kernel, session, platform, gaveUp>>

(* What PromptFlips promises of the watchdog: it does not expire while the *)
(* platform thread runs and the event is still to come.                    *)
EventOnItsWay == PromptFlips /\ Outstanding /\ plat \notin {"exited", "aborted"}

(* Mutant: no watchdog.                                                    *)
FlipWaitNoWatchdog ==
  /\ pc = "wait" /\ waiting /\ ~vtActive
  /\ GiveUp
  /\ waiting' = FALSE
  /\ pc' = "release"
  /\ UNCHANGED <<next, previous, current, locked, content, dropped, mailbox,
                 kernel, session, platform>>

(* The two ways out of the wait loop that do not wait for the event: the   *)
(* VT is inactive, or the 2000 ms watchdog expired.                        *)
FlipWaitAbandoned ==
  /\ pc = "wait" /\ waiting
  /\ ~vtActive \/ ~EventOnItsWay
  /\ GiveUp
  /\ waiting' = FALSE
  /\ pc' = "release"
  /\ UNCHANGED <<next, previous, current, locked, content, dropped, mailbox,
                 kernel, session, platform>>

(* Kernel: a blocking modeset, by us or by the next master, flushes the    *)
(* flip queued before it; its event is delivered or lost like any other.   *)
FlushPending ==
  /\ pending' = NoBuf
  /\ \/ events' = events + (IF pending # NoBuf THEN 1 ELSE 0)
     \/ FlipsCanBeLost /\ UNCHANGED events

(* Kernel: removing a framebuffer the CRTC uses turns the plane off, after *)
(* the flip to it, if one is queued, has gone through.                     *)
RmFB(b) ==
  /\ onScreen' = IF b \in {onScreen, pending} THEN NoBuf ELSE onScreen
  /\ IF b = pending THEN FlushPending ELSE UNCHANGED <<pending, events>>
  /\ locked' = locked \ {b}
  /\ UNCHANGED master

ReleasePrevious ==
  /\ pc = "release"
  /\ IF previous # NoBuf THEN RmFB(previous) ELSE UNCHANGED <<kernel, locked>>
  /\ previous' = NoBuf
  /\ pc' = "check"
  /\ UNCHANGED <<next, current, content, waiting, dropped, mailbox, session,
                 platform, gaveUp>>

CheckVt ==
  /\ pc = "check"
  /\ pc' = IF vtActive THEN "swap" ELSE "offscreen"
  /\ UNCHANGED <<next, previous, current, locked, content, waiting, dropped,
                 mailbox, kernel, session, platform, gaveUp>>

(* eglSwapBuffers: the frame is rendered into a buffer nobody has locked.  *)
Render(b, f) == b \in Buffers \ locked /\ content' = [content EXCEPT ![b] = f]

(* The inactive path: swap, lock, release, no flip.                        *)
SwapOffscreen ==
  /\ pc = "offscreen"
  /\ \E b \in Buffers, f \in Frames : Render(b, f)
  /\ pc' = "idle"
  /\ UNCHANGED <<next, previous, current, locked, waiting, dropped, mailbox,
                 kernel, session, platform, gaveUp>>

(* Mutant: a front buffer that could not be locked is flipped to.          *)
SwapAndLockUnchecked ==
  /\ pc = "swap"
  /\ \E b, bo \in Buffers \cup {NoBuf}, f \in Frames :
       bo \in {b, NoBuf} /\ Render(b, f) /\ next' = bo /\ locked' = locked \cup {bo}
  /\ pc' = "raise"
  /\ UNCHANGED <<previous, current, waiting, dropped, mailbox, kernel, session,
                 platform, gaveUp>>

(* Swap, lock the front buffer and add its framebuffer; when the lock or   *)
(* AddFB fails nothing stays locked and Present() returns false.           *)
SwapAndLock ==
  /\ pc = "swap"
  /\ \E b \in Buffers, f \in Frames :
       /\ Render(b, f)
       /\ \/ next' = b /\ locked' = locked \cup {b} /\ pc' = "raise"
          \/ pc' = "idle" /\ UNCHANGED <<next, locked>>
  /\ UNCHANGED <<previous, current, waiting, dropped, mailbox, kernel, session,
                 platform, gaveUp>>

(* Mutant: the flag is not up when the flip is queued.                     *)
RaiseFlagForgotten ==
  /\ pc = "raise"
  /\ pc' = "ioctl"
  /\ UNCHANGED <<next, previous, current, locked, content, waiting, dropped,
                 mailbox, kernel, session, platform, gaveUp>>

RaiseFlag ==
  /\ pc = "raise"
  /\ waiting' = TRUE
  /\ pc' = "ioctl"
  /\ UNCHANGED <<next, previous, current, locked, content, dropped, mailbox,
                 kernel, session, platform, gaveUp>>

(* drmModePageFlip: refused without master (EACCES), while a flip is       *)
(* pending (EBUSY), or with no room for the event; other errors may occur. *)
FlipAccepted == master /\ pending = NoBuf /\ events < MaxEvents

QueueFlip ==
  /\ pc = "ioctl"
  /\ \/ FlipAccepted /\ pending' = next /\ pc' = "commit"
     \/ pc' = "failed" /\ UNCHANGED pending
  /\ UNCHANGED <<next, previous, current, locked, content, waiting, dropped,
                 mailbox, onScreen, events, master, session, platform, gaveUp>>

(* Mutant: the failing path returns without releasing next_bo.             *)
FlipFailedLeaks ==
  /\ pc = "failed"
  /\ waiting' = FALSE
  /\ next' = NoBuf
  /\ pc' = "idle"
  /\ UNCHANGED <<previous, current, locked, content, dropped, mailbox, kernel,
                 session, platform, gaveUp>>

FlipFailed ==
  /\ pc = "failed"
  /\ waiting' = FALSE
  /\ RmFB(next)
  /\ next' = NoBuf
  /\ pc' = "idle"
  /\ UNCHANGED <<previous, current, content, dropped, mailbox, session,
                 platform, gaveUp>>

(* Mutant: the displaced buffer is released as soon as the flip is queued. *)
CommitFlipReleases ==
  /\ pc = "commit"
  /\ previous' = NoBuf /\ current' = next /\ next' = NoBuf
  /\ locked' = locked \ {current}
  /\ pc' = "idle"
  /\ UNCHANGED <<content, waiting, dropped, mailbox, kernel, session, platform,
                 gaveUp>>

(* The displaced buffer stays alive until the flip just queued lands.      *)
CommitFlip ==
  /\ pc = "commit"
  /\ previous' = current /\ current' = next /\ next' = NoBuf
  /\ pc' = "idle"
  /\ UNCHANGED <<locked, content, waiting, dropped, mailbox, kernel, session,
                 platform, gaveUp>>

-----------------------------------------------------------------------------
(* The kernel (external).                                                  *)

FlipLands ==
  /\ pending # NoBuf
  /\ onScreen' = (IF vt = "foreign" THEN NoBuf ELSE pending)
  /\ pending' = NoBuf
  /\ \/ events' = events + 1
     \/ FlipsCanBeLost /\ UNCHANGED events
  /\ UNCHANGED <<present, waiting, dropped, mailbox, master, session, platform,
                 gaveUp>>

-----------------------------------------------------------------------------
(* VT switches: the signal handlers of direct mode, and the seat's disable *)
(* and enable, which take the same steps on the platform thread.           *)

DropMaster ==
  /\ VtSwitches /\ vt = "here"
  /\ vt' = "leaving" /\ master' = FALSE
  /\ UNCHANGED <<present, waiting, dropped, mailbox, onScreen, pending, events,
                 vtActive, acquire, platform, gaveUp>>

MarkInactive ==
  /\ vt = "leaving"
  /\ vt' = "away" /\ vtActive' = FALSE
  /\ UNCHANGED <<present, waiting, dropped, mailbox, kernel, acquire, platform,
                 gaveUp>>

ForeignModeset ==
  /\ vt = "away"
  /\ vt' = "foreign" /\ onScreen' = NoBuf
  /\ FlushPending
  /\ UNCHANGED <<present, waiting, dropped, mailbox, master, vtActive, acquire,
                 platform, gaveUp>>

SetMaster ==
  /\ vt \in {"away", "foreign"}
  /\ vt' = "here" /\ master' = TRUE /\ acquire' = TRUE
  /\ UNCHANGED <<present, waiting, dropped, mailbox, onScreen, pending, events,
                 vtActive, platform, gaveUp>>

-----------------------------------------------------------------------------
(* The platform thread.                                                    *)

(* DrainDrmEvents, HandlePageFlipEvent: the flag goes down, and the flip   *)
(* bridge then takes the dropped flag.                                     *)
HandlePageFlipEvent ==
  /\ plat = "loop" /\ events > 0 /\ chain # "deleted"
  /\ events' = events - 1
  /\ waiting' = FALSE
  /\ plat' = "report"
  /\ UNCHANGED <<present, dropped, mailbox, onScreen, pending, master, session,
                 chain, gaveUp>>

(* Mutant: the flip bridge does not take the dropped flag.                 *)
TakeDroppedForgotten ==
  /\ plat = "report"
  /\ plat' = "loop"
  /\ UNCHANGED <<present, waiting, dropped, mailbox, kernel, session, chain, gaveUp>>

TakeDropped ==
  /\ plat = "report"
  /\ dropped' = IF chain = "leaked" THEN dropped ELSE FALSE
  /\ plat' = "loop"
  /\ UNCHANGED <<present, waiting, mailbox, kernel, session, chain, gaveUp>>

(* RestoreModeset: SetCrtc with whatever current_fb_ holds at that moment. *)
(* Without master it fails and leaves the wait alone.  A present that has  *)
(* queued its flip and not yet moved current_fb_ is overrun: "raced".      *)
RestoreModeset ==
  /\ plat = "loop" /\ acquire
  /\ acquire' = FALSE
  /\ IF master /\ chain \in {"live", "closing"}
     THEN /\ onScreen' = current /\ FlushPending /\ plat' = "clear"
          /\ gaveUp' = IF pc = "commit" /\ InSync THEN "raced" ELSE gaveUp
     ELSE plat' = "activate" /\ UNCHANGED <<onScreen, pending, events, gaveUp>>
  /\ UNCHANGED <<present, waiting, dropped, mailbox, master, vt, vtActive, chain>>

ClearRestored ==
  /\ plat = "clear"
  /\ GiveUp
  /\ waiting' = FALSE
  /\ plat' = "activate"
  /\ UNCHANGED <<present, dropped, mailbox, kernel, session, chain>>

Activate ==
  /\ plat = "activate"
  /\ vtActive' = TRUE
  /\ plat' = "loop"
  /\ UNCHANGED <<present, waiting, dropped, mailbox, kernel, vt, acquire, chain,
                 gaveUp>>

(* fl_drm_view_set_primary_output flips the mode of both chains involved.  *)
SwitchMailbox ==
  /\ plat = "loop" /\ chain = "live"
  /\ mailbox' = ~mailbox
  /\ UNCHANGED <<present, waiting, dropped, kernel, session, platform, gaveUp>>

(* CompleteOutputTeardown, once the engine stopped presenting the view of  *)
(* a secondary output.  While it polls for the event of a flip in flight   *)
(* HandlePageFlipEvent and TakeDropped may run.                            *)
BeginTeardown ==
  /\ plat = "loop" /\ chain = "live" /\ mailbox /\ pc = "idle"
  /\ chain' = "closing"
  /\ UNCHANGED <<present, waiting, dropped, mailbox, kernel, session, plat, gaveUp>>

(* Mutant: the chain is deleted under a flip in flight.                    *)
FinishTeardownDeletes ==
  /\ plat = "loop" /\ chain = "closing"
  /\ chain' = "deleted" /\ locked' = {} /\ current' = NoBuf /\ previous' = NoBuf
  /\ onScreen' = NoBuf /\ FlushPending
  /\ UNCHANGED <<pc, next, content, waiting, dropped, mailbox, master, session,
                 plat, gaveUp>>

(* After the polls: with the wait still up the chain is leaked, and only   *)
(* the CRTC is switched off, which takes master.  Otherwise the chain is   *)
(* deleted, and its destructor removes and releases both buffers.          *)
FinishTeardown ==
  /\ plat = "loop" /\ chain = "closing"
  /\ IF waiting
     THEN chain' = "leaked" /\ UNCHANGED <<locked, current, previous>>
     ELSE chain' = "deleted" /\ locked' = {} /\ current' = NoBuf /\ previous' = NoBuf
  /\ IF master \/ ~waiting
     THEN onScreen' = NoBuf /\ FlushPending
     ELSE UNCHANGED <<onScreen, pending, events>>
  /\ UNCHANGED <<pc, next, content, waiting, dropped, mailbox, master, session,
                 plat, gaveUp>>

(* The loop stops reading the DRM fd; then every wait is aborted.          *)
LoopExits ==
  /\ plat = "loop"
  /\ plat' = "exited"
  /\ UNCHANGED <<present, waiting, dropped, mailbox, kernel, session, chain, gaveUp>>

AbortFlipWait ==
  /\ plat = "exited"
  /\ GiveUp
  /\ waiting' = FALSE
  /\ plat' = "aborted"
  /\ UNCHANGED <<present, dropped, mailbox, kernel, session, chain>>

-----------------------------------------------------------------------------
PresentStep ==
  \/ FlipWaitOver \/ FlipWaitAbandoned \/ ReleasePrevious \/ CheckVt
  \/ SwapOffscreen \/ SwapAndLock \/ RaiseFlag \/ QueueFlip \/ FlipFailed
  \/ CommitFlip

PlatformStep ==
  \/ HandlePageFlipEvent \/ TakeDropped
  \/ RestoreModeset \/ ClearRestored \/ Activate
  \/ AbortFlipWait

Environment ==
  \/ DropMaster \/ MarkInactive \/ ForeignModeset \/ SetMaster
  \/ SwitchMailbox \/ BeginTeardown \/ FinishTeardown \/ LoopExits

Next == BeginPresent \/ PresentStep \/ FlipLands \/ PlatformStep \/ Environment

Spec == Init /\ [][Next]_vars

(* Each thread keeps running its own steps, the kernel lands queued flips, *)
(* the presenting thread is asked for frames again and again.  Every pass  *)
(* of the platform loop reads the DRM fd when it is readable, whatever     *)
(* else the pass did: strong fairness.  Nothing is assumed of the VT, of   *)
(* hotplug or of shutdown.                                                 *)
Fairness ==
  /\ WF_vars(BeginPresent) /\ WF_vars(PresentStep)
  /\ WF_vars(FlipLands)
  /\ SF_vars(HandlePageFlipEvent) /\ WF_vars(PlatformStep)

FairSpec == Spec /\ Fairness

-----------------------------------------------------------------------------
TypeOK ==
  /\ pc \in {"idle", "wait", "release", "check", "swap", "offscreen", "raise",
             "ioctl", "failed", "commit"}
  /\ {next, current, previous, onScreen, pending} \subseteq Buffers \cup {NoBuf}
  /\ {waiting, dropped, mailbox, master, vtActive, acquire} \subseteq BOOLEAN
  /\ locked \subseteq Buffers
  /\ content \in [Buffers -> Frames]
  /\ events \in 0..MaxEvents
  /\ vt \in {"here", "leaving", "away", "foreign"}
  /\ plat \in {"loop", "report", "clear", "activate", "exited", "aborted"}
  /\ chain \in {"live", "closing", "deleted", "leaked"}
  /\ gaveUp \in {"no", "idle", "raced", "early"}

(* Every buffer taken from the surface is one of the three the chain holds *)
(* on to, on every path through Present(), the failing ones included: no   *)
(* frame leaks a buffer, and a swap always finds the surface with at most  *)
(* the buffer on the screen locked.                                        *)
NoBufferLeak ==
  /\ locked = Opt(current) \cup Opt(previous) \cup Opt(next)
  /\ pc \in {"swap", "offscreen"} => locked = {current}

(* "The buffer it displaced is finally off the screen and safe to destroy":*)
(* unless a wait was given up with its flip still outstanding, or a restore*)
(* overran a present, the buffer Present() is about to destroy is neither  *)
(* scanned out nor queued.                                                 *)
ReleasedIsOffScreen ==
  pc = "release" /\ previous # NoBuf /\ InSync =>
    previous \notin {onScreen, pending}

(* The same, of a present that no wait was given up for: whether a modeset *)
(* restored on VT return may nevertheless put the buffer back on screen.   *)
ReleasedIsOffScreenAfterRestore ==
  pc = "release" /\ previous # NoBuf /\ gaveUp # "early" =>
    previous \notin {onScreen, pending}

(* The panel never scans out a buffer GL may be rendering into.            *)
ScanoutIsLocked ==
  InSync => Opt(onScreen) \cup Opt(pending) \subseteq locked

(* The flag is the truth: with the flag down and no early give-up, no flip *)
(* is in the kernel and no event is unread (so no event can clear the flag *)
(* of a later flip), and there is never more than one of the two.  So the  *)
(* kernel never refuses as busy a flip that Present() has waited for.      *)
FlagTracksFlip ==
  InSync =>
    /\ ~waiting \/ pc \notin {"idle", "wait", "commit"} =>
         pending = NoBuf /\ events = 0
    /\ events <= 1 /\ (events = 1 => pending = NoBuf)

(* "The dropped one [may be the final frame], leaving the panel a frame    *)
(* stale with nothing in flight to correct it": while a drop is            *)
(* unreported, a flip is in flight whose bridge call will report it.       *)
DropHasCarrier ==
  dropped /\ gaveUp = "no" /\ chain = "live" => waiting \/ plat = "report"

(* Deleting a chain leaves no flip event behind that carries its pointer.  *)
NoEventForDeletedChain ==
  chain = "deleted" /\ InSync => pending = NoBuf /\ events = 0

(* The inductive invariant behind the six properties above.                *)
HoldsNext == pc \in {"raise", "ioctl", "failed", "commit"}
Newest == IF pc = "commit" THEN next ELSE current
Displaced == IF pc = "commit" THEN current ELSE previous

BuffersHeld ==
  /\ locked = Opt(current) \cup Opt(previous) \cup Opt(next)
  /\ next # NoBuf <=> HoldsNext
  /\ HoldsNext \/ pc \in {"check", "swap", "offscreen"} => previous = NoBuf
  /\ next # NoBuf => next # current
  /\ previous # NoBuf => previous # current
  /\ current = NoBuf <=> chain = "deleted"
  /\ chain = "deleted" => previous = NoBuf /\ ~waiting
  /\ pc # "idle" => chain = "live"

EventRoom == events + (IF pending = NoBuf THEN 0 ELSE 1) <= MaxEvents

(* The panel shows the newest buffer, or the one it displaces while the    *)
(* flip to the newest is pending.                                          *)
PanelInStep ==
  InSync =>
    /\ pending = NoBuf => onScreen \in {NoBuf, Newest}
    /\ pending # NoBuf => pending = Newest /\ onScreen \in {NoBuf, Displaced}

DropInStep ==
  /\ DropHasCarrier
  /\ dropped /\ gaveUp = "no" /\ chain = "live" /\ pc \notin {"idle", "wait", "commit"}
       => plat = "report"

SteadySession ==
  PromptFlips /\ ~VtSwitches =>
    /\ vtActive /\ ~acquire /\ vt = "here" /\ plat \notin {"clear", "activate"}
    /\ plat \notin {"exited", "aborted"} => InSync

FlagIsUp == InSync /\ pc = "ioctl" => waiting

IInv ==
  /\ TypeOK /\ BuffersHeld /\ EventRoom /\ FlagTracksFlip /\ FlagIsUp
  /\ PanelInStep /\ DropInStep /\ SteadySession

(* Present() always returns: the watchdog covers lost events and a         *)
(* platform thread that stopped reading the fd.                            *)
PresentReturns == pc # "idle" ~> pc = "idle"

(* The flag is up for a flip whose event was lost.                         *)
EventLost == waiting /\ ~Outstanding /\ pc # "failed" /\ plat # "clear"

(* A dropped frame is reported, unless the chain is being torn down, the   *)
(* loop exited, the event that should report it was lost, or a wait was    *)
(* given up.                                                               *)
DropReported ==
  dropped ~> \/ ~dropped \/ chain # "live" \/ gaveUp # "no"
             \/ plat \in {"exited", "aborted"} \/ EventLost

(* "Better a logged recovery + possible flicker than a permanently dead    *)
(* desktop": the raised flag of a chain that stays in mailbox mode comes   *)
(* down again, although a mailbox chain never enters the watchdog's loop.  *)
MailboxFlagComesDown ==
  <>[]mailbox =>
    (waiting ~> ~waiting \/ chain # "live" \/ plat \in {"exited", "aborted"})

(* With prompt flips and no VT switch no wait is given up early while the  *)
(* platform thread reads events: the guarantees above are unconditional.   *)
NeverEarly ==
  PromptFlips /\ ~VtSwitches /\ plat \notin {"exited", "aborted"} => InSync

(* The chain keeps the promise of PanelScanout: what the panel shows       *)
(* changes only by the landing of a whole frame queued before, while the   *)
(* session has DRM master and its modeset is restored, the chain is not    *)
(* torn down, its events are read, and it never fell out of step.          *)
DrivesPanel ==
  /\ InSync /\ chain \in {"live", "closing"} /\ plat \in {"loop", "report"}
  /\ vt = "here" /\ ~acquire

Panel == INSTANCE PanelScanout WITH
  Nothing <- NoBuf,
  on      <- DrivesPanel,
  shown   <- IF DrivesPanel /\ onScreen # NoBuf THEN content[onScreen] ELSE NoFrame,
  queued  <- IF DrivesPanel /\ pending # NoBuf THEN content[pending] ELSE NoBuf

ShowsWholeFrames == Panel!Spec

=============================================================================
