-------------------------- MODULE SwapChainProofs --------------------------
(***************************************************************************)
(* IInv is an inductive invariant of SwapChain, and the safety properties  *)
(* follow from it, for any set of buffers and whatever the environment.    *)
(***************************************************************************)
EXTENDS SwapChain, TLAPS

(* Every step of Present(), of the kernel, of the platform thread and of   *)
(* the environment preserves the inductive invariant.                      *)
LEMMA Step == IInv /\ [Next]_vars => IInv'
<1> SUFFICES ASSUME IInv, [Next]_vars PROVE IInv'
  OBVIOUS
<1> USE ConstantsOK
    DEF ConstantsOK, IInv, InSync, BuffersHeld, EventRoom, FlagTracksFlip,
        FlagIsUp, PanelInStep, DropInStep, DropHasCarrier, SteadySession,
        Newest, Displaced, HoldsNext, Opt, present, kernel, session, platform
<1>1. CASE BeginPresent
  <2>2. TypeOK'
    BY <1>1 DEF BeginPresent, TypeOK
  <2>3. BuffersHeld' /\ EventRoom' /\ PanelInStep'
    BY <1>1 DEF BeginPresent, TypeOK
  <2>4. FlagTracksFlip' /\ FlagIsUp'
    BY <1>1 DEF BeginPresent, TypeOK
  <2>5. DropInStep' /\ SteadySession'
    BY <1>1 DEF BeginPresent, TypeOK
  <2> QED
    BY <2>2, <2>3, <2>4, <2>5
<1>2. CASE FlipWaitOver
  BY <1>2 DEF FlipWaitOver, TypeOK
<1>3. CASE FlipWaitAbandoned
  <2>2. TypeOK'
    BY <1>3 DEF FlipWaitAbandoned, GiveUp, EventOnItsWay, Outstanding, TypeOK
  <2>3. BuffersHeld' /\ EventRoom' /\ PanelInStep'
    BY <1>3 DEF FlipWaitAbandoned, GiveUp, EventOnItsWay, Outstanding, TypeOK
  <2>4. FlagTracksFlip' /\ FlagIsUp'
    BY <1>3 DEF FlipWaitAbandoned, GiveUp, EventOnItsWay, Outstanding, TypeOK
  <2>5. DropInStep' /\ SteadySession'
    BY <1>3 DEF FlipWaitAbandoned, GiveUp, EventOnItsWay, Outstanding, TypeOK
  <2> QED
    BY <2>2, <2>3, <2>4, <2>5
<1>4. CASE ReleasePrevious
  BY <1>4 DEF ReleasePrevious, RmFB, FlushPending, TypeOK
<1>5. CASE CheckVt
  BY <1>5 DEF CheckVt, TypeOK
<1>6. CASE SwapOffscreen
  BY <1>6 DEF SwapOffscreen, Render, TypeOK
<1>7. CASE SwapAndLock
  BY <1>7 DEF SwapAndLock, Render, TypeOK
<1>8. CASE RaiseFlag
  BY <1>8 DEF RaiseFlag, TypeOK
<1>9. CASE QueueFlip
  BY <1>9 DEF QueueFlip, FlipAccepted, TypeOK
<1>10. CASE FlipFailed
  <2>1. events' \in 0..MaxEvents
    BY <1>10 DEF FlipFailed, RmFB, FlushPending, TypeOK
  <2>2. TypeOK'
    BY <1>10, <2>1 DEF FlipFailed, RmFB, FlushPending, TypeOK
  <2>3. BuffersHeld' /\ EventRoom' /\ PanelInStep'
    BY <1>10 DEF FlipFailed, RmFB, FlushPending, TypeOK
  <2>4. FlagTracksFlip' /\ FlagIsUp'
    BY <1>10 DEF FlipFailed, RmFB, FlushPending, TypeOK
  <2>5. DropInStep' /\ SteadySession'
    BY <1>10 DEF FlipFailed, RmFB, FlushPending, TypeOK
  <2> QED
    BY <2>2, <2>3, <2>4, <2>5
<1>11. CASE CommitFlip
  BY <1>11 DEF CommitFlip, TypeOK
<1>12. CASE FlipLands
  BY <1>12 DEF FlipLands, TypeOK
<1>13. CASE DropMaster
  <2>2. TypeOK'
    BY <1>13 DEF DropMaster, TypeOK
  <2>3. BuffersHeld' /\ EventRoom' /\ PanelInStep'
    BY <1>13 DEF DropMaster, TypeOK
  <2>4. FlagTracksFlip' /\ FlagIsUp'
    BY <1>13 DEF DropMaster, TypeOK
  <2>5. DropInStep' /\ SteadySession'
    BY <1>13 DEF DropMaster, TypeOK
  <2> QED
    BY <2>2, <2>3, <2>4, <2>5
<1>14. CASE MarkInactive
  <2>2. TypeOK'
    BY <1>14 DEF MarkInactive, TypeOK
  <2>3. BuffersHeld' /\ EventRoom' /\ PanelInStep'
    BY <1>14 DEF MarkInactive, TypeOK
  <2>4. FlagTracksFlip' /\ FlagIsUp'
    BY <1>14 DEF MarkInactive, TypeOK
  <2>5. DropInStep' /\ SteadySession'
    BY <1>14 DEF MarkInactive, TypeOK
  <2> QED
    BY <2>2, <2>3, <2>4, <2>5
<1>15. CASE ForeignModeset
  BY <1>15 DEF ForeignModeset, FlushPending, TypeOK
<1>16. CASE SetMaster
  BY <1>16 DEF SetMaster, TypeOK
<1>17. CASE HandlePageFlipEvent
  <2>1. events' \in 0..MaxEvents
    BY <1>17 DEF HandlePageFlipEvent, TypeOK
  <2>2. TypeOK'
    BY <1>17, <2>1 DEF HandlePageFlipEvent, TypeOK
  <2>3. BuffersHeld' /\ EventRoom' /\ PanelInStep'
    BY <1>17 DEF HandlePageFlipEvent, TypeOK
  <2>4. FlagTracksFlip' /\ FlagIsUp'
    BY <1>17 DEF HandlePageFlipEvent, TypeOK
  <2>5. DropInStep' /\ SteadySession'
    BY <1>17 DEF HandlePageFlipEvent, TypeOK
  <2> QED
    BY <2>2, <2>3, <2>4, <2>5
<1>18. CASE TakeDropped
  <2>2. TypeOK'
    BY <1>18 DEF TakeDropped, TypeOK
  <2>3. BuffersHeld' /\ EventRoom' /\ PanelInStep'
    BY <1>18 DEF TakeDropped, TypeOK
  <2>4. FlagTracksFlip' /\ FlagIsUp'
    BY <1>18 DEF TakeDropped, TypeOK
  <2>5. DropInStep' /\ SteadySession'
    BY <1>18 DEF TakeDropped, TypeOK
  <2> QED
    BY <2>2, <2>3, <2>4, <2>5
<1>19. CASE RestoreModeset
  <2>1. events' \in 0..MaxEvents
    BY <1>19 DEF RestoreModeset, FlushPending, TypeOK
  <2>2. TypeOK'
    BY <1>19, <2>1 DEF RestoreModeset, FlushPending, TypeOK
  <2>3. BuffersHeld' /\ EventRoom' /\ PanelInStep'
    BY <1>19 DEF RestoreModeset, FlushPending, TypeOK
  <2>4. FlagTracksFlip' /\ FlagIsUp'
    BY <1>19 DEF RestoreModeset, FlushPending, TypeOK
  <2>5. DropInStep' /\ SteadySession'
    BY <1>19 DEF RestoreModeset, FlushPending, TypeOK
  <2> QED
    BY <2>2, <2>3, <2>4, <2>5
<1>20. CASE ClearRestored
  <2>2. TypeOK'
    BY <1>20 DEF ClearRestored, GiveUp, Outstanding, TypeOK
  <2>3. BuffersHeld' /\ EventRoom' /\ PanelInStep'
    BY <1>20 DEF ClearRestored, GiveUp, Outstanding, TypeOK
  <2>4. FlagTracksFlip' /\ FlagIsUp'
    BY <1>20 DEF ClearRestored, GiveUp, Outstanding, TypeOK
  <2>5. DropInStep' /\ SteadySession'
    BY <1>20 DEF ClearRestored, GiveUp, Outstanding, TypeOK
  <2> QED
    BY <2>2, <2>3, <2>4, <2>5
<1>21. CASE Activate
  BY <1>21 DEF Activate, TypeOK
<1>22. CASE SwitchMailbox
  BY <1>22 DEF SwitchMailbox, TypeOK
<1>23. CASE BeginTeardown
  BY <1>23 DEF BeginTeardown, TypeOK
<1>24. CASE FinishTeardown
  BY <1>24 DEF FinishTeardown, FlushPending, TypeOK
<1>25. CASE LoopExits
  BY <1>25 DEF LoopExits, TypeOK
<1>26. CASE AbortFlipWait
  <2>2. TypeOK'
    BY <1>26 DEF AbortFlipWait, GiveUp, Outstanding, TypeOK
  <2>3. BuffersHeld' /\ EventRoom' /\ PanelInStep'
    BY <1>26 DEF AbortFlipWait, GiveUp, Outstanding, TypeOK
  <2>4. FlagTracksFlip' /\ FlagIsUp'
    BY <1>26 DEF AbortFlipWait, GiveUp, Outstanding, TypeOK
  <2>5. DropInStep' /\ SteadySession'
    BY <1>26 DEF AbortFlipWait, GiveUp, Outstanding, TypeOK
  <2> QED
    BY <2>2, <2>3, <2>4, <2>5
<1>27. CASE UNCHANGED vars
  BY <1>27 DEF vars, TypeOK
<1> QED
  BY <1>1, <1>2, <1>3, <1>4, <1>5, <1>6, <1>7, <1>8, <1>9, <1>10, <1>11, <1>12, <1>13,
     <1>14, <1>15, <1>16, <1>17, <1>18, <1>19, <1>20, <1>21, <1>22, <1>23, <1>24, <1>25, <1>26, <1>27
  DEF Next, PresentStep, PlatformStep, Environment

(* A chain that has just been mode-set, on our VT or on a foreign one,     *)
(* satisfies IInv.                                                         *)
LEMMA InitInv == Init => IInv
<1> SUFFICES ASSUME Init PROVE IInv
  OBVIOUS
<1> USE ConstantsOK DEF ConstantsOK
<1>1. TypeOK
  <2>1. mailbox \in BOOLEAN
    <3>1. StartsMailbox \in BOOLEAN
      OBVIOUS
    <3>2. mailbox = StartsMailbox
      BY DEF Init
    <3> QED
      BY <3>1, <3>2
  <2>2. content \in [Buffers -> Frames]
    BY DEF Init
  <2>3. events \in 0..MaxEvents
    BY DEF Init
  <2>4. locked \subseteq Buffers /\ {next, current, previous, onScreen, pending} \subseteq Buffers \cup {NoBuf}
    BY DEF Init
  <2>5. {waiting, dropped, mailbox, master, vtActive, acquire} \subseteq BOOLEAN
    BY <2>1 DEF Init
  <2> QED
    BY <2>1, <2>2, <2>3, <2>4, <2>5 DEF Init, TypeOK
<1>2. BuffersHeld
  BY DEF Init, BuffersHeld, HoldsNext, Opt
<1>3. EventRoom
  BY DEF Init, EventRoom
<1>4. FlagTracksFlip /\ FlagIsUp
  BY DEF Init, FlagTracksFlip, FlagIsUp
<1>5. PanelInStep
  BY DEF Init, PanelInStep, Newest
<1>6. DropInStep
  BY DEF Init, DropInStep, DropHasCarrier
<1>7. SteadySession
  BY DEF Init, SteadySession, InSync
<1> QED
  BY <1>1, <1>2, <1>3, <1>4, <1>5, <1>6, <1>7 DEF IInv

(* IInv holds in every reachable state of one output's swap chain.         *)
THEOREM InductiveInvariant == Spec => []IInv
<1>1. Init => IInv
  BY InitInv
<1>2. IInv /\ [Next]_vars => IInv'
  BY Step
<1> QED
  BY <1>1, <1>2, PTL DEF Spec

(* The chain's variables keep their types; in particular the DRM fd's      *)
(* event queue stays within MaxEvents.                                     *)
THEOREM TypeCorrect == Spec => []TypeOK
<1>1. IInv => TypeOK
  BY DEF IInv
<1> QED
  BY InductiveInvariant, <1>1, PTL

(* No path through Present(), the failing ones included, forgets a buffer  *)
(* it has locked.                                                          *)
THEOREM NoLeak == Spec => []NoBufferLeak
<1>1. IInv => NoBufferLeak
  BY DEF IInv, BuffersHeld, NoBufferLeak, HoldsNext, Opt, TypeOK
<1> QED
  BY InductiveInvariant, <1>1, PTL

(* What Present() destroys is neither on the panel nor queued for it, as   *)
(* long as no wait was given up early and no modeset raced with it.        *)
THEOREM ReleaseSafety == Spec => []ReleasedIsOffScreen
<1>1. IInv => ReleasedIsOffScreen
  BY DEF IInv, TypeOK, BuffersHeld, FlagTracksFlip, PanelInStep, Newest,
     ReleasedIsOffScreen
<1> QED
  BY InductiveInvariant, <1>1, PTL

(* Under the same condition, what the panel scans out, or is about to, is  *)
(* never a buffer GL may render into.                                      *)
THEOREM NoTearing == Spec => []ScanoutIsLocked
<1>1. IInv => ScanoutIsLocked
  BY DEF IInv, TypeOK, BuffersHeld, FlagTracksFlip, PanelInStep, Newest,
     Displaced, HoldsNext, Opt, ScanoutIsLocked
<1> QED
  BY InductiveInvariant, <1>1, PTL

(* waiting_for_flip_ tells the truth about the flip in flight.             *)
THEOREM FlagTracking == Spec => []FlagTracksFlip
<1>1. IInv => FlagTracksFlip
  BY DEF IInv
<1> QED
  BY InductiveInvariant, <1>1, PTL

(* A dropped frame not yet reported always has a flip in flight whose event *)
(* will report it.                                                         *)
THEOREM DropCarried == Spec => []DropHasCarrier
<1>1. IInv => DropHasCarrier
  BY DEF IInv, DropInStep
<1> QED
  BY InductiveInvariant, <1>1, PTL

(* Once CompleteOutputTeardown has deleted the chain no event with its     *)
(* pointer is left in the DRM fd.                                          *)
THEOREM DeletedChainIsQuiet == Spec => []NoEventForDeletedChain
<1>1. IInv => NoEventForDeletedChain
  BY DEF IInv, TypeOK, BuffersHeld, NoEventForDeletedChain, FlagTracksFlip
<1> QED
  BY InductiveInvariant, <1>1, PTL

(* With flip events that beat the watchdog and no VT switch, Present()     *)
(* never gives up a wait while the flip is outstanding.                    *)
THEOREM SteadyChainInSync == Spec => []NeverEarly
<1>1. IInv => NeverEarly
  BY DEF IInv, SteadySession, NeverEarly
<1> QED
  BY InductiveInvariant, <1>1, PTL

(* Every step of the chain is a step of the panel it promises, or changes  *)
(* nothing the panel shows.                                                *)
LEMMA PanelStep ==
  ASSUME IInv, [Next]_vars
  PROVE  [Panel!Next]_(Panel!vars)
<1> USE ConstantsOK
    DEF ConstantsOK, IInv, InSync, BuffersHeld, FlagTracksFlip,
        PanelInStep, SteadySession, TypeOK,
        Newest, Displaced, HoldsNext, Opt, present, kernel, session, platform,
        DrivesPanel, Panel!Next, Panel!Queue, Panel!Land, Panel!SwitchOff,
        Panel!SwitchOn, Panel!vars
<1>1. CASE BeginPresent
  BY <1>1 DEF BeginPresent
<1>2. CASE FlipWaitOver
  BY <1>2 DEF FlipWaitOver
<1>3. CASE FlipWaitAbandoned
  BY <1>3 DEF FlipWaitAbandoned, GiveUp, EventOnItsWay, Outstanding
<1>4. CASE ReleasePrevious
  BY <1>4 DEF ReleasePrevious, RmFB, FlushPending
<1>5. CASE CheckVt
  BY <1>5 DEF CheckVt
<1>6. CASE SwapOffscreen
  BY <1>6 DEF SwapOffscreen, Render
<1>7. CASE SwapAndLock
  BY <1>7 DEF SwapAndLock, Render
<1>8. CASE RaiseFlag
  BY <1>8 DEF RaiseFlag
<1>9. CASE QueueFlip
  BY <1>9 DEF QueueFlip, FlipAccepted
<1>10. CASE FlipFailed
  BY <1>10 DEF FlipFailed, RmFB, FlushPending
<1>11. CASE CommitFlip
  BY <1>11 DEF CommitFlip
<1>12. CASE FlipLands
  BY <1>12 DEF FlipLands
<1>13. CASE DropMaster
  BY <1>13 DEF DropMaster
<1>14. CASE MarkInactive
  BY <1>14 DEF MarkInactive
<1>15. CASE ForeignModeset
  BY <1>15 DEF ForeignModeset, FlushPending
<1>16. CASE SetMaster
  BY <1>16 DEF SetMaster
<1>17. CASE HandlePageFlipEvent
  BY <1>17 DEF HandlePageFlipEvent
<1>18. CASE TakeDropped
  BY <1>18 DEF TakeDropped
<1>19. CASE RestoreModeset
  BY <1>19 DEF RestoreModeset, FlushPending
<1>20. CASE ClearRestored
  BY <1>20 DEF ClearRestored, GiveUp, Outstanding
<1>21. CASE Activate
  BY <1>21 DEF Activate
<1>22. CASE SwitchMailbox
  BY <1>22 DEF SwitchMailbox
<1>23. CASE BeginTeardown
  BY <1>23 DEF BeginTeardown
<1>24. CASE FinishTeardown
  BY <1>24 DEF FinishTeardown, FlushPending
<1>25. CASE LoopExits
  BY <1>25 DEF LoopExits
<1>26. CASE AbortFlipWait
  BY <1>26 DEF AbortFlipWait, GiveUp, Outstanding
<1>27. CASE UNCHANGED vars
  BY <1>27 DEF vars
<1> QED
  BY <1>1, <1>2, <1>3, <1>4, <1>5, <1>6, <1>7, <1>8, <1>9, <1>10, <1>11, <1>12, <1>13,
     <1>14, <1>15, <1>16, <1>17, <1>18, <1>19, <1>20, <1>21, <1>22, <1>23, <1>24, <1>25, <1>26, <1>27
  DEF Next, PresentStep, PlatformStep, Environment

(* The chain implements PanelScanout: while it drives the panel and is in  *)
(* step, whole frames are shown in the order they were presented.          *)
THEOREM Refinement == Spec => ShowsWholeFrames
<1>1. Init => Panel!Init
  BY ConstantsOK DEF ConstantsOK, Init, Panel!Init, DrivesPanel, InSync
<1>2. IInv /\ [Next]_vars => [Panel!Next]_(Panel!vars)
  BY PanelStep
<1> QED
  BY InductiveInvariant, <1>1, <1>2, PTL DEF Spec, Panel!Spec, ShowsWholeFrames
=============================================================================
