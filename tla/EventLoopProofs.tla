--------------------------- MODULE EventLoopProofs --------------------------
(***************************************************************************)
(* Theorems about EventLoop, for any threads, tasks and clock, and         *)
(* whatever stimuli meet.  What the loop may rely on at epoll_wait is the  *)
(* end of an argument that goes round the whole pass: a request is covered *)
(* by a byte, by a thread that will write it, or by the loop still having  *)
(* to look at its flag.                                                    *)
(***************************************************************************)
EXTENDS EventLoop, WellFoundedInduction, TLAPS

Draining == {"sample", "take", "run"}
Handling == {"handle", "read"} \cup Draining

(* Between the wait and the end of the pass the loop handles fds; it drains*)
(* the platform queue except at the two places that name another one, and  *)
(* the posted callbacks, all due at once, only when handling.              *)
PassShape ==
  /\ resume = "handle" => plat \in Handling
  /\ plat = "handle" => resume = "handle"
  /\ draining # "platform" => plat \in Draining
  /\ draining = "posted" => plat \in {"take", "run"} /\ resume = "handle"
  /\ plat \notin {"take", "run"} \/ draining = "posted" => sampled = 0
  /\ \A x \in Tasks : place[x] = "posted" => due[x] = 0

(* Where the loop will look at a flag, or at running, before it waits.     *)
Before(f) ==
  CASE f = "release"  -> {"release"}
    [] f = "teardown" -> {"release", "teardown"}
    [] f = "disable"  -> {"release", "teardown", "disable"}
    [] f = "enable"   -> {"release", "teardown", "disable", "ack", "enable"}
    [] f = "acquire"  -> {"release", "teardown", "disable", "ack", "enable",
                          "enabled", "acquire"}

NewPassComes == plat \in {"created", "test"} \/ resume = "handle"
WakeComes == pipe \/ Owes({"wake", "wakeBoth"})

RequestsCovered ==
  plat # "exited" =>
    /\ \A f \in latched : WakeComes \/ NewPassComes \/ plat \in Before(f)
    /\ ~running => WakeComes \/ NewPassComes

PostedCovered ==
  In("posted") # {} =>
    eventfd \/ Owes({"posted"}) \/ (plat = "take" /\ draining = "posted")

(* Where UI tasks wake the loop: the timeout is set from their queue and   *)
(* only then waited for.                                                   *)
UiCovered ==
  plat = "wait" /\ UiPolled =>
    \A x \in In("ui") : uiPipe \/ (until # None /\ until <= Later(due[x], now))

(* From the reading of the timerfd to the rearming the timer may be off.   *)
TimerCovers ==
  (draining = "platform" /\ plat \in Draining)
  \/ \A x \in In("platform") : timer # None /\ timer <= Later(due[x], now)

(* A disable is under way only while the session waits for its             *)
(* acknowledgement, and at one place.                                      *)
Coming(e) == \E i \in DOMAIN events : events[i] = e

DisableOnItsWay ==
  /\ Coming("disable") => session = "leaving"
  /\ "disable" \in latched => session = "leaving" /\ ~Coming("disable")
  /\ plat = "ack" =>
       session = "leaving" /\ ~Coming("disable") /\ "disable" \notin latched

(* While the session is ours and dark, what will light it is on its way.   *)
Resuming ==
  \/ Owes({"acquire"}) \/ "acquire" \in latched
  \/ Coming("enable") \/ "enable" \in latched
  \/ plat \in {"enabled", "acquired"}

ResumeComes == session = "active" /\ ~vtActive => Resuming

IInv ==
  /\ TypeOK /\ PassShape
  /\ RequestsCovered /\ PostedCovered /\ UiCovered /\ TimerCovers
  /\ DisableOnItsWay /\ ResumeComes

-----------------------------------------------------------------------------
(* A non-empty set of naturals has a least member.                         *)
LEMMA LeastMember ==
  ASSUME NEW S \in SUBSET Nat, S # {}
  PROVE  \E m \in S : \A n \in S : m <= n
<1>1. IsWellFoundedOn(OpToRel(<, Nat), Nat)
  BY NatLessThanWellFounded, Zenon
<1>2. PICK m \in S : \A n \in S : ~(<<n, m>> \in OpToRel(<, Nat))
  BY <1>1, WFMin, Zenon
<1>3. \A n \in S : ~(n < m)
  BY <1>2 DEF OpToRel
<1> QED
  BY <1>3

(* The least of some target times, as Earliest picks it, is one of them.   *)
LEMMA EarliestLemma ==
  ASSUME NEW X \in SUBSET Tasks, X # {}, NEW d \in [Tasks -> Times], NEW m,
         m = CHOOSE u \in {d[x] : x \in X} : \A x \in X : u <= d[x]
  PROVE  m \in Times /\ \A x \in X : m <= d[x]
<1> DEFINE S == {d[x] : x \in X}
<1>1. S \in SUBSET Nat /\ S # {} /\ S \subseteq Times
  BY ConstantsOK DEF Times
<1>2. \E u \in S : \A n \in S : u <= n
  BY <1>1, LeastMember
<1>3. \E u \in S : \A x \in X : u <= d[x]
  BY <1>2
<1>4. m \in S /\ \A x \in X : m <= d[x]
  BY <1>3
<1> QED
  BY <1>1, <1>4

(* UpdateTimerLocked leaves the timer set for every task of the queue.     *)
LEMMA UpdateTimerLemma ==
  ASSUME due' \in [Tasks -> Times], now \in Times, now' = now, UpdateTimer
  PROVE  /\ timer' \in Times \cup {timer}
         /\ \A x \in In("platform")' : timer' \in Times /\ timer' <= Later(due'[x], now')
<1>1. CASE In("platform")' = {}
  BY <1>1 DEF UpdateTimer
<1>2. CASE In("platform")' # {}
  <2>1. In("platform")' \in SUBSET Tasks
    BY DEF In
  <2>2. /\ Earliest("platform")' \in Times
        /\ \A x \in In("platform")' : Earliest("platform")' <= due'[x]
    BY <1>2, <2>1, EarliestLemma DEF Earliest
  <2>3. timer' = Later(Earliest("platform")', now)
    BY <1>2 DEF UpdateTimer
  <2> QED
    BY <2>1, <2>2, <2>3, ConstantsOK DEF Later, Times
<1> QED
  BY <1>1, <1>2

-----------------------------------------------------------------------------
(* The initial state satisfies the invariant.                              *)
LEMMA InitInv == Init => IInv
<1> SUFFICES ASSUME Init PROVE IInv
  OBVIOUS
<1>1. TypeOK
  <2>1. 0 \in Times /\ <<>> \in Seq({"enable", "disable"})
    BY ConstantsOK DEF Times
  <2>2. /\ place \in [Tasks -> Queues \cup {"taken", "free"}] /\ due \in [Tasks -> Times]
        /\ thread \in [Threads -> {"idle", "release", "acquire", "wake", "wakeBoth",
                                   "wakeUi", "posted"}]
    BY <2>1 DEF Init, Queues
  <2>3. mix \in Mixes /\ host \in AllHosts
    BY ConstantsOK DEF Init
  <2> QED
    BY <2>1, <2>2, <2>3 DEF Init, TypeOK, Latches, Queues, Fds
<1>2. PassShape
  BY DEF Init, PassShape
<1>3. RequestsCovered /\ PostedCovered /\ UiCovered /\ TimerCovers
  BY DEF Init, RequestsCovered, NewPassComes, PostedCovered, UiCovered, TimerCovers, In
<1>4. DisableOnItsWay /\ ResumeComes
  BY DEF Init, DisableOnItsWay, ResumeComes, Coming
<1> QED
  BY <1>1, <1>2, <1>3, <1>4 DEF IInv

(* Every step of the threads, the seat manager and the loop keeps it.      *)
LEMMA Step == IInv /\ [Next]_vars => IInv'
<1> SUFFICES ASSUME IInv, [Next]_vars PROVE IInv'
  OBVIOUS
<1> USE ConstantsOK
    DEF IInv, TypeOK, PassShape, RequestsCovered, PostedCovered, UiCovered, TimerCovers,
        DisableOnItsWay, ResumeComes, Resuming, Coming, NewPassComes, WakeComes,
        Before, Owes, Handling, Draining, In, Times, Latches, Queues, Fds, Later,
        tasks, fds, pass, seat, UiPolled, OnMainThread
<1>1. ASSUME NEW t \in Threads, VtRelease(t) PROVE IInv'
  <2>1. TypeOK'
    BY <1>1 DEF VtRelease, May, Goes
  <2>2. PassShape'
    BY <1>1 DEF VtRelease, May, Goes
  <2>3. RequestsCovered'
    BY <1>1 DEF VtRelease, May, Goes
  <2>4. PostedCovered'
    BY <1>1 DEF VtRelease, May, Goes
  <2>5. UiCovered'
    BY <1>1 DEF VtRelease, May, Goes
  <2>6. TimerCovers'
    BY <1>1 DEF VtRelease, May, Goes
  <2>7. DisableOnItsWay'
    BY <1>1 DEF VtRelease, May, Goes
  <2>8. ResumeComes'
    BY <1>1 DEF VtRelease, May, Goes
  <2> QED
    BY <2>1, <2>2, <2>3, <2>4, <2>5, <2>6, <2>7, <2>8
<1>2. ASSUME NEW t \in Threads, VtAcquire(t) PROVE IInv'
  BY <1>2 DEF VtAcquire, May, Goes
<1>3. ASSUME NEW t \in Threads, QueueTeardown(t) PROVE IInv'
  BY <1>3 DEF QueueTeardown, May, Goes
<1>4. ASSUME NEW t \in Threads, Shutdown(t) PROVE IInv'
  <2>1. TypeOK'
    <3>1. {running', pipe', uiPipe', eventfd', vtActive'} \subseteq BOOLEAN
      BY <1>4 DEF Shutdown
    <3> QED
      BY <1>4, <3>1 DEF Shutdown, Goes
  <2>2. PassShape'
    BY <1>4 DEF Shutdown, May, Goes
  <2>3. RequestsCovered'
    BY <1>4 DEF Shutdown, May, Goes
  <2>4. PostedCovered'
    BY <1>4 DEF Shutdown, May, Goes
  <2>5. UiCovered'
    BY <1>4 DEF Shutdown, May, Goes
  <2>6. TimerCovers'
    BY <1>4 DEF Shutdown, May, Goes
  <2>7. DisableOnItsWay'
    BY <1>4 DEF Shutdown, May, Goes
  <2>8. ResumeComes'
    BY <1>4 DEF Shutdown, May, Goes
  <2> QED
    BY <2>1, <2>2, <2>3, <2>4, <2>5, <2>6, <2>7, <2>8
<1>5. ASSUME NEW t \in Threads, NEW y \in Tasks, PostCallback(t, y) PROVE IInv'
  BY <1>5 DEF PostCallback, May, Goes, Put
<1>6. ASSUME NEW t \in Threads, Latch(t) PROVE IInv'
  BY <1>6 DEF Latch, Goes
<1>7. ASSUME NEW t \in Threads, Wake(t) PROVE IInv'
  <2>1. TypeOK'
    BY <1>7 DEF Wake, Goes
  <2>2. PassShape'
    BY <1>7 DEF Wake, Goes
  <2>3. RequestsCovered'
    BY <1>7 DEF Wake, Goes
  <2>4. PostedCovered'
    BY <1>7 DEF Wake, Goes
  <2>5. UiCovered'
    BY <1>7 DEF Wake, Goes
  <2>6. TimerCovers'
    BY <1>7 DEF Wake, Goes
  <2>7. DisableOnItsWay'
    BY <1>7 DEF Wake, Goes
  <2>8. ResumeComes'
    BY <1>7 DEF Wake, Goes
  <2> QED
    BY <2>1, <2>2, <2>3, <2>4, <2>5, <2>6, <2>7, <2>8
<1>8. ASSUME NEW t \in Threads, WakeUi(t) PROVE IInv'
  BY <1>8 DEF WakeUi, Goes
<1>9. ASSUME NEW t \in Threads, SignalEventfd(t) PROVE IInv'
  BY <1>9 DEF SignalEventfd, Goes
<1>10. ASSUME NEW y \in Tasks, NEW d \in Times, PostTask(y, d) PROVE IInv'
  <2>1. due' \in [Tasks -> Times] /\ UpdateTimer /\ now' = now
    BY <1>10 DEF PostTask, May, Put
  <2>2. /\ timer' \in Times \cup {timer}
        /\ \A x \in In("platform")' : timer' \in Times /\ timer' <= Later(due'[x], now')
    BY <2>1, UpdateTimerLemma
  <2>3. TypeOK'
    BY <1>10, <2>2 DEF PostTask, May, Put
  <2>4. PassShape'
    BY <1>10 DEF PostTask, May, Put
  <2>5. RequestsCovered'
    BY <1>10 DEF PostTask, May, Put
  <2>6. PostedCovered'
    BY <1>10 DEF PostTask, May, Put
  <2>7. UiCovered'
    BY <1>10 DEF PostTask, May, Put
  <2>8. TimerCovers'
    BY <1>10, <2>2 DEF PostTask, May, Put
  <2>9. DisableOnItsWay'
    BY <1>10 DEF PostTask, May, Put
  <2>10. ResumeComes'
    BY <1>10 DEF PostTask, May, Put
  <2> QED
    BY <2>3, <2>4, <2>5, <2>6, <2>7, <2>8, <2>9, <2>10
<1>11. ASSUME NEW y \in Tasks, NEW d \in Times, PostUiTask(y, d) PROVE IInv'
  BY <1>11 DEF PostUiTask, May, Put
<1>12. CASE Tick
  BY <1>12 DEF Tick
<1>13. CASE SeatDisables
  BY <1>13 DEF SeatDisables, May
<1>14. CASE SeatEnables
  BY <1>14, SMTT(60) DEF SeatEnables, May
<1>15. CASE Run
  BY <1>15 DEF Run
<1>16. CASE TestRunning
  BY <1>16 DEF TestRunning
<1>17. CASE TakeRelease
  BY <1>17 DEF TakeRelease, Take
<1>18. CASE TakeTeardowns
  BY <1>18 DEF TakeTeardowns, Take
<1>19. CASE TakeDisable
  BY <1>19 DEF TakeDisable, Take
<1>20. CASE AckDisable
  BY <1>20 DEF AckDisable
<1>21. CASE TakeEnable
  BY <1>21 DEF TakeEnable, Take
<1>22. CASE TakeAcquire
  BY <1>22 DEF TakeAcquire, Take
<1>23. CASE Activate
  BY <1>23 DEF Activate
<1>24. CASE ReadTimer
  BY <1>24 DEF ReadTimer
<1>25. CASE SampleTime
  BY <1>25 DEF SampleTime
<1>26. CASE TakeTasks
  BY <1>26 DEF TakeTasks
<1>27. ASSUME NEW y \in Tasks, RunTask(y) PROVE IInv'
  BY <1>27 DEF RunTask
<1>28. CASE EndDrain
  <2>1. due' \in [Tasks -> Times] /\ now' = now /\ UNCHANGED place
    BY <1>28 DEF EndDrain
  <2>2. draining = "platform" =>
          /\ timer' \in Times \cup {timer}
          /\ \A x \in In("platform")' : timer' \in Times /\ timer' <= Later(due'[x], now')
    BY <1>28, <2>1, UpdateTimerLemma DEF EndDrain
  <2>3. draining # "platform" => UNCHANGED timer
    BY <1>28 DEF EndDrain
  <2>4. TypeOK'
    BY <1>28, <2>2, <2>3 DEF EndDrain
  <2>5. PassShape'
    BY <1>28 DEF EndDrain
  <2>6. RequestsCovered'
    BY <1>28 DEF EndDrain
  <2>7. PostedCovered'
    BY <1>28 DEF EndDrain
  <2>8. UiCovered'
    BY <1>28 DEF EndDrain
  <2>9. TimerCovers'
    BY <1>28, <2>1, <2>2, <2>3 DEF EndDrain
  <2>10. DisableOnItsWay'
    BY <1>28 DEF EndDrain
  <2>11. ResumeComes'
    BY <1>28 DEF EndDrain
  <2> QED
    BY <2>4, <2>5, <2>6, <2>7, <2>8, <2>9, <2>10, <2>11
<1>29. CASE SetTimeout
  <2>1. /\ until' \in Times \cup {None}
        /\ OnMainThread =>
             \A x \in In("ui") : until' \in Times /\ until' <= Later(due[x], now)
    <3>1. CASE ~OnMainThread \/ In("ui") = {}
      BY <1>29, <3>1 DEF SetTimeout
    <3>2. CASE OnMainThread /\ In("ui") # {}
      <4>1. Earliest("ui") \in Times /\ \A x \in In("ui") : Earliest("ui") <= due[x]
        BY <3>2, EarliestLemma DEF Earliest
      <4> QED
        BY <1>29, <3>2, <4>1 DEF SetTimeout
    <3> QED
      BY <3>1, <3>2
  <2>2. TypeOK'
    BY <1>29, <2>1 DEF SetTimeout
  <2>3. PassShape'
    BY <1>29 DEF SetTimeout
  <2>4. RequestsCovered'
    BY <1>29 DEF SetTimeout
  <2>5. PostedCovered'
    BY <1>29 DEF SetTimeout
  <2>6. UiCovered'
    BY <1>29, <2>1 DEF SetTimeout
  <2>7. TimerCovers'
    BY <1>29 DEF SetTimeout
  <2>8. DisableOnItsWay'
    BY <1>29 DEF SetTimeout
  <2>9. ResumeComes'
    BY <1>29 DEF SetTimeout
  <2> QED
    BY <2>2, <2>3, <2>4, <2>5, <2>6, <2>7, <2>8, <2>9
<1>30. CASE WakeUp
  BY <1>30 DEF WakeUp, Passed, Readable
<1>31. CASE DrainPipe
  <2>1. TypeOK'
    BY <1>31 DEF DrainPipe, Handle
  <2>2. PassShape'
    BY <1>31 DEF DrainPipe, Handle
  <2>3. RequestsCovered'
    BY <1>31 DEF DrainPipe, Handle
  <2>4. PostedCovered'
    BY <1>31 DEF DrainPipe, Handle
  <2>5. UiCovered'
    BY <1>31 DEF DrainPipe, Handle
  <2>6. TimerCovers'
    BY <1>31 DEF DrainPipe, Handle
  <2>7. DisableOnItsWay'
    BY <1>31 DEF DrainPipe, Handle
  <2>8. ResumeComes'
    BY <1>31 DEF DrainPipe, Handle
  <2> QED
    BY <2>1, <2>2, <2>3, <2>4, <2>5, <2>6, <2>7, <2>8
<1>32. CASE HandleUi
  <2>1. TypeOK'
    BY <1>32 DEF HandleUi, Handle
  <2>2. PassShape'
    BY <1>32 DEF HandleUi, Handle
  <2>3. RequestsCovered'
    BY <1>32 DEF HandleUi, Handle
  <2>4. PostedCovered'
    BY <1>32 DEF HandleUi, Handle
  <2>5. UiCovered'
    BY <1>32 DEF HandleUi, Handle
  <2>6. TimerCovers'
    BY <1>32 DEF HandleUi, Handle
  <2>7. DisableOnItsWay'
    BY <1>32 DEF HandleUi, Handle
  <2>8. ResumeComes'
    BY <1>32 DEF HandleUi, Handle
  <2> QED
    BY <2>1, <2>2, <2>3, <2>4, <2>5, <2>6, <2>7, <2>8
<1>33. CASE HandlePosted
  BY <1>33 DEF HandlePosted, Handle
<1>34. CASE HandleTimer
  BY <1>34 DEF HandleTimer, Handle
<1>35. CASE Dispatch
  BY <1>35 DEF Dispatch, Handle
<1>36. CASE EndPass
  BY <1>36 DEF EndPass
<1>37. CASE UNCHANGED vars
  BY <1>37 DEF vars
<1> QED
  BY <1>1, <1>2, <1>3, <1>4, <1>5, <1>6, <1>7, <1>8, <1>9, <1>10, <1>11,
     <1>12, <1>13, <1>14, <1>15, <1>16, <1>17, <1>18, <1>19, <1>20, <1>21, <1>22,
     <1>23, <1>24, <1>25, <1>26, <1>27, <1>28, <1>29, <1>30, <1>31, <1>32, <1>33,
     <1>34, <1>35, <1>36, <1>37
     DEF Next, ThreadStep, LoopStep

-----------------------------------------------------------------------------
(* IInv holds in every reachable state.                                    *)
THEOREM InductiveInvariant == Spec => []IInv
BY InitInv, Step, PTL DEF Spec

(* The variables keep their types; in particular the timer and the timeout *)
(* of epoll_wait never point past the last target time.                    *)
THEOREM TypeCorrect == Spec => []TypeOK
<1>1. IInv => TypeOK
  BY DEF IInv
<1> QED
  BY InductiveInvariant, <1>1, PTL

(* The loop never blocks past a request, a task or a callback              *)
(* (fl_drm_view.cc:55), nor past a UI task where it polls the UI pipe:     *)
(* PlatformThreadEntry, WakePlatformThread and FlDrmTaskRunner leave no    *)
(* window, for any number of threads and tasks.                            *)
THEOREM NothingIsSleptThrough == Spec => []NoLostWakeup
<1>1. IInv => NoLostWakeup
  BY DEF IInv, NoLostWakeup, RequestsCovered, PostedCovered, UiCovered, TimerCovers,
         PassShape, NewPassComes, WakeComes, Before, Draining, Handling, TypeOK, Latches
<1> QED
  BY InductiveInvariant, <1>1, PTL

(* No order of releases and acquires, or of disables and enables, leaves a *)
(* session that is ours without presents once everything is handled.       *)
THEOREM ReturnIsNotForgotten == Spec => []SessionIsResumed
<1>1. IInv => SessionIsResumed
  <2> SUFFICES ASSUME IInv, AtRest, session = "active", ~vtActive
               PROVE  FALSE
    BY DEF SessionIsResumed, IInv, TypeOK
  <2> USE DEF IInv, TypeOK, AtRest, Readable
  <2>1. ~pipe /\ events = <<>> /\ ~Owes({"wake", "wakeBoth"}) /\ ~Owes({"acquire"})
    BY DEF Fds, Owes
  <2>2. latched = {}
    BY <2>1 DEF RequestsCovered, PassShape, NewPassComes, WakeComes, Before, Handling,
                Draining, Latches
  <2> QED
    BY <2>1, <2>2 DEF ResumeComes, Resuming, Coming
<1> QED
  BY InductiveInvariant, <1>1, PTL
=============================================================================
