------------------------------ MODULE EventLoop -----------------------------
(***************************************************************************)
(* The platform loop of FlDrmView (PlatformThreadEntry), what wakes it and *)
(* what it waits for: requests latched by signal handlers and other        *)
(* threads with a byte in the wakeup pipe, the session's enable and        *)
(* disable events from libseat, engine tasks in FlDrmTaskRunner with its   *)
(* timerfd, UI tasks with a pipe of their own, and callbacks posted        *)
(* through an eventfd.  epoll_wait has no timeout unless a UI task is      *)
(* queued, so whatever is not written to one of these is not seen.  UI     *)
(* tasks are run on the main thread, the one that created the view, and    *)
(* their pipe is polled only if libdispatch's handle was found as well.    *)
(*                                                                         *)
(* A critical section is one action.  What the tasks, the callbacks and    *)
(* the other fds of the set (DRM, libinput, udev, GCD) do is not here.     *)
(***************************************************************************)
EXTENDS Naturals, Sequences

CONSTANTS
  Threads,   \* threads, or signal handlers on them, in the midst of a setter
  Tasks,
  MaxTime,   \* bound: the clock and the target times of tasks
  Mixes,     \* which kinds of stimuli may occur together in one behaviour
  Hosts,     \* of each mix, where fl_drm_view_run may be called: see AllHosts
  None

Times == 0..MaxTime

Stimuli == {"vt", "seat", "teardown", "shutdown", "task", "uiTask", "callback"}

(* On the main thread; there, but in a process without libdispatch; or on  *)
(* another thread.                                                         *)
AllHosts == {"main", "noDispatch", "background"}

ASSUME ConstantsOK ==
  /\ MaxTime \in Nat /\ None \notin Times
  /\ Mixes \subseteq SUBSET Stimuli /\ Hosts \in [Mixes -> SUBSET AllHosts]
  /\ \A m \in Mixes : ~({"vt", "seat"} \subseteq m)   \* direct or libseat mode

Latches == {"release", "acquire", "teardown", "disable", "enable"}
Queues  == {"platform", "ui", "posted"}
Fds     == {"pipe", "ui", "posted", "timer", "seat"}

VARIABLES
  now,
  running,
  latched,       \* g_vt_pending_*, pending_teardowns, pending_enable_, pending_disable_
  thread,        \* what each thread has still to do in its setter
  pipe, uiPipe, eventfd,   \* something is written and not yet read
  timer,         \* when the timerfd fires or has fired unread; None: disarmed
  place, due,    \* of each task: its queue, "taken" or "free"; its target time
  plat,          \* where the platform thread is
  resume,        \* it drains a queue at the "top" of a pass or as it "handle"s an fd
  draining,      \* the queue it drains
  sampled,       \* its local "now"
  until,         \* when the timeout of epoll_wait ends; None: never
  ready,         \* events not yet handled
  mix, host,     \* the stimuli and the host of this behaviour
  session,       \* "active", "away", or "leaving": a disable is not acknowledged
  events,        \* libseat events not yet read
  vtActive

tasks   == <<place, due>>
fds     == <<pipe, uiPipe, eventfd, timer>>
pass    == <<resume, draining, sampled, until, ready>>
seat    == <<mix, host, session, events>>
vars == <<now, running, latched, thread, fds, tasks, plat, pass, seat, vtActive>>

OnMainThread == host # "background"
UiPolled == host = "main"

Later(a, b) == IF a > b THEN a ELSE b
Passed(t) == t # None /\ t <= now
In(q) == {x \in Tasks : place[x] = q}
Earliest(q) == CHOOSE t \in {due[x] : x \in In(q)} : \A x \in In(q) : t <= due[x]

Init ==
  /\ now = 0 /\ running = FALSE /\ latched = {}
  /\ thread = [t \in Threads |-> "idle"]
  /\ pipe = FALSE /\ uiPipe = FALSE /\ eventfd = FALSE /\ timer = None
  /\ place = [x \in Tasks |-> "free"] /\ due = [x \in Tasks |-> 0]
  /\ plat = "created" /\ resume = "top" /\ draining = "platform" /\ sampled = 0
  /\ until = None /\ ready = {}
  /\ mix \in Mixes /\ host \in Hosts[mix] /\ session = "active" /\ events = <<>>
  /\ vtActive = TRUE

Tick ==
  /\ mix \cap {"task", "uiTask"} # {}      \* nothing else reads the clock
  /\ now < MaxTime /\ now' = now + 1
  /\ UNCHANGED <<running, latched, thread, fds, tasks, plat, pass, seat, vtActive>>

-----------------------------------------------------------------------------
(* Other threads and signal handlers.                                      *)

(* Only what the mix allows happens, and nothing to a destroyed view.      *)
May(stimulus) == stimulus \in mix /\ plat # "exited"

Goes(t, there) == thread' = [thread EXCEPT ![t] = there]

(* VtReleaseHandler, to its acknowledgement: the kernel then takes the VT. *)
VtRelease(t) ==
  /\ May("vt") /\ thread[t] = "idle" /\ session = "active"
  /\ plat # "created"
  /\ vtActive' = FALSE /\ session' = "away"
  /\ Goes(t, "release")
  /\ UNCHANGED <<now, running, latched, fds, tasks, plat, pass, mix, host, events>>

(* VtAcquireHandler, to its acknowledgement.                               *)
VtAcquire(t) ==
  /\ May("vt") /\ thread[t] = "idle" /\ session = "away"
  /\ session' = "active"
  /\ Goes(t, "acquire")
  /\ UNCHANGED <<now, running, latched, fds, tasks, plat, pass, mix, host, events,
                 vtActive>>

(* The handler latches its flag ...                                        *)
Latch(t) ==
  /\ thread[t] \in {"release", "acquire"}
  /\ latched' = latched \cup {thread[t]}
  /\ Goes(t, "wake")
  /\ UNCHANGED <<now, running, fds, tasks, plat, pass, seat, vtActive>>

(* Mutant: the platform thread is not woken for the teardown.              *)
QueueTeardownQuietly(t) ==
  /\ May("teardown") /\ thread[t] = "idle"
  /\ latched' = latched \cup {"teardown"}
  /\ UNCHANGED <<now, running, thread, fds, tasks, plat, pass, seat, vtActive>>

(* The engine has removed a view: its teardown is queued.                  *)
QueueTeardown(t) ==
  /\ May("teardown") /\ thread[t] = "idle"
  /\ latched' = latched \cup {"teardown"}
  /\ Goes(t, "wake")
  /\ UNCHANGED <<now, running, fds, tasks, plat, pass, seat, vtActive>>

(* fl_drm_view_shutdown; a second call is left out, it changes nothing.    *)
Shutdown(t) ==
  /\ May("shutdown") /\ thread[t] = "idle" /\ (running \/ plat = "created")
  /\ running' = FALSE
  /\ Goes(t, "wakeBoth")
  /\ UNCHANGED <<now, latched, fds, tasks, plat, pass, seat, vtActive>>

(* ... WakePlatformThread, which finds no pipe until run has made it ...   *)
Wake(t) ==
  /\ thread[t] \in {"wake", "wakeBoth"}
  /\ pipe' = (pipe \/ plat # "created")
  /\ Goes(t, IF thread[t] = "wake" THEN "idle" ELSE "wakeUi")
  /\ UNCHANGED <<now, running, latched, uiPipe, eventfd, timer, tasks, plat, pass,
                 seat, vtActive>>

(* ... and a shutdown's byte for the UI pipe.                              *)
WakeUi(t) ==
  /\ thread[t] = "wakeUi"
  /\ uiPipe' = TRUE
  /\ Goes(t, "idle")
  /\ UNCHANGED <<now, running, latched, pipe, eventfd, timer, tasks, plat, pass,
                 seat, vtActive>>

Put(x, q, d) ==
  /\ place[x] = "free"
  /\ place' = [place EXCEPT ![x] = q] /\ due' = [due EXCEPT ![x] = d]

(* Mutant: the target is taken for a delay.                                *)
UpdateTimerRelative ==
  timer' = IF In("platform")' = {} THEN timer ELSE now + Earliest("platform")'

(* UpdateTimerLocked: one shot, at the earliest target or at once.         *)
UpdateTimer ==
  timer' = IF In("platform")' = {} THEN timer ELSE Later(Earliest("platform")', now)

(* Mutant: the timer is set only for the first task of the queue.          *)
PostTaskArmsOnce(x, d) ==
  /\ May("task") /\ Put(x, "platform", d)
  /\ IF In("platform") = {} THEN UpdateTimer ELSE UNCHANGED timer
  /\ UNCHANGED <<now, running, latched, thread, pipe, uiPipe, eventfd, plat, pass,
                 seat, vtActive>>

(* FlDrmTaskRunner::PostTask.                                              *)
PostTask(x, d) ==
  /\ May("task") /\ Put(x, "platform", d) /\ UpdateTimer
  /\ UNCHANGED <<now, running, latched, thread, pipe, uiPipe, eventfd, plat, pass,
                 seat, vtActive>>

(* The UI task runner's post_task_callback; its byte is written with the   *)
(* mutex held.                                                             *)
PostUiTask(x, d) ==
  /\ May("uiTask") /\ Put(x, "ui", d) /\ uiPipe' = TRUE
  /\ UNCHANGED <<now, running, latched, thread, pipe, eventfd, timer, plat, pass,
                 seat, vtActive>>

(* fl_drm_view_post_task: queued under the mutex ...                       *)
PostCallback(t, x) ==
  /\ May("callback") /\ thread[t] = "idle"
  /\ Put(x, "posted", 0)
  /\ Goes(t, "posted")
  /\ UNCHANGED <<now, running, latched, fds, plat, pass, seat, vtActive>>

(* ... and announced after it is unlocked.                                 *)
SignalEventfd(t) ==
  /\ thread[t] = "posted"
  /\ eventfd' = TRUE
  /\ Goes(t, "idle")
  /\ UNCHANGED <<now, running, latched, pipe, uiPipe, timer, tasks, plat, pass,
                 seat, vtActive>>

(* The seat manager: after a disable it waits for the acknowledgement.     *)
SeatDisables ==
  /\ May("seat") /\ session = "active"
  /\ session' = "leaving" /\ events' = Append(events, "disable")
  /\ UNCHANGED <<now, running, latched, thread, fds, tasks, plat, pass, mix,
                 host, vtActive>>

SeatEnables ==
  /\ May("seat") /\ session = "away"
  /\ session' = "active" /\ events' = Append(events, "enable")
  /\ UNCHANGED <<now, running, latched, thread, fds, tasks, plat, pass, mix,
                 host, vtActive>>

-----------------------------------------------------------------------------
(* The platform thread: the top of a pass looks at one latch after another.*)

(* fl_drm_view_run: the pipe is made, and running set.                     *)
Run ==
  /\ plat = "created"
  /\ running' = TRUE /\ plat' = "test"
  /\ UNCHANGED <<now, latched, thread, fds, tasks, pass, seat, vtActive>>

TestRunning ==
  /\ plat = "test"
  /\ plat' = IF running THEN "release" ELSE "exited"
  /\ UNCHANGED <<now, running, latched, thread, fds, tasks, pass, seat, vtActive>>

(* A flag is cleared before it is acted on.                                *)
Take(flag, next, else) ==
  /\ plat = flag
  /\ latched' = latched \ {flag}
  /\ plat' = IF flag \in latched THEN next ELSE else

(* Mutant: the loop marks the VT inactive, not only the signal handler.    *)
TakeReleaseDarkens ==
  /\ Take("release", "teardown", "teardown")
  /\ vtActive' = (vtActive /\ "release" \notin latched)
  /\ UNCHANGED <<now, running, thread, fds, tasks, pass, seat>>

(* All keys are released, or queued teardowns completed.                   *)
TakeRelease ==
  /\ Take("release", "teardown", "teardown")
  /\ UNCHANGED <<now, running, thread, fds, tasks, pass, seat, vtActive>>

TakeTeardowns ==
  /\ Take("teardown", "disable", "disable")
  /\ UNCHANGED <<now, running, thread, fds, tasks, pass, seat, vtActive>>

(* TakePendingDisable: input is suspended ...                              *)
TakeDisable ==
  /\ Take("disable", "ack", "enable")
  /\ vtActive' = (vtActive /\ "disable" \notin latched)
  /\ UNCHANGED <<now, running, thread, fds, tasks, pass, seat>>

(* ... and the disable acknowledged.                                       *)
AckDisable ==
  /\ plat = "ack"
  /\ session' = "away" /\ plat' = "enable"
  /\ UNCHANGED <<now, running, latched, thread, fds, tasks, pass, mix, host, events,
                 vtActive>>

(* TakePendingEnable, g_vt_pending_acquire: every chain is restored ...    *)
TakeEnable ==
  /\ Take("enable", "enabled", "acquire")
  /\ UNCHANGED <<now, running, thread, fds, tasks, pass, seat, vtActive>>

TakeAcquire ==
  /\ Take("acquire", "acquired", "read")
  /\ UNCHANGED <<now, running, thread, fds, tasks, pass, seat, vtActive>>

(* ... then presents may go on, and a frame is scheduled.                  *)
Activate ==
  /\ plat \in {"enabled", "acquired"}
  /\ vtActive' = TRUE
  /\ plat' = IF plat = "enabled" THEN "acquire" ELSE "read"
  /\ UNCHANGED <<now, running, latched, thread, fds, tasks, pass, seat>>

-----------------------------------------------------------------------------
(* DrainExpired, DrainUITasks and the posted callbacks: both at the top of *)
(* a pass, and when their fd is ready.                                     *)

ReadTimer ==
  /\ plat = "read"
  /\ timer' = IF Passed(timer) THEN None ELSE timer
  /\ plat' = "sample"
  /\ UNCHANGED <<now, running, latched, thread, pipe, uiPipe, eventfd, tasks, pass,
                 seat, vtActive>>

SampleTime ==
  /\ plat = "sample"
  /\ sampled' = now /\ plat' = "take"
  /\ UNCHANGED <<now, running, latched, thread, fds, tasks, resume, draining, until,
                 ready, seat, vtActive>>

(* Under the queue's mutex.  A posted callback has target time 0.          *)
TakeTasks ==
  /\ plat = "take"
  /\ place' = [x \in Tasks |-> IF place[x] = draining /\ due[x] <= sampled
                               THEN "taken" ELSE place[x]]
  /\ plat' = "run"
  /\ UNCHANGED <<now, running, latched, thread, fds, due, pass, seat, vtActive>>

RunTask(x) ==
  /\ plat = "run" /\ place[x] = "taken"
  /\ place' = [place EXCEPT ![x] = "free"] /\ due' = [due EXCEPT ![x] = 0]
  /\ UNCHANGED <<now, running, latched, thread, fds, plat, pass, seat, vtActive>>

(* Mutant: the eventfd is read once more when the callbacks have run.      *)
EndDrainReadsAgain ==
  /\ plat = "run" /\ In("taken") = {}
  /\ UNCHANGED <<now, running, latched, thread, pipe, uiPipe, tasks, resume,
                 until, ready, seat, vtActive>>
  /\ eventfd' = (eventfd /\ draining # "posted")
  /\ sampled' = 0
  /\ IF draining = "platform" THEN UpdateTimer ELSE UNCHANGED timer
  /\ IF resume = "top" /\ draining = "platform" /\ OnMainThread
     THEN plat' = "sample" /\ draining' = "ui"
     ELSE plat' = (IF resume = "top" THEN "timeout" ELSE "handle") /\ draining' = "platform"

(* The taken tasks have run: DrainExpired takes the mutex again and rearms *)
(* the timer for what is left.                                             *)
EndDrain ==
  /\ plat = "run" /\ In("taken") = {}
  /\ UNCHANGED <<now, running, latched, thread, pipe, uiPipe, eventfd, tasks, resume,
                 until, ready, seat, vtActive>>
  /\ sampled' = 0
  /\ IF draining = "platform" THEN UpdateTimer ELSE UNCHANGED timer
  /\ IF resume = "top" /\ draining = "platform" /\ OnMainThread
     THEN plat' = "sample" /\ draining' = "ui"
     ELSE plat' = (IF resume = "top" THEN "timeout" ELSE "handle") /\ draining' = "platform"

-----------------------------------------------------------------------------
(* Waiting, and handling what is ready.                                    *)

(* Under ui_mutex, on the main thread: the earliest UI task bounds the     *)
(* wait.                                                                   *)
SetTimeout ==
  /\ plat = "timeout"
  /\ until' = IF ~OnMainThread \/ In("ui") = {} THEN None ELSE Later(Earliest("ui"), now)
  /\ plat' = "wait"
  /\ UNCHANGED <<now, running, latched, thread, fds, tasks, resume, draining, sampled,
                 ready, seat, vtActive>>

Readable ==
  {fd \in Fds :
     \/ fd = "pipe" /\ pipe
     \/ fd = "ui" /\ uiPipe /\ UiPolled
     \/ fd = "posted" /\ eventfd
     \/ fd = "timer" /\ Passed(timer)
     \/ fd = "seat" /\ events # <<>>}

(* epoll_wait returns.                                                     *)
WakeUp ==
  /\ plat = "wait"
  /\ Readable # {} \/ Passed(until)
  /\ ready' = Readable /\ until' = None
  /\ plat' = "handle" /\ resume' = "handle"
  /\ UNCHANGED <<now, running, latched, thread, fds, tasks, draining, sampled, seat,
                 vtActive>>

Handle(fd) == plat = "handle" /\ fd \in ready /\ ready' = ready \ {fd}

(* The pipe is only drained: the next pass looks at the flags.             *)
DrainPipe ==
  /\ Handle("pipe")
  /\ pipe' = FALSE
  /\ UNCHANGED <<now, running, latched, thread, uiPipe, eventfd, timer, tasks, plat,
                 resume, draining, sampled, until, seat, vtActive>>

HandleUi ==
  /\ Handle("ui")
  /\ uiPipe' = FALSE
  /\ plat' = "sample" /\ draining' = "ui"
  /\ UNCHANGED <<now, running, latched, thread, pipe, eventfd, timer, tasks, resume,
                 sampled, until, seat, vtActive>>

HandlePosted ==
  /\ Handle("posted")
  /\ eventfd' = FALSE
  /\ plat' = "take" /\ draining' = "posted"
  /\ UNCHANGED <<now, running, latched, thread, pipe, uiPipe, timer, tasks, resume,
                 sampled, until, seat, vtActive>>

HandleTimer ==
  /\ Handle("timer")
  /\ plat' = "read" /\ draining' = "platform"
  /\ UNCHANGED <<now, running, latched, thread, fds, tasks, resume, sampled, until,
                 seat, vtActive>>

(* libseat_dispatch runs the callback of every event that has come.        *)
Dispatch ==
  /\ Handle("seat")
  /\ latched' = latched \cup {events[i] : i \in DOMAIN events}
  /\ events' = <<>>
  /\ UNCHANGED <<now, running, thread, fds, tasks, plat, resume, draining, sampled,
                 until, mix, host, session, vtActive>>

EndPass ==
  /\ plat = "handle" /\ ready = {}
  /\ plat' = "test" /\ resume' = "top"
  /\ UNCHANGED <<now, running, latched, thread, fds, tasks, draining, sampled, until,
                 ready, seat, vtActive>>

-----------------------------------------------------------------------------
ThreadStep(t) == Latch(t) \/ Wake(t) \/ WakeUi(t) \/ SignalEventfd(t)

LoopStep ==
  \/ TestRunning \/ TakeRelease \/ TakeTeardowns \/ TakeDisable \/ AckDisable
  \/ TakeEnable \/ TakeAcquire \/ Activate
  \/ ReadTimer \/ SampleTime \/ TakeTasks \/ EndDrain
  \/ \E x \in Tasks : RunTask(x)
  \/ SetTimeout \/ WakeUp
  \/ DrainPipe \/ HandleUi \/ HandlePosted \/ HandleTimer \/ Dispatch \/ EndPass

Next ==
  \/ Tick
  \/ \E t \in Threads :
       \/ VtRelease(t) \/ VtAcquire(t) \/ QueueTeardown(t) \/ Shutdown(t)
       \/ \E x \in Tasks : PostCallback(t, x)
       \/ ThreadStep(t)
  \/ \E x \in Tasks, d \in Times : PostTask(x, d) \/ PostUiTask(x, d)
  \/ SeatDisables \/ SeatEnables
  \/ Run \/ LoopStep

Spec == Init /\ [][Next]_vars

(* Time passes, the loop goes on, and a setter that has begun ends.  Nobody*)
(* has to call run.                                                        *)
FairSpec ==
  Spec /\ WF_vars(Tick) /\ WF_vars(LoopStep) /\ \A t \in Threads : WF_vars(ThreadStep(t))

-----------------------------------------------------------------------------
(* Properties.                                                             *)

TypeOK ==
  /\ now \in Times /\ sampled \in Times
  /\ timer \in Times \cup {None} /\ until \in Times \cup {None}
  /\ {running, pipe, uiPipe, eventfd, vtActive} \subseteq BOOLEAN
  /\ mix \in Mixes /\ host \in AllHosts
  /\ latched \subseteq Latches /\ ready \subseteq Fds
  /\ thread \in [Threads -> {"idle", "release", "acquire", "wake", "wakeBoth",
                             "wakeUi", "posted"}]
  /\ place \in [Tasks -> Queues \cup {"taken", "free"}] /\ due \in [Tasks -> Times]
  /\ plat \in Latches \cup
       {"created", "test", "ack", "enabled", "acquired", "read", "sample", "take",
        "run", "timeout", "wait", "handle", "exited"}
  /\ resume \in {"top", "handle"} /\ draining \in Queues
  /\ session \in {"active", "leaving", "away"}
  /\ events \in Seq({"enable", "disable"})

Owes(what) == \E t \in Threads : thread[t] \in what

(* The loop never blocks past its work ("There is no lost-wakeup race",    *)
(* fl_drm_view.cc:55): at epoll_wait, for each latched request and for a   *)
(* shutdown there is a byte in the pipe or a thread about to write it; for *)
(* a posted callback, the same of the eventfd; a platform task has the     *)
(* timer, set no later than its target, whatever order the queue was filled*)
(* and drained in; and where the UI pipe is polled, a UI task has its byte *)
(* or the timeout.                                                         *)
NoLostWakeup ==
  plat = "wait" =>
    /\ latched # {} \/ ~running => pipe \/ Owes({"wake", "wakeBoth"})
    /\ In("posted") # {} => eventfd \/ Owes({"posted"})
    /\ UiPolled => \A x \in In("ui") : uiPipe \/ (until # None /\ until <= Later(due[x], now))
    /\ \A x \in In("platform") : timer # None /\ timer <= Later(due[x], now)

AtRest == plat = "wait" /\ Readable = {} /\ \A t \in Threads : thread[t] = "idle"

(* When everything has been handled and the session is ours, presents go   *)
(* on: however releases and acquires, or disables and enables, followed    *)
(* one another, no return of the VT is forgotten.                          *)
SessionIsResumed == AtRest /\ session = "active" => vtActive

(* Violated in libseat mode: once the disable is acknowledged nothing is   *)
(* rendered ("Acknowledge a disable AFTER rendering has quiesced",         *)
(* fl_drm_seat.h:57), until the session is enabled again.  An enable and a *)
(* disable read in one dispatch are taken in the wrong order.              *)
AckedSessionStaysDark ==
  AtRest /\ "seat" \in mix /\ session = "away" => ~vtActive

(* A latched request is taken, no flag waits for an unrelated event; and   *)
(* fl_drm_view_run returns after a shutdown (fl_drm_view.h:39).  One that  *)
(* comes before run has set running is lost: run sets it again.            *)
RequestsAreServed ==
  /\ \A f \in Latches :
       plat # "created" /\ f \in latched ~> f \notin latched \/ plat = "exited"
  /\ plat # "created" /\ ~running ~> plat = "exited"

(* A task or callback that is posted is run, a UI task where the UI pipe   *)
(* is polled.                                                              *)
TaskRuns ==
  \A x \in Tasks :
    plat # "created" /\ place[x] # "free" /\ (place[x] = "ui" => UiPolled)
      ~> place[x] = "free" \/ plat = "exited"
=============================================================================
