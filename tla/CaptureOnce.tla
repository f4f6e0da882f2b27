---------------------------- MODULE CaptureOnce ----------------------------
(***************************************************************************)
(* fl_drm_view_capture_texture_once: worker threads ("callers") hand the   *)
(* raster thread a heap-allocated CaptureOnceReq and wait one second for   *)
(* it under the request's own mutex.  Either side may be the last to look  *)
(* at the request; it owns the delete.                                     *)
(*                                                                         *)
(* Reqs are addresses: "new" may return any address that is not allocated, *)
(* one just freed included.  A step that runs with the mutex held and      *)
(* touches nothing but the request is one action.                          *)
(***************************************************************************)
EXTENDS Naturals, Sequences

CONSTANTS
  Callers,   \* threads that call; never the platform thread (fl_drm_view.h:245)
  Reqs,      \* heap addresses: bounds the requests alive at once
  NoReq

ASSUME ConstantsOK == NoReq \notin Reqs

VARIABLES
  caller,    \* where each caller is in the call
  req,       \* its local "req"
  rc,        \* its local "rc"; at the end of the call, what it returned
  dst,       \* the memory req->dst points at, one buffer per caller
  alive,     \* allocated requests
  client,    \* req->dst: whose buffer
  lock,      \* req->m
  done, abandoned, result,   \* the request's fields
  raster,    \* the raster task runner's queue
  worker,    \* the raster thread: where it is in CaptureOnceTask
  job,       \* its local "req"
  engineUp   \* FlutterEngineShutdown has not run

callerVars == <<caller, req, rc>>
fields     == <<client, done, abandoned, result>>
rasterVars == <<raster, worker, job>>
vars == <<callerVars, dst, alive, fields, lock, rasterVars, engineUp>>

Init ==
  /\ caller = [c \in Callers |-> "idle"]
  /\ req = [c \in Callers |-> NoReq]
  /\ rc = [c \in Callers |-> "refused"]
  /\ dst = [c \in Callers |-> "old"]
  /\ alive = {} /\ done = {} /\ abandoned = {}
  /\ \E c \in Callers : client = [r \in Reqs |-> c]
  /\ lock = [r \in Reqs |-> "free"]
  /\ result = [r \in Reqs |-> "timeout"]
  /\ raster = <<>> /\ worker = "idle" /\ job = NoReq
  /\ engineUp = TRUE

-----------------------------------------------------------------------------
(* The calling thread.                                                     *)

(* The call ends before any other thread has seen the request: bad         *)
(* arguments, no engine, or a post that failed (and the request deleted).  *)
Refuse(c) ==
  /\ caller[c] = "idle"
  /\ rc' = [rc EXCEPT ![c] = "refused"]
  /\ dst' = [dst EXCEPT ![c] = "old"]
  /\ UNCHANGED <<caller, req, alive, fields, lock, rasterVars, engineUp>>

(* Mutant: the result field has no initialiser.                            *)
PostUninitialised(c) ==
  /\ caller[c] = "idle" /\ engineUp
  /\ \E r \in Reqs \ alive :
       /\ alive' = alive \cup {r}
       /\ client' = [client EXCEPT ![r] = c]
       /\ done' = done \ {r} /\ abandoned' = abandoned \ {r}
       /\ result' = [result EXCEPT ![r] = "garbage"]
       /\ lock' = [lock EXCEPT ![r] = "caller"]
       /\ raster' = Append(raster, r)
       /\ req' = [req EXCEPT ![c] = r]
  /\ dst' = [dst EXCEPT ![c] = "old"]
  /\ caller' = [caller EXCEPT ![c] = "posted"]
  /\ UNCHANGED <<rc, worker, job, engineUp>>

(* new CaptureOnceReq; the mutex is taken before the task is posted.       *)
Post(c) ==
  /\ caller[c] = "idle" /\ engineUp
  /\ \E r \in Reqs \ alive :
       /\ alive' = alive \cup {r}
       /\ client' = [client EXCEPT ![r] = c]
       /\ done' = done \ {r} /\ abandoned' = abandoned \ {r}
       /\ result' = [result EXCEPT ![r] = "timeout"]
       /\ lock' = [lock EXCEPT ![r] = "caller"]
       /\ raster' = Append(raster, r)
       /\ req' = [req EXCEPT ![c] = r]
  /\ dst' = [dst EXCEPT ![c] = "old"]
  /\ caller' = [caller EXCEPT ![c] = "posted"]
  /\ UNCHANGED <<rc, worker, job, engineUp>>

(* wait_for releases the mutex and blocks.                                 *)
StartWait(c) ==
  /\ caller[c] = "posted"
  /\ lock' = [lock EXCEPT ![req[c]] = "free"]
  /\ caller' = [caller EXCEPT ![c] = "waiting"]
  /\ UNCHANGED <<req, rc, dst, alive, fields, rasterVars, engineUp>>

(* One second has passed; the predicate is still to be tested, under the   *)
(* mutex.                                                                  *)
TimeUp(c) ==
  /\ caller[c] = "waiting"
  /\ caller' = [caller EXCEPT ![c] = "timedout"]
  /\ UNCHANGED <<req, rc, dst, alive, fields, lock, rasterVars, engineUp>>

(* Mutant: the last iteration's answer is not looked at again.             *)
TakeResultOnlyInTime(c) ==
  /\ caller[c] = "waiting"
  /\ lock[req[c]] = "free" /\ req[c] \in done
  /\ rc' = [rc EXCEPT ![c] = result[req[c]]]
  /\ caller' = [caller EXCEPT ![c] = "freeing"]
  /\ UNCHANGED <<req, dst, alive, fields, lock, rasterVars, engineUp>>

(* The predicate holds: the result is copied and the mutex released.       *)
TakeResult(c) ==
  /\ caller[c] \in {"waiting", "timedout"}
  /\ lock[req[c]] = "free" /\ req[c] \in done
  /\ rc' = [rc EXCEPT ![c] = result[req[c]]]
  /\ caller' = [caller EXCEPT ![c] = "freeing"]
  /\ UNCHANGED <<req, dst, alive, fields, lock, rasterVars, engineUp>>

(* Mutant: the caller gives up without taking the mutex.                   *)
AbandonUnlocked(c) ==
  /\ caller[c] = "timedout"
  /\ req[c] \notin done
  /\ abandoned' = abandoned \cup {req[c]}
  /\ rc' = [rc EXCEPT ![c] = "timeout"]
  /\ caller' = [caller EXCEPT ![c] = "idle"]
  /\ req' = [req EXCEPT ![c] = NoReq]
  /\ UNCHANGED <<dst, alive, client, done, result, lock, rasterVars, engineUp>>

(* Mutant: the caller deletes the request it gives up on.                  *)
AbandonAndDelete(c) ==
  /\ caller[c] = "timedout"
  /\ lock[req[c]] = "free" /\ req[c] \notin done
  /\ alive' = alive \ {req[c]}
  /\ rc' = [rc EXCEPT ![c] = "timeout"]
  /\ caller' = [caller EXCEPT ![c] = "idle"]
  /\ req' = [req EXCEPT ![c] = NoReq]
  /\ UNCHANGED <<dst, fields, lock, rasterVars, engineUp>>

(* Timed out with the predicate false: the raster thread owns the request. *)
Abandon(c) ==
  /\ caller[c] = "timedout"
  /\ lock[req[c]] = "free" /\ req[c] \notin done
  /\ abandoned' = abandoned \cup {req[c]}
  /\ rc' = [rc EXCEPT ![c] = "timeout"]
  /\ caller' = [caller EXCEPT ![c] = "idle"]
  /\ req' = [req EXCEPT ![c] = NoReq]
  /\ UNCHANGED <<dst, alive, client, done, result, lock, rasterVars, engineUp>>

(* delete req: what the freed memory holds is forgotten.                   *)
Free(r) ==
  /\ alive' = alive \ {r}
  /\ done' = done \ {r} /\ abandoned' = abandoned \ {r}
  /\ result' = [result EXCEPT ![r] = "timeout"]

(* delete req, after the mutex was released.                               *)
Delete(c) ==
  /\ caller[c] = "freeing"
  /\ Free(req[c])
  /\ caller' = [caller EXCEPT ![c] = "idle"]
  /\ req' = [req EXCEPT ![c] = NoReq]
  /\ UNCHANGED <<rc, dst, client, lock, rasterVars, engineUp>>

-----------------------------------------------------------------------------
(* The raster thread: CaptureOnceTask.                                     *)

StartTask ==
  /\ worker = "idle" /\ raster # <<>> /\ engineUp
  /\ job' = Head(raster) /\ raster' = Tail(raster)
  /\ worker' = "locking"
  /\ UNCHANGED <<callerVars, dst, alive, fields, lock, engineUp>>

(* Mutant: "abandoned" is not looked at.                                   *)
LockAndRun ==
  /\ worker = "locking" /\ lock[job] = "free"
  /\ worker' = "running" /\ lock' = [lock EXCEPT ![job] = "worker"]
  /\ UNCHANGED <<callerVars, dst, alive, fields, raster, job, engineUp>>

(* The worker keeps the mutex for the whole of its run; a request already  *)
(* abandoned is unlocked again, to be deleted.                             *)
LockRequest ==
  /\ worker = "locking" /\ lock[job] = "free"
  /\ IF job \in abandoned
     THEN worker' = "freeing" /\ UNCHANGED lock
     ELSE worker' = "running" /\ lock' = [lock EXCEPT ![job] = "worker"]
  /\ UNCHANGED <<callerVars, dst, alive, fields, raster, job, engineUp>>

(* The task ends: result and done are set, the waiter is notified, and the *)
(* mutex is released.                                                      *)
FinishTask(code) ==
  /\ result' = [result EXCEPT ![job] = code]
  /\ done' = done \cup {job}
  /\ lock' = [lock EXCEPT ![job] = "free"]
  /\ worker' = "idle" /\ job' = NoReq
  /\ UNCHANGED <<callerVars, alive, client, abandoned, raster, engineUp>>

(* No GL context, no ES3 or no such texture: nothing is written.           *)
CaptureFails ==
  /\ worker = "running"
  /\ FinishTask("error")
  /\ UNCHANGED dst

(* glReadPixels straight into the caller's memory: it begins ...           *)
BeginRead ==
  /\ worker = "running"
  /\ dst' = [dst EXCEPT ![client[job]] = "torn"]
  /\ worker' = "reading"
  /\ UNCHANGED <<callerVars, alive, fields, lock, raster, job, engineUp>>

(* ... and ends.                                                           *)
EndRead ==
  /\ worker = "reading"
  /\ dst' = [dst EXCEPT ![client[job]] = "pixels"]
  /\ FinishTask("ok")

(* Mutant: the abandoned request is deleted by nobody.                     *)
DropAbandoned ==
  /\ worker = "freeing"
  /\ worker' = "idle" /\ job' = NoReq
  /\ UNCHANGED <<callerVars, dst, alive, fields, lock, raster, engineUp>>

DeleteAbandoned ==
  /\ worker = "freeing"
  /\ Free(job)
  /\ worker' = "idle" /\ job' = NoReq
  /\ UNCHANGED <<callerVars, dst, client, lock, raster, engineUp>>

(* FlutterEngineShutdown joins the raster thread; tasks still queued are   *)
(* never run.                                                              *)
Shutdown ==
  /\ engineUp /\ worker = "idle"
  /\ engineUp' = FALSE
  /\ UNCHANGED <<callerVars, dst, alive, fields, lock, rasterVars>>

-----------------------------------------------------------------------------
CallerStep(c) ==
  \/ StartWait(c) \/ TimeUp(c) \/ TakeResult(c) \/ Abandon(c) \/ Delete(c)

WorkerStep ==
  \/ StartTask \/ LockRequest \/ CaptureFails \/ BeginRead \/ EndRead
  \/ DeleteAbandoned

Next ==
  \/ \E c \in Callers : Refuse(c) \/ Post(c) \/ CallerStep(c)
  \/ WorkerStep
  \/ Shutdown

Spec == Init /\ [][Next]_vars

(* The threads of a running process are scheduled, and the one-second      *)
(* timer fires.  Nothing makes anybody call, or shut the engine down.      *)
FairSpec ==
  Spec /\ WF_vars(WorkerStep) /\ \A c \in Callers : WF_vars(CallerStep(c))

-----------------------------------------------------------------------------
(* Properties.                                                             *)

TypeOK ==
  /\ caller \in [Callers -> {"idle", "posted", "waiting", "timedout", "freeing"}]
  /\ req \in [Callers -> Reqs \cup {NoReq}]
  /\ rc \in [Callers -> {"refused", "timeout", "error", "ok"}]
  /\ dst \in [Callers -> {"old", "torn", "pixels"}]
  /\ alive \subseteq Reqs /\ done \subseteq Reqs /\ abandoned \subseteq Reqs
  /\ client \in [Reqs -> Callers]
  /\ lock \in [Reqs -> {"free", "caller", "worker"}]
  /\ result \in [Reqs -> {"timeout", "error", "ok"}]
  /\ raster \in Seq(Reqs)
  /\ worker \in {"idle", "locking", "running", "reading", "freeing"}
  /\ job \in Reqs \cup {NoReq}
  /\ engineUp \in BOOLEAN

InCall(c) == caller[c] # "idle"
Queued(r) == \E i \in DOMAIN raster : raster[i] = r

(* No thread holds a pointer to a freed request: what a caller waits on,   *)
(* what is queued and what the raster thread works on is allocated         *)
(* (CaptureOnceReq: whichever side observes "abandoned" owns the delete).  *)
NoDanglingRequest ==
  /\ \A c \in Callers : InCall(c) => req[c] \in alive
  /\ \A i \in DOMAIN raster : raster[i] \in alive
  /\ worker # "idle" => job \in alive

(* One owner: two callers never share a request, it is queued once, it is  *)
(* not queued while it is worked on, and an abandoned one has no caller.   *)
OneOwner ==
  /\ \A c, d \in Callers : InCall(c) /\ InCall(d) /\ req[c] = req[d] => c = d
  /\ \A i, j \in DOMAIN raster : raster[i] = raster[j] => i = j
  /\ worker # "idle" => ~Queued(job)
  /\ \A c \in Callers : InCall(c) => req[c] \notin abandoned

(* Every allocated request has somebody who will delete it: a caller, the  *)
(* queue or the raster thread.                                             *)
NoRequestLeak ==
  \A r \in alive :
    \/ \E c \in Callers : InCall(c) /\ req[c] = r
    \/ r \in abandoned /\ (Queued(r) \/ (worker # "idle" /\ job = r))

(* The answer tells the truth about the buffer: "ok" comes with the whole  *)
(* picture, and after a timeout or an error the buffer was never touched   *)
(* (the comment on wait_for: a timeout proves the worker never started).   *)
AnswerIsTrue ==
  \A c \in Callers : caller[c] \in {"idle", "freeing"} =>
    dst[c] = (IF rc[c] = "ok" THEN "pixels" ELSE "old")

(* The caller's memory is not written once the call has returned, when the *)
(* caller may have freed it.                                               *)
DstUntouchedAfterReturn ==
  [][\A c \in Callers : caller[c] = "idle" /\ caller'[c] = "idle" =>
       dst'[c] \in {dst[c], "old"}]_vars

(* Every call returns.                                                     *)
CallReturns == \A c \in Callers : InCall(c) ~> ~InCall(c)

(* While the engine runs, an abandoned request is deleted in the end.      *)
AbandonedIsDeleted ==
  \A r \in Reqs : r \in abandoned \cap alive ~> r \notin alive \/ ~engineUp

(* The two threads together keep the promise of one atomic call.           *)
Promise == INSTANCE OneShot WITH
  asked <- {c \in Callers : caller[c] \in {"posted", "waiting", "timedout"}}

KeepsPromise == Promise!Spec
=============================================================================
