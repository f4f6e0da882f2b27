------------------------- MODULE CaptureOnceProofs -------------------------
(***************************************************************************)
(* CaptureOnce's safety for every number of callers and heap addresses.    *)
(* The promises are not inductive by themselves: they need to know whose   *)
(* buffer a request points at (ClientIsCaller), who holds its mutex        *)
(* (LockHeld), where an unfinished request is (InProgress) and how far its *)
(* buffer has been written (BufferTracks).                                 *)
(***************************************************************************)
EXTENDS CaptureOnce, TLAPS

Working == worker \in {"running", "reading"}
Asking(c) == caller[c] \in {"posted", "waiting", "timedout"}

ClientIsCaller == \A c \in Callers : InCall(c) => client[req[c]] = c

LockHeld ==
  /\ \A c \in Callers : caller[c] = "posted" => lock[req[c]] = "caller"
  /\ Working => lock[job] = "worker"

InProgress ==
  /\ \A i \in DOMAIN raster : raster[i] \notin done
  /\ worker # "idle" => job \notin done
  /\ \A c \in Callers : Asking(c) /\ req[c] \notin done =>
       Queued(req[c]) \/ (worker # "idle" /\ job = req[c])
  /\ \A c \in Callers : caller[c] = "freeing" => req[c] \in done
  /\ worker = "freeing" => job \in abandoned
  /\ Working => job \notin abandoned

BufferTracks ==
  \A c \in Callers : Asking(c) =>
    IF req[c] \in done
    THEN /\ result[req[c]] \in {"ok", "error"}
         /\ dst[c] = (IF result[req[c]] = "ok" THEN "pixels" ELSE "old")
    ELSE dst[c] = (IF worker = "reading" /\ job = req[c] THEN "torn" ELSE "old")

IInv ==
  /\ TypeOK /\ NoDanglingRequest /\ OneOwner /\ NoRequestLeak /\ AnswerIsTrue
  /\ ClientIsCaller /\ LockHeld /\ InProgress /\ BufferTracks

-----------------------------------------------------------------------------
(* Posting adds the request at the end of the queue: every older entry     *)
(* keeps its place.                                                        *)
LEMMA AppendLemma ==
  ASSUME NEW S, NEW q \in Seq(S), NEW r \in S
  PROVE  /\ Append(q, r) \in Seq(S)
         /\ DOMAIN Append(q, r) = DOMAIN q \cup {Len(q) + 1}
         /\ Len(q) + 1 \notin DOMAIN q
         /\ \A i \in DOMAIN q : Append(q, r)[i] = q[i]
         /\ Append(q, r)[Len(q) + 1] = r
  OBVIOUS

(* Taking the head shifts the queue by one: every entry left was there.    *)
LEMMA TailLemma ==
  ASSUME NEW S, NEW q \in Seq(S), q # <<>>
  PROVE  /\ Head(q) \in S /\ Tail(q) \in Seq(S)
         /\ 1 \in DOMAIN q /\ Head(q) = q[1]
         /\ \A i \in DOMAIN Tail(q) :
              i + 1 \in DOMAIN q /\ i + 1 # 1 /\ Tail(q)[i] = q[i + 1]
         /\ \A i \in DOMAIN q :
              q[i] = Head(q) \/ \E j \in DOMAIN Tail(q) : Tail(q)[j] = q[i]
         /\ \A i, j \in DOMAIN Tail(q) : i + 1 = j + 1 => i = j
<1>1. \A i \in DOMAIN q : i = 1 \/ (i - 1 \in DOMAIN Tail(q)
                                    /\ Tail(q)[i - 1] = q[i])
  OBVIOUS
<1>2. 1 \in DOMAIN q /\ Head(q) = q[1]
  OBVIOUS
<1> QED
  BY <1>1, <1>2

-----------------------------------------------------------------------------
(* The initial state, with no call in progress, satisfies the invariant.   *)
LEMMA InitInv == Init => IInv
BY DEF Init, IInv, TypeOK, NoDanglingRequest, OneOwner, NoRequestLeak,
       AnswerIsTrue, ClientIsCaller, LockHeld, InProgress, BufferTracks,
       InCall, Asking, Working, Queued

(* Every step of a caller or of the raster thread, and the shutdown, keeps *)
(* the invariant.                                                          *)
LEMMA Step == IInv /\ [Next]_vars => IInv'
<1> SUFFICES ASSUME IInv, [Next]_vars PROVE IInv'
  OBVIOUS
<1> USE ConstantsOK
    DEF IInv, NoDanglingRequest, OneOwner, NoRequestLeak, AnswerIsTrue,
        ClientIsCaller, LockHeld, InProgress, BufferTracks, InCall, Asking,
        Working, Queued, TypeOK, callerVars, fields, rasterVars
<1>1. ASSUME NEW c \in Callers, Refuse(c) PROVE IInv'
  BY <1>1 DEF Refuse
<1>2. ASSUME NEW c \in Callers, Post(c) PROVE IInv'
  <2> PICK r \in Reqs \ alive :
         /\ alive' = alive \cup {r}
         /\ client' = [client EXCEPT ![r] = c]
         /\ done' = done \ {r} /\ abandoned' = abandoned \ {r}
         /\ result' = [result EXCEPT ![r] = "timeout"]
         /\ lock' = [lock EXCEPT ![r] = "caller"]
         /\ raster' = Append(raster, r)
         /\ req' = [req EXCEPT ![c] = r]
    BY <1>2 DEF Post
  <2>1. /\ raster' \in Seq(Reqs)
        /\ DOMAIN raster' = DOMAIN raster \cup {Len(raster) + 1}
        /\ Len(raster) + 1 \notin DOMAIN raster
        /\ \A i \in DOMAIN raster : raster'[i] = raster[i]
        /\ raster'[Len(raster) + 1] = r
    BY AppendLemma
  <2>2. \A q \in Reqs : Queued(q)' <=> Queued(q) \/ q = r
    BY <2>1
  <2>3. TypeOK'
    BY <1>2, <2>1, <2>2 DEF Post
  <2>4. NoDanglingRequest'
    BY <1>2, <2>1, <2>2 DEF Post
  <2>5. OneOwner'
    BY <1>2, <2>1, <2>2 DEF Post
  <2>6. NoRequestLeak'
    BY <1>2, <2>1, <2>2 DEF Post
  <2>7. AnswerIsTrue'
    BY <1>2, <2>1, <2>2 DEF Post
  <2>8. ClientIsCaller'
    BY <1>2, <2>1, <2>2 DEF Post
  <2>9. LockHeld'
    BY <1>2, <2>1, <2>2 DEF Post
  <2>10. InProgress'
    BY <1>2, <2>1, <2>2 DEF Post
  <2>11. BufferTracks'
    BY <1>2, <2>1, <2>2 DEF Post
  <2> QED
    BY <2>3, <2>4, <2>5, <2>6, <2>7, <2>8, <2>9, <2>10, <2>11
<1>3. ASSUME NEW c \in Callers, StartWait(c) PROVE IInv'
  BY <1>3 DEF StartWait
<1>4. ASSUME NEW c \in Callers, TimeUp(c) PROVE IInv'
  BY <1>4 DEF TimeUp
<1>5. ASSUME NEW c \in Callers, TakeResult(c) PROVE IInv'
  BY <1>5 DEF TakeResult
<1>6. ASSUME NEW c \in Callers, Abandon(c) PROVE IInv'
  BY <1>6 DEF Abandon
<1>7. ASSUME NEW c \in Callers, Delete(c) PROVE IInv'
  <2>1. TypeOK'
    BY <1>7 DEF Delete, Free
  <2>2. NoDanglingRequest'
    BY <1>7 DEF Delete, Free
  <2>3. OneOwner'
    BY <1>7 DEF Delete, Free
  <2>4. NoRequestLeak'
    BY <1>7 DEF Delete, Free
  <2>5. AnswerIsTrue'
    BY <1>7 DEF Delete, Free
  <2>6. ClientIsCaller'
    BY <1>7 DEF Delete, Free
  <2>7. LockHeld'
    BY <1>7 DEF Delete, Free
  <2>8. InProgress'
    BY <1>7 DEF Delete, Free
  <2>9. BufferTracks'
    BY <1>7 DEF Delete, Free
  <2> QED
    BY <2>1, <2>2, <2>3, <2>4, <2>5, <2>6, <2>7, <2>8, <2>9
<1>8. CASE StartTask
  <2>1. /\ Head(raster) \in Reqs /\ Tail(raster) \in Seq(Reqs)
        /\ 1 \in DOMAIN raster /\ Head(raster) = raster[1]
        /\ \A i \in DOMAIN Tail(raster) :
             i + 1 \in DOMAIN raster /\ i + 1 # 1 /\ Tail(raster)[i] = raster[i + 1]
        /\ \A i \in DOMAIN raster : raster[i] = Head(raster)
             \/ \E j \in DOMAIN Tail(raster) : Tail(raster)[j] = raster[i]
        /\ \A i, j \in DOMAIN Tail(raster) : i + 1 = j + 1 => i = j
    BY <1>8, TailLemma DEF StartTask
  <2>2. TypeOK'
    BY <1>8, <2>1 DEF StartTask
  <2>3. NoDanglingRequest'
    BY <1>8, <2>1 DEF StartTask
  <2>4. OneOwner'
    BY <1>8, <2>1 DEF StartTask
  <2>5. NoRequestLeak'
    <3>1. \A r \in Reqs : Queued(r) => Queued(r)' \/ r = job'
      BY <1>8, <2>1 DEF StartTask
    <3> QED
      BY <1>8, <2>2, <3>1 DEF StartTask
  <2>6. AnswerIsTrue'
    BY <1>8, <2>1 DEF StartTask
  <2>7. ClientIsCaller'
    BY <1>8, <2>1 DEF StartTask
  <2>8. LockHeld'
    BY <1>8, <2>1 DEF StartTask
  <2>9. InProgress'
    <3>1. \A r \in Reqs : Queued(r) => Queued(r)' \/ r = job'
      BY <1>8, <2>1 DEF StartTask
    <3>2. \A i \in DOMAIN raster' : raster'[i] \notin done'
      BY <1>8, <2>1 DEF StartTask
    <3>3. job' \notin done' /\ worker' = "locking" /\ ~Working'
      BY <1>8, <2>1 DEF StartTask
    <3>4. worker = "idle" /\ UNCHANGED <<callerVars, fields>>
      BY <1>8 DEF StartTask
    <3>5. \A c \in Callers : Asking(c)' /\ req'[c] \notin done' =>
            Queued(req[c])' \/ job' = req'[c]
      <4> SUFFICES ASSUME NEW c \in Callers, Asking(c)', req'[c] \notin done'
                   PROVE  Queued(req[c])' \/ job' = req'[c]
        OBVIOUS
      <4>1. /\ caller[c] = caller'[c] /\ req'[c] = req[c]
            /\ req[c] \in Reqs /\ Queued(req[c])
        BY <3>4
      <4> QED
        BY <3>1, <4>1
    <3> QED
      BY <3>2, <3>3, <3>4, <3>5
  <2>10. BufferTracks'
    BY <1>8, <2>1 DEF StartTask
  <2> QED
    BY <2>2, <2>3, <2>4, <2>5, <2>6, <2>7, <2>8, <2>9, <2>10
<1>9. CASE LockRequest
  <2>1. TypeOK'
    BY <1>9 DEF LockRequest
  <2>2. NoDanglingRequest'
    BY <1>9 DEF LockRequest
  <2>3. OneOwner'
    BY <1>9 DEF LockRequest
  <2>4. NoRequestLeak'
    BY <1>9 DEF LockRequest
  <2>5. AnswerIsTrue'
    BY <1>9 DEF LockRequest
  <2>6. ClientIsCaller'
    BY <1>9 DEF LockRequest
  <2>7. LockHeld'
    BY <1>9 DEF LockRequest
  <2>8. InProgress'
    BY <1>9 DEF LockRequest
  <2>9. BufferTracks'
    BY <1>9 DEF LockRequest
  <2> QED
    BY <2>1, <2>2, <2>3, <2>4, <2>5, <2>6, <2>7, <2>8, <2>9
<1>10. CASE CaptureFails
  BY <1>10 DEF CaptureFails, FinishTask
<1>11. CASE BeginRead
  BY <1>11 DEF BeginRead
<1>12. CASE EndRead
  BY <1>12 DEF EndRead, FinishTask
<1>13. CASE DeleteAbandoned
  <2>1. TypeOK'
    BY <1>13 DEF DeleteAbandoned, Free
  <2>2. NoDanglingRequest'
    BY <1>13 DEF DeleteAbandoned, Free
  <2>3. OneOwner'
    BY <1>13 DEF DeleteAbandoned, Free
  <2>4. NoRequestLeak'
    BY <1>13 DEF DeleteAbandoned, Free
  <2>5. AnswerIsTrue'
    BY <1>13 DEF DeleteAbandoned, Free
  <2>6. ClientIsCaller'
    BY <1>13 DEF DeleteAbandoned, Free
  <2>7. LockHeld'
    BY <1>13 DEF DeleteAbandoned, Free
  <2>8. InProgress'
    BY <1>13 DEF DeleteAbandoned, Free
  <2>9. BufferTracks'
    BY <1>13 DEF DeleteAbandoned, Free
  <2> QED
    BY <2>1, <2>2, <2>3, <2>4, <2>5, <2>6, <2>7, <2>8, <2>9
<1>14. CASE Shutdown
  <2>1. TypeOK'
    BY <1>14 DEF Shutdown
  <2>2. NoDanglingRequest'
    BY <1>14 DEF Shutdown
  <2>3. OneOwner'
    BY <1>14 DEF Shutdown
  <2>4. NoRequestLeak'
    BY <1>14 DEF Shutdown
  <2>5. AnswerIsTrue'
    BY <1>14 DEF Shutdown
  <2>6. ClientIsCaller'
    BY <1>14 DEF Shutdown
  <2>7. LockHeld'
    BY <1>14 DEF Shutdown
  <2>8. InProgress'
    BY <1>14 DEF Shutdown
  <2>9. BufferTracks'
    BY <1>14 DEF Shutdown
  <2> QED
    BY <2>1, <2>2, <2>3, <2>4, <2>5, <2>6, <2>7, <2>8, <2>9
<1>15. CASE UNCHANGED vars
  BY <1>15 DEF vars
<1> QED
  BY <1>1, <1>2, <1>3, <1>4, <1>5, <1>6, <1>7, <1>8, <1>9, <1>10, <1>11, <1>12,
     <1>13, <1>14, <1>15 DEF Next, CallerStep, WorkerStep

-----------------------------------------------------------------------------
(* IInv holds in every reachable state, whatever the number of callers and *)
(* of addresses (CaptureOnceReq's protocol).                               *)
THEOREM InductiveInvariant == Spec => []IInv
BY InitInv, Step, PTL DEF Spec

(* The variables keep their types.                                         *)
THEOREM TypeCorrect == Spec => []TypeOK
<1>1. IInv => TypeOK
  BY DEF IInv
<1> QED
  BY InductiveInvariant, <1>1, PTL

(* No thread of fl_drm_view_capture_texture_once ever holds a deleted      *)
(* request.                                                                *)
THEOREM RequestsAreAlive == Spec => []NoDanglingRequest
<1>1. IInv => NoDanglingRequest
  BY DEF IInv
<1> QED
  BY InductiveInvariant, <1>1, PTL

(* A request has one owner at a time, so it is deleted at most once.       *)
THEOREM SingleOwner == Spec => []OneOwner
<1>1. IInv => OneOwner
  BY DEF IInv
<1> QED
  BY InductiveInvariant, <1>1, PTL

(* Every allocated request is held by somebody who will delete it.         *)
THEOREM NoLeak == Spec => []NoRequestLeak
<1>1. IInv => NoRequestLeak
  BY DEF IInv
<1> QED
  BY InductiveInvariant, <1>1, PTL

(* What the call returns tells the truth about the caller's buffer: the    *)
(* whole picture after "ok", nothing at all after a timeout or an error.   *)
THEOREM TrueAnswers == Spec => []AnswerIsTrue
<1>1. IInv => AnswerIsTrue
  BY DEF IInv
<1> QED
  BY InductiveInvariant, <1>1, PTL

(* The raster thread never writes into a buffer whose caller has returned: *)
(* it writes holding the mutex, and a caller leaves only with the mutex.   *)
THEOREM ReturnedBuffers == Spec => DstUntouchedAfterReturn
<1>1. IInv /\ [Next]_vars =>
        [\A c \in Callers : caller[c] = "idle" /\ caller'[c] = "idle" =>
           dst'[c] \in {dst[c], "old"}]_vars
  <2> SUFFICES ASSUME IInv, Next, NEW c \in Callers,
                      caller[c] = "idle", caller'[c] = "idle"
               PROVE  dst'[c] \in {dst[c], "old"}
    BY DEF vars
  <2> USE DEF IInv, TypeOK, NoDanglingRequest, NoRequestLeak, ClientIsCaller,
              InProgress, Working, InCall, fields, callerVars, rasterVars
  <2>1. ASSUME NEW d \in Callers, Refuse(d) \/ Post(d) \/ CallerStep(d)
        PROVE  dst'[c] \in {dst[c], "old"}
    BY <2>1 DEF Refuse, Post, CallerStep, StartWait, TimeUp, TakeResult, Abandon,
                Delete, Free
  <2>2. ASSUME BeginRead \/ EndRead
        PROVE  dst'[c] \in {dst[c], "old"}
    <3>1. job \in alive /\ job \notin abandoned
      BY <2>2 DEF BeginRead, EndRead
    <3>2. PICK d \in Callers : InCall(d) /\ req[d] = job
      BY <3>1
    <3>3. client[job] = d /\ d # c
      BY <3>2
    <3> QED
      BY <2>2, <3>3 DEF BeginRead, EndRead
  <2>3. CASE StartTask \/ LockRequest \/ CaptureFails \/ DeleteAbandoned \/ Shutdown
    BY <2>3 DEF StartTask, LockRequest, CaptureFails, DeleteAbandoned, Shutdown, Free
  <2> QED
    BY <2>1, <2>2, <2>3 DEF Next, WorkerStep
<1> QED
  BY InductiveInvariant, <1>1, PTL DEF Spec, DstUntouchedAfterReturn

-----------------------------------------------------------------------------
(* A step of the two threads is a step of the one atomic call OneShot      *)
(* describes, or changes nothing it can see.                               *)
LEMMA PromiseStep ==
  IInv /\ [Next]_vars => [Promise!Next]_(Promise!vars)
<1> SUFFICES ASSUME IInv, [Next]_vars PROVE [Promise!Next]_(Promise!vars)
  OBVIOUS
<1> USE DEF IInv, TypeOK, InCall, Asking, callerVars, fields, rasterVars,
            Promise!vars
<1>1. ASSUME NEW c \in Callers, Refuse(c) PROVE [Promise!Next]_(Promise!vars)
  BY <1>1 DEF Refuse, Promise!Next, Promise!Refuse
<1>2. ASSUME NEW c \in Callers, Post(c) PROVE [Promise!Next]_(Promise!vars)
  <2>1. Promise!Ask(c)
    <3>1. caller' = [caller EXCEPT ![c] = "posted"] /\ caller[c] = "idle"
      BY <1>2 DEF Post
    <3>2. dst' = [dst EXCEPT ![c] = "old"] /\ UNCHANGED rc
      BY <1>2 DEF Post
    <3> QED
      BY <3>1, <3>2 DEF Promise!Ask
  <2> QED
    BY <2>1 DEF Promise!Next
<1>3. ASSUME NEW c \in Callers, StartWait(c) PROVE [Promise!Next]_(Promise!vars)
  BY <1>3 DEF StartWait
<1>4. ASSUME NEW c \in Callers, TimeUp(c) PROVE [Promise!Next]_(Promise!vars)
  BY <1>4 DEF TimeUp
<1>5. ASSUME NEW c \in Callers, TakeResult(c) PROVE [Promise!Next]_(Promise!vars)
  BY <1>5 DEF TakeResult, BufferTracks, LockHeld, Working, Promise!Next, Promise!Answer
<1>6. ASSUME NEW c \in Callers, Abandon(c) PROVE [Promise!Next]_(Promise!vars)
  BY <1>6 DEF Abandon, BufferTracks, LockHeld, Working, Promise!Next, Promise!Answer
<1>7. ASSUME NEW c \in Callers, Delete(c) PROVE [Promise!Next]_(Promise!vars)
  BY <1>7 DEF Delete, Free
<1>8. CASE StartTask
  BY <1>8 DEF StartTask
<1>9. CASE LockRequest
  BY <1>9 DEF LockRequest
<1>10. CASE CaptureFails
  BY <1>10 DEF CaptureFails, FinishTask
<1>11. CASE DeleteAbandoned
  BY <1>11 DEF DeleteAbandoned, Free
<1>12. CASE Shutdown
  BY <1>12 DEF Shutdown
<1>13. CASE BeginRead
  <2>1. job \in alive /\ job \notin abandoned /\ job \notin done
    BY <1>13 DEF BeginRead, NoDanglingRequest, InProgress, Working
  <2>2. PICK c \in Callers : InCall(c) /\ req[c] = job
    BY <2>1 DEF NoRequestLeak
  <2>3. /\ client[job] = c /\ Asking(c)
        /\ dst[c] = (IF worker = "reading" THEN "torn" ELSE "old")
    BY <2>1, <2>2, <1>13 DEF BeginRead, ClientIsCaller, InProgress, BufferTracks
  <2>4. Promise!Write(c)
    BY <2>3, <1>13 DEF BeginRead, Promise!Write
  <2> QED
    BY <2>4 DEF Promise!Next
<1>14. CASE EndRead
  <2>1. job \in alive /\ job \notin abandoned /\ job \notin done
    BY <1>14 DEF EndRead, NoDanglingRequest, InProgress, Working
  <2>2. PICK c \in Callers : InCall(c) /\ req[c] = job
    BY <2>1 DEF NoRequestLeak
  <2>3. /\ client[job] = c /\ Asking(c)
        /\ dst[c] = (IF worker = "reading" THEN "torn" ELSE "old")
    BY <2>1, <2>2, <1>14 DEF EndRead, ClientIsCaller, InProgress, BufferTracks
  <2>4. Promise!Write(c)
    BY <2>3, <1>14 DEF EndRead, Promise!Write, FinishTask
  <2> QED
    BY <2>4 DEF Promise!Next
<1>15. CASE UNCHANGED vars
  BY <1>15 DEF vars
<1> QED
  BY <1>1, <1>2, <1>3, <1>4, <1>5, <1>6, <1>7, <1>8, <1>9, <1>10, <1>11, <1>12, <1>13, <1>14, <1>15
     DEF Next, CallerStep, WorkerStep

(* CaptureOnce implements OneShot.                                         *)
THEOREM Refinement == Spec => KeepsPromise
<1>1. Init => Promise!Init
  BY DEF Init, Promise!Init
<1> QED
  BY InductiveInvariant, PromiseStep, <1>1, PTL DEF Spec, Promise!Spec, KeepsPromise
=============================================================================
