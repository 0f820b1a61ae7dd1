---------------------- MODULE RowScheduler_refinement -----------------------
(***************************************************************************)
(* The row scheduler implements RowPipeline, for any number of workers,    *)
(* drivers, publishers, frames and rows.  A row is active from the second  *)
(* read of the cursor to the store that moves it; what the abstract End    *)
(* asks beyond the inductive invariant is that the row has published       *)
(* before its worker reaches that store, which PublishedInv says.          *)
(***************************************************************************)
EXTENDS RowScheduler_proofs

(* The worker's row has returned from FrameWork::run. *)
Ran(w) == pc[w] = "finish" \/ (pc[w] \in NotifyPoints /\ ret[w] = "finish")

PublishedInv == \A w \in Workers : Ran(w) => progress[cur[w]] > row[w]

(* The worker's claim is one of the abstract `active` rows. *)
Active(w) == Claimed(w) /\ pc[w] # "release"

LEMMA PointsApart ==
  ASSUME NEW w \in Workers
  PROVE  /\ Ran(w) => Active(w)
         /\ Active(w) => Claimed(w) /\ Owns(w) /\ Holds(w)
BY DEF Ran, Active, Claimed, Owns, Holds, ClaimedPoints, NotifyPoints

(* A step that leaves a worker alone leaves its row as it is. *)
LEMMA UnmovedActive ==
  ASSUME NEW v \in Workers, Unmoved(v)
  PROVE  (Active(v)' <=> Active(v)) /\ (Ran(v)' <=> Ran(v)) /\ cur'[v] = cur[v] /\ row'[v] = row[v]
BY DEF Unmoved, Active, Ran, Claimed, ClaimedPoints, NotifyPoints

LEMMA UnmovedPublished ==
  ASSUME TypeOK, TypeOK', ClaimInv, PublishedInv, NEW v \in Workers, Unmoved(v), StageKept(v), Ran(v)'
  PROVE  (progress[cur[v]] > row[v])'
<1>1. Ran(v) /\ cur'[v] = cur[v] /\ row'[v] = row[v] /\ Holds(v) /\ ClaimOf(v)
  BY UnmovedActive, PointsApart DEF ClaimInv
<1>2. cur[v] \in 0 .. NumFrames
  BY <1>1, Bounds DEF ClaimOf, TypeOK, QueueType
<1>3. /\ progress'[cur[v]] >= progress[cur[v]] /\ progress[cur[v]] > row[v]
      /\ progress'[cur[v]] \in Nat /\ progress[cur[v]] \in Nat /\ row[v] \in Nat
  BY <1>1, <1>2, Bounds DEF StageKept, PublishedInv, TypeOK, StageType, LocalType, FAILED
<1>4. QED
  BY <1>1, <1>3

-----------------------------------------------------------------------------
(* What a step of a worker does to its own row. *)

(* Outside the exchange's recheck, the run and the store of the cursor, no *)
(* step begins, runs or ends a row.                                        *)
RowStep(w) == Recheck(w) \/ RunRow(w) \/ Finish(w)

LEMMA QuietRow ==
  ASSUME TypeOK, ClaimInv, NEW w \in Workers, WorkerStep(w), ~RowStep(w)
  PROVE  /\ next' = next /\ progress' = progress /\ tail' = tail
         /\ Active(w)' <=> Active(w)
         /\ Active(w) => cur'[w] = cur[w] /\ row'[w] = row[w]
         /\ Ran(w)' => Ran(w)
<1>0. /\ w \in Thread /\ w \notin Drivers
      /\ pc \in [Thread -> Points] /\ ret \in [Thread -> {"run", "finish", "observe", "join", "idle"}]
  BY ConstantsAssumption DEF Thread, TypeOK, ControlType
<1> USE DEF Goto, CallNotify, NextFrame, Leave
<1>1. CASE NotifyStep(w)
  <2>1. UNCHANGED <<stageVars, queueVars>> /\ cur' = cur /\ row' = row /\ ret' = ret
    BY <1>1 DEF NotifyStep, Bump, Peek, Knock, Count, Swap, Signal, localVars
  <2>2. pc[w] \in NotifyPoints
    BY <1>1 DEF NotifyStep, Bump, Peek, Knock, Count, Swap, Signal, NotifyPoints
  <2>3. pc'[w] \in NotifyPoints \/ pc'[w] = ret[w]
    <3> USE <1>0 DEF NotifyPoints
    <3>1. CASE Bump(w) \/ Peek(w) \/ Count(w) \/ Swap(w)
      BY <3>1 DEF Bump, Peek, Count, Swap
    <3>2. CASE Knock(w)
      BY <3>2 DEF Knock
    <3>3. CASE Signal(w)
      BY <3>3 DEF Signal
    <3>4. QED
      BY <1>1, <3>1, <3>2, <3>3 DEF NotifyStep
  <2>4. ret[w] \in {"run", "finish", "observe", "join", "idle"}
    BY <1>0
  <2>5. QED
    BY <2>1, <2>2, <2>3, <2>4 DEF Active, Ran, Claimed, ClaimedPoints, NotifyPoints, stageVars, queueVars
<1>2. CASE PassOn(w) \/ PassCheck(w)
  <2>1. /\ next' = next /\ progress' = progress /\ tail' = tail /\ cur' = cur /\ row' = row
        /\ pc[w] \in {"pass", "passcheck"}
        /\ \/ pc'[w] \in {"passcheck", "run"}
           \/ pc'[w] = "signal" /\ ret'[w] = "run"
    BY <1>0, <1>2 DEF PassOn, PassCheck, stageVars, queueVars, localVars
  <2>2. QED
    BY <2>1 DEF Active, Ran, Claimed, ClaimedPoints, NotifyPoints
<1>3. CASE Release(w)
  <2>1. /\ next' = next /\ progress' = progress /\ tail' = tail
        /\ pc[w] = "release" /\ pc'[w] = "done"
    BY <1>0, <1>3 DEF Release, queueVars
  <2>2. QED
    BY <2>1 DEF Active, Ran, Claimed, ClaimedPoints, NotifyPoints
<1>4. CASE \/ Observe(w) \/ Lock(w) \/ ScanEnd(w) \/ LoadRunning(w) \/ LoadNext(w)
           \/ Exchange(w) \/ ReadDone(w) \/ Enlist(w) \/ Clear(w) \/ Test(w) \/ Wake(w)
  <2>1. next' = next /\ progress' = progress /\ tail' = tail
    BY <1>4 DEF Observe, Lock, ScanEnd, LoadRunning, LoadNext, Exchange, ReadDone, Enlist,
       Clear, Test, Wake, stageVars, queueVars
  <2>2. pc[w] \in {"observe", "lock", "scan", "next", "cas", "done", "enlist", "clear", "test", "notified"}
    BY <1>4 DEF Observe, Lock, ScanEnd, LoadRunning, LoadNext, Exchange, ReadDone, Enlist,
       Clear, Test, Wake
  <2>3. pc'[w] \in {"lock", "scan", "exited", "enlist", "next", "cas", "recheck", "drop",
                    "clear", "test", "asleep", "observe"}
    <3>1. CASE Observe(w) \/ Lock(w) \/ ScanEnd(w) \/ LoadRunning(w) \/ ReadDone(w)
      BY <1>0, <3>1 DEF Observe, Lock, ScanEnd, LoadRunning, ReadDone
    <3>2. CASE LoadNext(w) \/ Exchange(w)
      BY <1>0, <3>2 DEF LoadNext, Exchange
    <3>3. CASE Enlist(w) \/ Clear(w) \/ Test(w) \/ Wake(w)
      BY <1>0, <3>3 DEF Enlist, Clear, Test, Wake
    <3>4. QED
      BY <1>4, <3>1, <3>2, <3>3
  <2>4. QED
    BY <2>1, <2>2, <2>3 DEF Active, Ran, Claimed, ClaimedPoints, NotifyPoints
<1>5. CASE DropHandle(w) \/ Pop(w)
  <2>1. /\ next' = next /\ progress' = progress /\ tail' = tail
        /\ pc[w] \in {"drop", "pop"}
        /\ pc'[w] = "pop" \/ (pc'[w] = "bump" /\ ret'[w] = "observe")
    BY <1>0, <1>5 DEF DropHandle, Pop, stageVars, queueVars
  <2>2. QED
    BY <2>1 DEF Active, Ran, Claimed, ClaimedPoints, NotifyPoints
<1>6. QED
  BY <1>1, <1>2, <1>3, <1>4, <1>5 DEF WorkerStep, RowStep

(* The second read of the cursor begins the row it found. *)
LEMMA RecheckRow ==
  ASSUME TypeOK, ClaimInv, NEW w \in Workers, Recheck(w)
  PROVE  /\ next' = next /\ progress' = progress /\ tail' = tail
         /\ ~Active(w) /\ ~Ran(w)'
         /\ Active(w)' => cur' = cur /\ row' = row /\ next[cur[w]] = row[w]
<1>1. /\ next' = next /\ progress' = progress /\ tail' = tail /\ pc[w] = "recheck" /\ row' = row
      /\ pc \in [Thread -> Points] /\ w \in Thread
  BY DEF Recheck, queueVars, Thread, TypeOK, ControlType
<1>2. CASE next[cur[w]] # row[w]
  <2>1. pc'[w] = "scan"
    BY <1>1, <1>2 DEF Recheck, NextFrame, Goto
  <2>2. QED
    BY <1>1, <2>1 DEF Active, Ran, Claimed, ClaimedPoints, NotifyPoints
<1>3. CASE next[cur[w]] = row[w]
  <2>1. pc'[w] \in {"pass", "run"} /\ cur' = cur
    BY <1>1, <1>3 DEF Recheck, Goto
  <2>2. QED
    BY <1>1, <1>3, <2>1 DEF Active, Ran, Claimed, ClaimedPoints, NotifyPoints
<1>4. QED
  BY <1>2, <1>3

(* Running a row publishes it, or finds it published. *)
LEMMA RunRowRow ==
  ASSUME TypeOK, ClaimInv, NEW w \in Workers, RunRow(w)
  PROVE  /\ next' = next /\ tail' = tail /\ cur' = cur /\ row' = row
         /\ Active(w) /\ Active(w)'
         /\ next[cur[w]] = row[w]
         /\ progress'[cur[w]] > row[w]
         /\ \/ progress' = progress
            \/ \E value \in {row[w] + 1} \cup (IF cur[w] \in Failing THEN {FAILED} ELSE {}) :
                 progress[cur[w]] < value /\ progress' = [progress EXCEPT ![cur[w]] = value]
<1>1. /\ next' = next /\ tail' = tail /\ cur' = cur /\ row' = row /\ pc[w] = "run"
      /\ pc \in [Thread -> Points] /\ w \in Thread
  BY DEF RunRow, queueVars, localVars, Thread, TypeOK, ControlType
<1>2. Claimed(w) /\ Owns(w) /\ Holds(w) /\ ClaimOf(w)
  BY <1>1 DEF Claimed, ClaimedPoints, Owns, Holds, ClaimInv
<1>3. /\ cur[w] \in 0 .. NumFrames /\ row[w] < NumRows /\ row[w] \in Nat
      /\ next[cur[w]] = row[w]
  BY <1>1, <1>2, Bounds DEF ClaimOf, TypeOK, QueueType, LocalType
<1>4. PICK value \in {row[w] + 1} \cup (IF cur[w] \in Failing THEN {FAILED} ELSE {}) :
        IF progress[cur[w]] < value
        THEN /\ progress' = [progress EXCEPT ![cur[w]] = value]
             /\ CallNotify(w, "finish")
        ELSE Goto(w, "finish") /\ UNCHANGED <<progress, ret>>
  BY DEF RunRow
<1>5. value \in Nat /\ value > row[w] /\ progress[cur[w]] \in Nat /\ DOMAIN progress = 0 .. NumFrames
  BY <1>3, <1>4, Bounds DEF FAILED, TypeOK, StageType
<1>6. \/ progress' = progress /\ progress[cur[w]] >= value
      \/ progress' = [progress EXCEPT ![cur[w]] = value] /\ progress[cur[w]] < value
  BY <1>4, <1>5
<1>7. progress'[cur[w]] > row[w]
  <2>1. CASE progress' = progress /\ progress[cur[w]] >= value
    BY <1>3, <1>5, <2>1
  <2>2. CASE progress' = [progress EXCEPT ![cur[w]] = value] /\ progress[cur[w]] < value
    <3>1. progress'[cur[w]] = value
      BY <1>3, <1>5, <2>2
    <3>2. QED
      BY <1>3, <1>5, <3>1
  <2>3. QED
    BY <1>6, <2>1, <2>2
<1>8. pc'[w] \in {"bump", "finish"} /\ (pc'[w] = "bump" => ret'[w] = "finish")
  <2>1. ret \in [Thread -> {"run", "finish", "observe", "join", "idle"}]
    BY DEF TypeOK, ControlType
  <2>2. QED
    BY <1>1, <1>4, <2>1 DEF CallNotify, Goto
<1>9. Active(w) /\ Active(w)'
  BY <1>1, <1>8 DEF Active, Claimed, ClaimedPoints, NotifyPoints
<1>10. QED
  BY <1>1, <1>3, <1>4, <1>6, <1>7, <1>9

(* Storing the next row ends the one that ran. *)
LEMMA FinishRow ==
  ASSUME TypeOK, ClaimInv, NEW w \in Workers, Finish(w)
  PROVE  /\ progress' = progress /\ tail' = tail /\ cur' = cur
         /\ Active(w) /\ Ran(w) /\ ~Active(w)' /\ ~Ran(w)'
         /\ next[cur[w]] = row[w]
         /\ next' = [next EXCEPT ![cur[w]] = row[w] + 1]
<1>1. /\ progress' = progress /\ tail' = tail /\ cur' = cur /\ pc[w] = "finish" /\ pc'[w] = "release"
      /\ next' = [next EXCEPT ![cur[w]] = row[w] + 1]
  BY DEF Finish, queueVars, localVars, Goto, Thread, TypeOK, ControlType
<1>2. Claimed(w) /\ ClaimOf(w)
  BY <1>1 DEF Claimed, ClaimedPoints, ClaimInv
<1>3. QED
  BY <1>1, <1>2 DEF ClaimOf, Active, Ran, Claimed, ClaimedPoints, NotifyPoints

-----------------------------------------------------------------------------
(* PublishedInv is kept by every step, given the inductive invariant.      *)

LEMMA InitPublished == Init => PublishedInv
<1> SUFFICES ASSUME Init, NEW w \in Workers PROVE ~Ran(w)
  BY DEF PublishedInv
<1>1. pc[w] = "observe"
  BY ConstantsAssumption DEF Init, Thread
<1>2. QED
  BY <1>1 DEF Ran, NotifyPoints

LEMMA OutsidePublished ==
  ASSUME TypeOK, TypeOK', ClaimInv, PublishedInv,
         \A v \in Workers : Unmoved(v) /\ StageKept(v)
  PROVE  PublishedInv'
BY UnmovedPublished DEF PublishedInv

LEMMA WorkerPublished ==
  ASSUME TypeOK, TypeOK', ClaimInv, PublishedInv, NEW w \in Workers, WorkerStep(w)
  PROVE  PublishedInv'
<1>1. ASSUME NEW v \in Workers \ {w}, Ran(v)' PROVE (progress[cur[v]] > row[v])'
  <2>1. Unmoved(v) /\ StageKept(v)
    BY WorkerUnmoved, WorkerStage
  <2>2. QED
    BY <1>1, <2>1, UnmovedPublished
<1>2. ASSUME Ran(w)' PROVE (progress[cur[w]] > row[w])'
  <2>1. CASE ~RowStep(w)
    <3>1. Ran(w) /\ Active(w) /\ progress' = progress /\ cur'[w] = cur[w] /\ row'[w] = row[w]
      BY <1>2, <2>1, QuietRow, PointsApart
    <3>2. QED
      BY <3>1 DEF PublishedInv
  <2>2. CASE Recheck(w)
    BY <1>2, <2>2, RecheckRow
  <2>3. CASE RunRow(w)
    BY <2>3, RunRowRow
  <2>4. CASE Finish(w)
    BY <1>2, <2>4, FinishRow
  <2>5. QED
    BY <2>1, <2>2, <2>3, <2>4 DEF RowStep
<1>3. QED
  BY <1>1, <1>2 DEF PublishedInv

LEMMA NextPublished == IInv /\ IInv' /\ PublishedInv /\ [Next]_vars => PublishedInv'
<1> SUFFICES ASSUME IInv, IInv', PublishedInv, [Next]_vars PROVE PublishedInv'
  OBVIOUS
<1>0. TypeOK /\ ClaimInv /\ TypeOK'
  BY DEF IInv
<1>1. ASSUME NEW w \in Workers, WorkerStep(w) PROVE PublishedInv'
  BY <1>0, <1>1, WorkerPublished
<1>2. ASSUME NEW d \in Drivers, DriverStep(d) PROVE PublishedInv'
  BY <1>0, <1>2, DriverLeaves, OutsidePublished
<1>3. ASSUME NEW e \in Publishers, PublisherStep(e) PROVE PublishedInv'
  BY <1>0, <1>3, PublisherLeaves, OutsidePublished
<1>4. CASE UNCHANGED vars
  BY <1>4 DEF vars, stageVars, localVars, PublishedInv, Ran
<1>5. QED
  BY <1>1, <1>2, <1>3, <1>4 DEF Next, Terminated

(* A row that returned from FrameWork::run has published what it decoded.  *)
THEOREM RanRowsArePublished == Spec => []PublishedInv
<1>1. QED
  BY InitPublished, NextPublished, SpecIInv, PTL DEF Spec

-----------------------------------------------------------------------------
(* The refinement mapping, with names of its own. *)

activeFrames == {f \in Frame : \E w \in Workers : cur[w] = f /\ Claimed(w) /\ pc[w] # "release"}

LEMMA ActiveFrame ==
  ASSUME TypeOK, ClaimInv, NEW w \in Workers, Active(w)
  PROVE  cur[w] \in Frame /\ cur[w] <= tail /\ cur[w] \in activeFrames
<1>1. ClaimOf(w) /\ Holds(w)
  BY PointsApart DEF ClaimInv
<1>2. cur[w] \in 1 .. tail
  BY <1>1 DEF ClaimOf
<1>3. QED
  BY <1>2, Bounds DEF TypeOK, QueueType, Frame, activeFrames, Active

(* The rows of all workers stay active over a step that keeps each.        *)
LEMMA ActiveKept ==
  ASSUME \A v \in Workers : (Active(v)' <=> Active(v)) /\ (Active(v) => cur'[v] = cur[v])
  PROVE  activeFrames' = activeFrames
BY DEF activeFrames, Active

LEMMA SimulateInit == Init => Pipeline!Init
<1> SUFFICES ASSUME Init PROVE Pipeline!Init
  OBVIOUS
<1>1. \A w \in Workers : ~Claimed(w)
  <2>1. \A w \in Workers : pc[w] = "observe"
    BY ConstantsAssumption DEF Init, Thread
  <2>2. QED
    BY <2>1 DEF Claimed, ClaimedPoints, NotifyPoints
<1>2. /\ tail = 0 /\ next = [f \in Frame |-> 0]
      /\ progress \in [0 .. NumFrames -> {0, NumRows}]
      /\ \A f \in Frame : progress[f] = 0
  BY Bounds DEF Init, Frame
<1>3. QED
  BY <1>1, <1>2 DEF Pipeline!Init, Pipeline!Frame, Frame

(* Everything that is not a row step, a push or a publication from outside *)
(* is a stutter of the pipeline.                                           *)
LEMMA SimulateStutter ==
  ASSUME UNCHANGED <<next, progress, tail>>, activeFrames' = activeFrames
  PROVE  UNCHANGED Pipeline!vars
BY DEF Pipeline!vars, activeFrames

LEMMA SimulateRecheck ==
  ASSUME TypeOK, TypeOK', ClaimInv, ClaimInv', NEW w \in Workers, Recheck(w),
         \A v \in Workers \ {w} : Unmoved(v)
  PROVE  [Pipeline!Next]_(Pipeline!vars)
<1>1. /\ next' = next /\ progress' = progress /\ tail' = tail
      /\ ~Active(w)
      /\ Active(w)' => cur' = cur /\ row' = row /\ next[cur[w]] = row[w]
  BY RecheckRow
<1>2. \A v \in Workers \ {w} : (Active(v)' <=> Active(v)) /\ cur'[v] = cur[v]
  BY UnmovedActive
<1>3. CASE ~Active(w)'
  <2>1. activeFrames' = activeFrames
    BY <1>1, <1>2, <1>3, ActiveKept
  <2>2. QED
    BY <1>1, <2>1, SimulateStutter
<1>4. CASE Active(w)'
  <2>1. Owns(w) /\ ClaimOf(w)
    BY DEF Recheck, Owns, ClaimInv
  <2>0. PICK f \in Frame : f = cur[w]
    BY <2>1, Bounds DEF ClaimOf, TypeOK, QueueType, Frame
  <2>2. f \in Frame /\ f <= tail /\ next[f] < NumRows /\ progress[Needs[f]] >= Need(next[f])
    BY <1>1, <1>4, <2>0, <2>1, Bounds DEF ClaimOf, TypeOK, QueueType, Frame, Ready
  <2>3. f \notin activeFrames
    <3>1. \A v \in Workers : Active(v) => v # w /\ Owns(v)
      BY <1>1, PointsApart
    <3>2. QED
      BY <2>0, <2>1, <3>1 DEF ClaimInv, activeFrames, Active
  <2>4. activeFrames' = activeFrames \cup {f}
    BY <2>0, <1>1, <1>2, <1>4, <2>2 DEF activeFrames, Active
  <2>5. Pipeline!Begin(f)
    BY <1>1, <1>4, <2>0, <2>2, <2>3, <2>4 DEF Pipeline!Begin, activeFrames, Pipeline!Need, Need
  <2>6. QED
    BY <2>5 DEF Pipeline!Next, Pipeline!Frame, Frame
<1>5. QED
  BY <1>3, <1>4

LEMMA SimulateRunRow ==
  ASSUME TypeOK, ClaimInv, NEW w \in Workers, RunRow(w),
         \A v \in Workers \ {w} : Unmoved(v)
  PROVE  [Pipeline!Next]_(Pipeline!vars)
<1>1. /\ next' = next /\ tail' = tail /\ cur' = cur /\ row' = row
      /\ Active(w) /\ Active(w)' /\ next[cur[w]] = row[w]
      /\ \/ progress' = progress
         \/ \E value \in {row[w] + 1} \cup (IF cur[w] \in Failing THEN {FAILED} ELSE {}) :
              progress[cur[w]] < value /\ progress' = [progress EXCEPT ![cur[w]] = value]
  BY RunRowRow
<1>2. \A v \in Workers \ {w} : (Active(v)' <=> Active(v)) /\ cur'[v] = cur[v]
  BY UnmovedActive
<1>3. activeFrames' = activeFrames
  BY <1>1, <1>2, ActiveKept
<1>4. CASE progress' = progress
  BY <1>1, <1>3, <1>4, SimulateStutter
<1>5. CASE progress' # progress
  <2>1. cur[w] \in Frame /\ cur[w] \in activeFrames
    BY <1>1, ActiveFrame
  <2>2. Pipeline!Publish(cur[w])
    BY <1>1, <1>3, <1>5, <2>1 DEF Pipeline!Publish, Pipeline!FAILED, FAILED, activeFrames
  <2>3. QED
    BY <2>1, <2>2 DEF Pipeline!Next, Pipeline!Frame, Frame
<1>6. QED
  BY <1>4, <1>5

LEMMA SimulateFinish ==
  ASSUME TypeOK, ClaimInv, PublishedInv, NEW w \in Workers, Finish(w),
         \A v \in Workers \ {w} : Unmoved(v)
  PROVE  [Pipeline!Next]_(Pipeline!vars)
<1>1. /\ progress' = progress /\ tail' = tail /\ cur' = cur
      /\ Active(w) /\ Ran(w) /\ ~Active(w)'
      /\ next[cur[w]] = row[w]
      /\ next' = [next EXCEPT ![cur[w]] = row[w] + 1]
  BY FinishRow
<1>2. \A v \in Workers \ {w} : (Active(v)' <=> Active(v)) /\ cur'[v] = cur[v]
  BY UnmovedActive
<1>3. cur[w] \in Frame /\ cur[w] \in activeFrames
  BY <1>1, ActiveFrame
<1>4. \A v \in Workers \ {w} : Active(v) => cur[v] # cur[w]
  BY <1>1, PointsApart DEF ClaimInv
<1>5. activeFrames' = activeFrames \ {cur[w]}
  BY <1>1, <1>2, <1>4 DEF activeFrames, Active
<1>6. progress[cur[w]] > next[cur[w]]
  BY <1>1 DEF PublishedInv
<1>7. PICK f \in Frame : f = cur[w]
  BY <1>3
<1>8. Pipeline!End(f)
  BY <1>1, <1>3, <1>5, <1>6, <1>7 DEF Pipeline!End, activeFrames
<1>9. QED
  BY <1>8 DEF Pipeline!Next, Pipeline!Frame, Frame

LEMMA SimulateOutside ==
  ASSUME TypeOK, ClaimInv,
         \/ \E d \in Drivers : DriverStep(d)
         \/ \E e \in Publishers : PublisherStep(e)
  PROVE  [Pipeline!Next]_(Pipeline!vars)
<1>1. \A v \in Workers : Unmoved(v)
  BY DriverLeaves, PublisherLeaves
<1>2. activeFrames' = activeFrames
  BY <1>1, UnmovedActive, ActiveKept
<1>3. ASSUME NEW d \in Drivers, DriverStep(d) PROVE [Pipeline!Next]_(Pipeline!vars)
  <2>1. /\ UNCHANGED stageVars
        /\ tail' = tail \/ (tail < NumFrames /\ tail' = tail + 1)
    BY <1>3, DriverLeaves
  <2>2. CASE tail' = tail
    BY <1>2, <2>1, <2>2, SimulateStutter DEF stageVars
  <2>3. CASE tail < NumFrames /\ tail' = tail + 1
    BY <1>2, <2>1, <2>3 DEF Pipeline!Next, Pipeline!Enter, stageVars, activeFrames
  <2>4. QED
    BY <2>1, <2>2, <2>3
<1>4. ASSUME NEW e \in Publishers, PublisherStep(e) PROVE [Pipeline!Next]_(Pipeline!vars)
  <2>1. /\ next' = next /\ tail' = tail
        /\ \/ progress' = progress
           \/ \E value \in 1 .. NumRows :
                progress[0] < value /\ progress' = [progress EXCEPT ![0] = value]
    BY <1>4, PublisherLeaves
  <2>2. CASE progress' = progress
    BY <1>2, <2>1, <2>2, SimulateStutter
  <2>3. CASE progress' # progress
    BY <1>2, <2>1, <2>3 DEF Pipeline!Next, Pipeline!External, activeFrames
  <2>4. QED
    BY <2>2, <2>3
<1>5. QED
  BY <1>3, <1>4

(* Every step of the scheduler is a step of the pipeline or a stutter. *)
LEMMA SimulateNext ==
  ASSUME IInv, IInv', PublishedInv, [Next]_vars
  PROVE  [Pipeline!Next]_(Pipeline!vars)
<1>0. TypeOK /\ ClaimInv /\ TypeOK' /\ ClaimInv'
  BY DEF IInv
<1>1. ASSUME NEW w \in Workers, WorkerStep(w) PROVE [Pipeline!Next]_(Pipeline!vars)
  <2>1. \A v \in Workers \ {w} : Unmoved(v)
    BY <1>0, <1>1, WorkerUnmoved
  <2>2. CASE Recheck(w)
    BY <1>0, <2>1, <2>2, SimulateRecheck
  <2>3. CASE RunRow(w)
    BY <1>0, <2>1, <2>3, SimulateRunRow
  <2>4. CASE Finish(w)
    BY <1>0, <2>1, <2>4, SimulateFinish
  <2>5. CASE ~RowStep(w)
    <3>1. /\ next' = next /\ progress' = progress /\ tail' = tail
          /\ (Active(w)' <=> Active(w)) /\ (Active(w) => cur'[w] = cur[w])
      BY <1>0, <1>1, <2>5, QuietRow
    <3>2. activeFrames' = activeFrames
      BY <2>1, <3>1, UnmovedActive, ActiveKept
    <3>3. QED
      BY <3>1, <3>2, SimulateStutter
  <2>6. QED
    BY <2>2, <2>3, <2>4, <2>5 DEF RowStep
<1>2. CASE (\E d \in Drivers : DriverStep(d)) \/ (\E e \in Publishers : PublisherStep(e))
  BY <1>0, <1>2, SimulateOutside
<1>3. CASE UNCHANGED vars
  <2>1. UNCHANGED <<next, progress, tail>> /\ activeFrames' = activeFrames
    BY <1>3 DEF vars, stageVars, queueVars, localVars, activeFrames, Claimed
  <2>2. QED
    BY <2>1, SimulateStutter
<1>4. QED
  BY <1>1, <1>2, <1>3 DEF Next, Terminated

(* Whatever the scanners, parks and signals do, the frames see a pipeline  *)
(* whose rows run one at a time, in order and after their inputs: the      *)
(* promise of the module's header (rows.rs:1-18).                          *)
THEOREM Implementation == Spec => ImplementsRowPipeline
<1>1. Init => Pipeline!Init
  BY SimulateInit
<1>2. IInv /\ IInv' /\ PublishedInv /\ [Next]_vars => [Pipeline!Next]_(Pipeline!vars)
  BY SimulateNext
<1>3. Spec => []PublishedInv
  BY RanRowsArePublished
<1>4. QED
  BY <1>1, <1>2, <1>3, SpecIInv, PTL DEF Spec, ImplementsRowPipeline, Pipeline!Spec
=============================================================================
