------------------------ MODULE RowScheduler_proofs ------------------------
(***************************************************************************)
(* Proofs about the row scheduler for any number of workers, drivers,      *)
(* publishers, frames and rows.  TypeOK is not inductive by itself: that a *)
(* scan stays inside the queue and a claimed row inside its stage is what  *)
(* ClaimInv says, so the two are proved together.                          *)
(***************************************************************************)
EXTENDS RowScheduler, TLAPS

IInv == TypeOK /\ ClaimInv

(* Every control point a step goes to is one of Points. *)
LEMMA PointNames ==
  /\ "bump" \in Points /\ "peek" \in Points /\ "knock" \in Points /\ "count" \in Points
  /\ "swap" \in Points /\ "signal" \in Points /\ "scan" \in Points /\ "next" \in Points
  /\ "cas" \in Points /\ "recheck" \in Points /\ "pass" \in Points /\ "passcheck" \in Points
  /\ "run" \in Points /\ "finish" \in Points /\ "release" \in Points /\ "done" \in Points
  /\ "observe" \in Points /\ "lock" \in Points /\ "drop" \in Points /\ "pop" \in Points
  /\ "enlist" \in Points /\ "clear" \in Points /\ "test" \in Points /\ "asleep" \in Points
  /\ "notified" \in Points /\ "exited" \in Points /\ "check" \in Points /\ "push" \in Points
  /\ "dpark" \in Points /\ "dtest" \in Points /\ "close" \in Points /\ "join" \in Points
  /\ "gone" \in Points /\ "idle" \in Points
  BY DEF Points, NotifyPoints, ScanPoints, ClaimedPoints

LEMMA Bounds == NumFrames \in Nat /\ NumRows \in Nat /\ NumRows > 0
  BY ConstantsAssumption

(* The threshold of a row is a row count of its input. *)
LEMMA NeedType == ASSUME NEW r \in Nat PROVE Need(r) \in 0 .. NumRows
  BY ConstantsAssumption DEF Need

(* Initially nothing is claimed and every variable has its type. *)
LEMMA InitIInv == Init => IInv
<1> SUFFICES ASSUME Init PROVE IInv
  OBVIOUS
<1>1. TypeOK
  <2> USE Bounds, ConstantsAssumption DEF Init
  <2>1. StageType
    BY DEF StageType, FAILED, Frame
  <2>2. QueueType
    <3>1. shutdown \in BOOLEAN
      OBVIOUS
    <3>2. tail \in 0 .. NumFrames /\ head \in 0 .. tail
      OBVIOUS
    <3>3. QED
      BY <3>1, <3>2 DEF QueueType
  <2>3. EventType
    BY DEF EventType
  <2>4. ControlType
    BY PointNames DEF ControlType
  <2>5. LocalType
    BY DEF LocalType
  <2>6. QED
    BY <2>1, <2>2, <2>3, <2>4, <2>5 DEF TypeOK
<1>2. \A w \in Workers : pc[w] = "observe"
  BY ConstantsAssumption DEF Init, Thread
<1>3. ClaimInv
  BY <1>2 DEF ClaimInv, ClaimOf, Owns, Holds, Claimed, ClaimedPoints, NotifyPoints
<1>4. QED
  BY <1>1, <1>3 DEF IInv

(* Waking and signalling threads changes nothing but where threads are. *)
LEMMA NotifyType ==
  ASSUME TypeOK, NEW t \in Thread, NotifyStep(t)
  PROVE  TypeOK'
<1> USE PointNames DEF TypeOK, Goto, stageVars, queueVars, eventVars, localVars
<1>1. CASE Bump(t)
  <2>1. StageType'
    BY <1>1 DEF Bump, StageType
  <2>2. QueueType'
    BY <1>1 DEF Bump, QueueType
  <2>3. EventType'
    BY <1>1 DEF Bump, EventType
  <2>4. ControlType'
    BY <1>1 DEF Bump, ControlType
  <2>5. LocalType'
    BY <1>1 DEF Bump, LocalType
  <2>6. QED
    BY <2>1, <2>2, <2>3, <2>4, <2>5 DEF TypeOK
<1>2. CASE Peek(t)
  <2>1. StageType'
    BY <1>2 DEF Peek, StageType
  <2>2. QueueType'
    BY <1>2 DEF Peek, QueueType
  <2>3. EventType'
    BY <1>2 DEF Peek, EventType
  <2>4. ControlType'
    BY <1>2 DEF Peek, ControlType
  <2>5. LocalType'
    BY <1>2 DEF Peek, LocalType
  <2>6. QED
    BY <2>1, <2>2, <2>3, <2>4, <2>5 DEF TypeOK
<1>3. CASE Knock(t)
  <2>1. StageType'
    BY <1>3 DEF Knock, StageType
  <2>2. QueueType'
    BY <1>3 DEF Knock, QueueType
  <2>3. EventType'
    BY <1>3 DEF Knock, EventType
  <2>4. ControlType'
    BY <1>3 DEF Knock, ControlType
  <2>5. LocalType'
    BY <1>3 DEF Knock, LocalType
  <2>6. QED
    BY <2>1, <2>2, <2>3, <2>4, <2>5 DEF TypeOK
<1>4. CASE Count(t)
  <2>1. StageType'
    BY <1>4 DEF Count, StageType
  <2>2. QueueType'
    BY <1>4 DEF Count, QueueType
  <2>3. EventType'
    BY <1>4 DEF Count, EventType
  <2>4. ControlType'
    BY <1>4 DEF Count, ControlType
  <2>5. LocalType'
    BY <1>4 DEF Count, LocalType
  <2>6. QED
    BY <2>1, <2>2, <2>3, <2>4, <2>5 DEF TypeOK
<1>5. CASE Swap(t)
  <2>1. StageType'
    BY <1>5 DEF Swap, StageType
  <2>2. QueueType'
    BY <1>5 DEF Swap, QueueType
  <2>3. EventType'
    BY <1>5 DEF Swap, EventType
  <2>4. ControlType'
    BY <1>5 DEF Swap, ControlType
  <2>5. LocalType'
    BY <1>5 DEF Swap, LocalType
  <2>6. QED
    BY <2>1, <2>2, <2>3, <2>4, <2>5 DEF TypeOK
<1>6. CASE Signal(t)
  <2>1. StageType'
    BY <1>6 DEF Signal, StageType
  <2>2. QueueType'
    BY <1>6 DEF Signal, QueueType
  <2>3. EventType'
    BY <1>6 DEF Signal, EventType
  <2>4. ControlType'
    BY <1>6 DEF Signal, ControlType
  <2>5. LocalType'
    BY <1>6 DEF Signal, LocalType
  <2>6. QED
    BY <2>1, <2>2, <2>3, <2>4, <2>5 DEF TypeOK
<1>7. QED
  BY <1>1, <1>2, <1>3, <1>4, <1>5, <1>6 DEF NotifyStep

(* The steps of a worker keep the types, given where its scan stands. *)
LEMMA WorkerType ==
  ASSUME TypeOK, ClaimInv, NEW w \in Workers, WorkerStep(w)
  PROVE  TypeOK'
<1> USE Bounds, PointNames
    DEF TypeOK, Goto, NextFrame, CallNotify, Leave, stageVars, queueVars,
        eventVars, localVars, Thread, Frame
<1>0. /\ pc[w] = "scan" => cur[w] \in 1 .. tail + 1
      /\ pc[w] \in {"next", "cas", "recheck", "run", "finish", "release", "done"}
           => cur[w] \in 1 .. tail
      /\ pc[w] = "finish" \/ pc[w] = "run" => row[w] < NumRows
  BY DEF ClaimInv, ClaimOf, Owns, Holds, Claimed, ClaimedPoints
<1>1. CASE Observe(w)
  <2>1. StageType'
    BY <1>1 DEF Observe, StageType
  <2>2. QueueType'
    BY <1>1 DEF Observe, QueueType
  <2>3. EventType'
    BY <1>1 DEF Observe, EventType
  <2>4. ControlType'
    BY <1>1 DEF Observe, ControlType
  <2>5. LocalType'
    BY <1>1 DEF Observe, LocalType
  <2>6. QED
    BY <2>1, <2>2, <2>3, <2>4, <2>5 DEF TypeOK
<1>2. CASE Lock(w)
  <2>1. StageType'
    BY <1>2 DEF Lock, StageType
  <2>2. QueueType'
    BY <1>2 DEF Lock, QueueType
  <2>3. EventType'
    BY <1>2 DEF Lock, EventType
  <2>4. ControlType'
    BY <1>2 DEF Lock, ControlType
  <2>5. LocalType'
    BY <1>2 DEF Lock, LocalType, QueueType
  <2>6. QED
    BY <2>1, <2>2, <2>3, <2>4, <2>5 DEF TypeOK
<1>3. CASE ScanEnd(w)
  <2>1. StageType'
    BY <1>3 DEF ScanEnd, StageType
  <2>2. QueueType'
    BY <1>3 DEF ScanEnd, QueueType
  <2>3. EventType'
    BY <1>3 DEF ScanEnd, EventType
  <2>4. ControlType'
    BY <1>3 DEF ScanEnd, ControlType
  <2>5. LocalType'
    BY <1>3 DEF ScanEnd, LocalType
  <2>6. QED
    BY <2>1, <2>2, <2>3, <2>4, <2>5 DEF TypeOK
<1>4. CASE LoadRunning(w)
  <2>1. StageType'
    BY <1>4, <1>0 DEF LoadRunning, StageType
  <2>2. QueueType'
    BY <1>4, <1>0 DEF LoadRunning, QueueType
  <2>3. EventType'
    BY <1>4, <1>0 DEF LoadRunning, EventType
  <2>4. ControlType'
    BY <1>4, <1>0 DEF LoadRunning, ControlType
  <2>5. LocalType'
    BY <1>4, <1>0 DEF LoadRunning, LocalType, QueueType
  <2>6. QED
    BY <2>1, <2>2, <2>3, <2>4, <2>5 DEF TypeOK
<1>5. CASE LoadNext(w)
  <2>1. StageType'
    BY <1>5, <1>0 DEF LoadNext, StageType
  <2>2. QueueType'
    BY <1>5, <1>0 DEF LoadNext, QueueType
  <2>3. EventType'
    BY <1>5, <1>0 DEF LoadNext, EventType
  <2>4. ControlType'
    BY <1>5, <1>0 DEF LoadNext, ControlType
  <2>5. LocalType'
    <3>1. /\ cur' = cur \/ cur' = [cur EXCEPT ![w] = @ + 1]
          /\ row' = row \/ row' = [row EXCEPT ![w] = next[cur[w]]]
          /\ woken' = woken /\ all' = all
      BY <1>5 DEF LoadNext
    <3>2. cur[w] \in 1 .. NumFrames /\ next[cur[w]] \in 0 .. NumRows
      BY <1>5, <1>0 DEF LoadNext, QueueType, StageType
    <3>3. (cur \in [Workers -> 0 .. NumFrames + 1])'
      BY <3>1, <3>2 DEF LocalType
    <3>4. (row \in [Workers -> 0 .. NumRows])'
      BY <3>1, <3>2 DEF LocalType
    <3>5. QED
      BY <3>1, <3>3, <3>4 DEF LocalType
  <2>6. QED
    BY <2>1, <2>2, <2>3, <2>4, <2>5 DEF TypeOK
<1>6. CASE Exchange(w)
  <2>1. StageType'
    BY <1>6, <1>0 DEF Exchange, StageType
  <2>2. QueueType'
    BY <1>6, <1>0 DEF Exchange, QueueType
  <2>3. EventType'
    BY <1>6, <1>0 DEF Exchange, EventType
  <2>4. ControlType'
    BY <1>6, <1>0 DEF Exchange, ControlType
  <2>5. LocalType'
    BY <1>6, <1>0 DEF Exchange, LocalType, QueueType
  <2>6. QED
    BY <2>1, <2>2, <2>3, <2>4, <2>5 DEF TypeOK
<1>7. CASE Recheck(w)
  <2>1. StageType'
    BY <1>7, <1>0 DEF Recheck, StageType
  <2>2. QueueType'
    BY <1>7, <1>0 DEF Recheck, QueueType
  <2>3. EventType'
    BY <1>7, <1>0 DEF Recheck, EventType
  <2>4. ControlType'
    <3>1. pc' = [pc EXCEPT ![w] = "scan"] \/ pc' = [pc EXCEPT ![w] = "pass"]
          \/ pc' = [pc EXCEPT ![w] = "run"]
      BY <1>7 DEF Recheck
    <3>2. QED
      BY <1>7, <3>1 DEF Recheck, ControlType
  <2>5. LocalType'
    <3>1. /\ cur' = cur \/ cur' = [cur EXCEPT ![w] = @ + 1]
          /\ woken' = woken \/ woken' = [woken EXCEPT ![w] = FALSE]
          /\ row' = row /\ all' = all
      BY <1>7 DEF Recheck
    <3>2. cur[w] \in 1 .. NumFrames
      BY <1>7, <1>0 DEF Recheck, QueueType
    <3>3. (cur \in [Workers -> 0 .. NumFrames + 1])'
      BY <3>1, <3>2 DEF LocalType
    <3>4. (woken \in [Workers -> BOOLEAN])'
      BY <3>1 DEF LocalType
    <3>5. QED
      BY <3>1, <3>3, <3>4 DEF LocalType
  <2>6. QED
    BY <2>1, <2>2, <2>3, <2>4, <2>5 DEF TypeOK
<1>8. CASE PassOn(w)
  <2>1. StageType'
    BY <1>8 DEF PassOn, StageType
  <2>2. QueueType'
    BY <1>8 DEF PassOn, QueueType
  <2>3. EventType'
    BY <1>8 DEF PassOn, EventType
  <2>4. ControlType'
    BY <1>8 DEF PassOn, ControlType
  <2>5. LocalType'
    BY <1>8 DEF PassOn, LocalType
  <2>6. QED
    BY <2>1, <2>2, <2>3, <2>4, <2>5 DEF TypeOK
<1>9. CASE PassCheck(w)
  <2>1. StageType'
    BY <1>9 DEF PassCheck, StageType
  <2>2. QueueType'
    BY <1>9 DEF PassCheck, QueueType
  <2>3. EventType'
    BY <1>9 DEF PassCheck, EventType
  <2>4. ControlType'
    BY <1>9 DEF PassCheck, ControlType
  <2>5. LocalType'
    BY <1>9 DEF PassCheck, LocalType
  <2>6. QED
    BY <2>1, <2>2, <2>3, <2>4, <2>5 DEF TypeOK
<1>10. CASE RunRow(w)
  <2>1. StageType'
    <3>1. PICK value \in {row[w] + 1, FAILED} :
            progress' = [progress EXCEPT ![cur[w]] = value] \/ progress' = progress
      BY <1>10 DEF RunRow
    <3>2. value \in 0 .. FAILED
      BY <1>10, <1>0 DEF RunRow, FAILED, LocalType
    <3>3. next' = next /\ running' = running
      BY <1>10 DEF RunRow
    <3>4. QED
      BY <3>1, <3>2, <3>3 DEF StageType
  <2>2. QueueType'
    BY <1>10, <1>0 DEF RunRow, FAILED, QueueType
  <2>3. EventType'
    BY <1>10, <1>0 DEF RunRow, FAILED, EventType
  <2>4. ControlType'
    <3>1. /\ pc' = [pc EXCEPT ![w] = "bump"] \/ pc' = [pc EXCEPT ![w] = "finish"]
          /\ ret' = [ret EXCEPT ![w] = "finish"] \/ ret' = ret
      BY <1>10 DEF RunRow
    <3>2. QED
      BY <3>1 DEF ControlType
  <2>5. LocalType'
    BY <1>10, <1>0 DEF RunRow, FAILED, LocalType
  <2>6. QED
    BY <2>1, <2>2, <2>3, <2>4, <2>5 DEF TypeOK
<1>11. CASE Finish(w)
  <2>1. StageType'
    <3>1. row[w] + 1 \in 0 .. NumRows
      BY <1>11, <1>0 DEF Finish, LocalType
    <3>2. QED
      BY <1>11, <3>1 DEF Finish, StageType
  <2>2. QueueType'
    BY <1>11, <1>0 DEF Finish, QueueType
  <2>3. EventType'
    BY <1>11, <1>0 DEF Finish, EventType
  <2>4. ControlType'
    BY <1>11, <1>0 DEF Finish, ControlType
  <2>5. LocalType'
    BY <1>11, <1>0 DEF Finish, LocalType
  <2>6. QED
    BY <2>1, <2>2, <2>3, <2>4, <2>5 DEF TypeOK
<1>12. CASE Release(w)
  <2>1. StageType'
    BY <1>12, <1>0 DEF Release, StageType
  <2>2. QueueType'
    BY <1>12, <1>0 DEF Release, QueueType
  <2>3. EventType'
    BY <1>12, <1>0 DEF Release, EventType
  <2>4. ControlType'
    BY <1>12, <1>0 DEF Release, ControlType
  <2>5. LocalType'
    BY <1>12, <1>0 DEF Release, LocalType
  <2>6. QED
    BY <2>1, <2>2, <2>3, <2>4, <2>5 DEF TypeOK
<1>13. CASE ReadDone(w)
  <2>1. StageType'
    BY <1>13, <1>0 DEF ReadDone, Done, StageType
  <2>2. QueueType'
    BY <1>13, <1>0 DEF ReadDone, Done, QueueType
  <2>3. EventType'
    BY <1>13, <1>0 DEF ReadDone, Done, EventType
  <2>4. ControlType'
    BY <1>13, <1>0 DEF ReadDone, Done, ControlType
  <2>5. LocalType'
    BY <1>13, <1>0 DEF ReadDone, Done, LocalType
  <2>6. QED
    BY <2>1, <2>2, <2>3, <2>4, <2>5 DEF TypeOK
<1>14. CASE DropHandle(w)
  <2>1. StageType'
    BY <1>14 DEF DropHandle, StageType
  <2>2. QueueType'
    BY <1>14 DEF DropHandle, QueueType
  <2>3. EventType'
    BY <1>14 DEF DropHandle, EventType
  <2>4. ControlType'
    BY <1>14 DEF DropHandle, ControlType
  <2>5. LocalType'
    BY <1>14 DEF DropHandle, LocalType
  <2>6. QED
    BY <2>1, <2>2, <2>3, <2>4, <2>5 DEF TypeOK
<1>15. CASE Pop(w)
  <2>1. StageType'
    BY <1>15 DEF Pop, StageType
  <2>2. QueueType'
    BY <1>15 DEF Pop, QueueType
  <2>3. EventType'
    BY <1>15 DEF Pop, EventType
  <2>4. ControlType'
    BY <1>15 DEF Pop, ControlType
  <2>5. LocalType'
    BY <1>15 DEF Pop, LocalType
  <2>6. QED
    BY <2>1, <2>2, <2>3, <2>4, <2>5 DEF TypeOK
<1>16. CASE Enlist(w)
  <2>1. StageType'
    BY <1>16 DEF Enlist, StageType
  <2>2. QueueType'
    BY <1>16 DEF Enlist, QueueType
  <2>3. EventType'
    BY <1>16 DEF Enlist, EventType
  <2>4. ControlType'
    BY <1>16 DEF Enlist, ControlType
  <2>5. LocalType'
    BY <1>16 DEF Enlist, LocalType
  <2>6. QED
    BY <2>1, <2>2, <2>3, <2>4, <2>5 DEF TypeOK
<1>17. CASE Clear(w)
  <2>1. StageType'
    BY <1>17 DEF Clear, StageType
  <2>2. QueueType'
    BY <1>17 DEF Clear, QueueType
  <2>3. EventType'
    BY <1>17 DEF Clear, EventType
  <2>4. ControlType'
    BY <1>17 DEF Clear, ControlType
  <2>5. LocalType'
    BY <1>17 DEF Clear, LocalType
  <2>6. QED
    BY <2>1, <2>2, <2>3, <2>4, <2>5 DEF TypeOK
<1>18. CASE Test(w)
  <2>1. StageType'
    BY <1>18 DEF Test, StageType
  <2>2. QueueType'
    BY <1>18 DEF Test, QueueType
  <2>3. EventType'
    BY <1>18 DEF Test, EventType
  <2>4. ControlType'
    BY <1>18 DEF Test, ControlType
  <2>5. LocalType'
    BY <1>18 DEF Test, LocalType
  <2>6. QED
    BY <2>1, <2>2, <2>3, <2>4, <2>5 DEF TypeOK
<1>19. CASE Wake(w)
  <2>1. StageType'
    BY <1>19 DEF Wake, StageType
  <2>2. QueueType'
    BY <1>19 DEF Wake, QueueType
  <2>3. EventType'
    BY <1>19 DEF Wake, EventType
  <2>4. ControlType'
    BY <1>19 DEF Wake, ControlType
  <2>5. LocalType'
    BY <1>19 DEF Wake, LocalType
  <2>6. QED
    BY <2>1, <2>2, <2>3, <2>4, <2>5 DEF TypeOK
<1>20. CASE NotifyStep(w)
  BY <1>20, NotifyType
<1>21. QED
  BY <1>1, <1>2, <1>3, <1>4, <1>5, <1>6, <1>7, <1>8, <1>9, <1>10, <1>11,
     <1>12, <1>13, <1>14, <1>15, <1>16, <1>17, <1>18, <1>19, <1>20
     DEF WorkerStep

(* The steps of a driver and of a publisher keep the types. *)
LEMMA DriverType ==
  ASSUME TypeOK, NEW d \in Drivers, DriverStep(d)
  PROVE  TypeOK'
<1> USE Bounds, PointNames
    DEF TypeOK, Goto, CallNotify, stageVars, queueVars, eventVars, localVars,
        Thread
<1>1. CASE Observe(d)
  <2>1. StageType'
    BY <1>1 DEF Observe, StageType
  <2>2. QueueType'
    BY <1>1 DEF Observe, QueueType
  <2>3. EventType'
    BY <1>1 DEF Observe, EventType
  <2>4. ControlType'
    BY <1>1 DEF Observe, ControlType
  <2>5. LocalType'
    BY <1>1 DEF Observe, LocalType
  <2>6. QED
    BY <2>1, <2>2, <2>3, <2>4, <2>5 DEF TypeOK
<1>2. CASE Check(d)
  <2>1. StageType'
    BY <1>2 DEF Check, StageType
  <2>2. QueueType'
    BY <1>2 DEF Check, QueueType
  <2>3. EventType'
    BY <1>2 DEF Check, EventType
  <2>4. ControlType'
    BY <1>2 DEF Check, ControlType
  <2>5. LocalType'
    BY <1>2 DEF Check, LocalType
  <2>6. QED
    BY <2>1, <2>2, <2>3, <2>4, <2>5 DEF TypeOK
<1>3. CASE Push(d)
  <2>1. StageType'
    BY <1>3 DEF Push, StageType
  <2>2. QueueType'
    BY <1>3 DEF Push, QueueType
  <2>3. EventType'
    BY <1>3 DEF Push, EventType
  <2>4. ControlType'
    BY <1>3 DEF Push, ControlType
  <2>5. LocalType'
    BY <1>3 DEF Push, LocalType
  <2>6. QED
    BY <2>1, <2>2, <2>3, <2>4, <2>5 DEF TypeOK
<1>4. CASE DriverPark(d)
  <2>1. StageType'
    BY <1>4 DEF DriverPark, StageType
  <2>2. QueueType'
    BY <1>4 DEF DriverPark, QueueType
  <2>3. EventType'
    BY <1>4 DEF DriverPark, EventType
  <2>4. ControlType'
    BY <1>4 DEF DriverPark, ControlType
  <2>5. LocalType'
    BY <1>4 DEF DriverPark, LocalType
  <2>6. QED
    BY <2>1, <2>2, <2>3, <2>4, <2>5 DEF TypeOK
<1>5. CASE DriverTest(d)
  <2>1. StageType'
    BY <1>5 DEF DriverTest, StageType
  <2>2. QueueType'
    BY <1>5 DEF DriverTest, QueueType
  <2>3. EventType'
    BY <1>5 DEF DriverTest, EventType
  <2>4. ControlType'
    BY <1>5 DEF DriverTest, ControlType
  <2>5. LocalType'
    BY <1>5 DEF DriverTest, LocalType
  <2>6. QED
    BY <2>1, <2>2, <2>3, <2>4, <2>5 DEF TypeOK
<1>6. CASE DriverWake(d)
  <2>1. StageType'
    BY <1>6 DEF DriverWake, StageType
  <2>2. QueueType'
    BY <1>6 DEF DriverWake, QueueType
  <2>3. EventType'
    BY <1>6 DEF DriverWake, EventType
  <2>4. ControlType'
    BY <1>6 DEF DriverWake, ControlType
  <2>5. LocalType'
    BY <1>6 DEF DriverWake, LocalType
  <2>6. QED
    BY <2>1, <2>2, <2>3, <2>4, <2>5 DEF TypeOK
<1>7. CASE Close(d)
  <2>1. StageType'
    BY <1>7 DEF Close, StageType
  <2>2. QueueType'
    BY <1>7 DEF Close, QueueType
  <2>3. EventType'
    BY <1>7 DEF Close, EventType
  <2>4. ControlType'
    BY <1>7 DEF Close, ControlType
  <2>5. LocalType'
    BY <1>7 DEF Close, LocalType
  <2>6. QED
    BY <2>1, <2>2, <2>3, <2>4, <2>5 DEF TypeOK
<1>8. CASE Join(d)
  <2>1. StageType'
    BY <1>8 DEF Join, StageType
  <2>2. QueueType'
    BY <1>8 DEF Join, QueueType
  <2>3. EventType'
    BY <1>8 DEF Join, EventType
  <2>4. ControlType'
    BY <1>8 DEF Join, ControlType
  <2>5. LocalType'
    BY <1>8 DEF Join, LocalType
  <2>6. QED
    BY <2>1, <2>2, <2>3, <2>4, <2>5 DEF TypeOK
<1>9. CASE NotifyStep(d)
  BY <1>9, NotifyType
<1>10. QED
  BY <1>1, <1>2, <1>3, <1>4, <1>5, <1>6, <1>7, <1>8, <1>9 DEF DriverStep

LEMMA PublisherType ==
  ASSUME TypeOK, NEW e \in Publishers, PublisherStep(e)
  PROVE  TypeOK'
<1> USE Bounds, PointNames
    DEF TypeOK, Goto, CallNotify, stageVars, queueVars, eventVars, localVars,
        Thread, FAILED
<1>1. CASE Publish(e)
  <2>1. StageType'
    BY <1>1 DEF Publish, StageType
  <2>2. QueueType'
    BY <1>1 DEF Publish, QueueType
  <2>3. EventType'
    BY <1>1 DEF Publish, EventType
  <2>4. ControlType'
    BY <1>1 DEF Publish, ControlType
  <2>5. LocalType'
    BY <1>1 DEF Publish, LocalType
  <2>6. QED
    BY <2>1, <2>2, <2>3, <2>4, <2>5 DEF TypeOK
<1>2. CASE NotifyStep(e)
  BY <1>2, NotifyType
<1>3. QED
  BY <1>1, <1>2 DEF PublisherStep

-----------------------------------------------------------------------------
(* The claim protocol.  A step of one thread leaves the locals of every    *)
(* other worker alone, except that it may move a sleeper to "notified".    *)

Unmoved(v) ==
    /\ cur'[v] = cur[v] /\ row'[v] = row[v] /\ ret'[v] = ret[v]
    /\ pc'[v] = pc[v] \/ (pc[v] = "asleep" /\ pc'[v] = "notified")

(* What a step may do to the stage under the claim of another worker. *)
StageKept(v) ==
    /\ Owns(v) => running'[cur[v]] /\ next'[cur[v]] = next[cur[v]]
    /\ \A f \in 0 .. NumFrames : progress'[f] >= progress[f]
    /\ tail' >= tail

LEMMA UnmovedOwner ==
  ASSUME NEW v \in Workers, Unmoved(v)
  PROVE  (Owns(v)' <=> Owns(v)) /\ (Holds(v)' <=> Holds(v)) /\ (Claimed(v)' <=> Claimed(v))
  BY DEF Unmoved, Owns, Holds, Claimed, ClaimedPoints, NotifyPoints

LEMMA ClaimKept ==
  ASSUME TypeOK, TypeOK', ClaimInv, NEW v \in Workers, Unmoved(v), StageKept(v)
  PROVE  ClaimOf(v)'
<1> USE UnmovedOwner
<1>1. ClaimOf(v)
  BY DEF ClaimInv
<1>2. tail \in Nat /\ tail' \in Nat /\ tail <= tail' /\ tail <= NumFrames /\ NumFrames \in Nat
  BY Bounds DEF StageKept, TypeOK, QueueType
<1>3. (pc[v] = "scan" => cur[v] \in 1 .. tail + 1)'
  BY <1>1, <1>2 DEF Unmoved, ClaimOf
<1>4. (pc[v] \in {"next", "cas"} \/ Owns(v) \/ Holds(v) => cur[v] \in 1 .. tail)'
  BY <1>1, <1>2 DEF Unmoved, ClaimOf
<1>5. (pc[v] = "cas" \/ Owns(v) => row[v] < NumRows /\ Ready(cur[v], row[v]))'
  <2> SUFFICES ASSUME (pc[v] = "cas" \/ Owns(v))'
               PROVE  row[v] < NumRows /\ progress'[Needs[cur[v]]] >= Need(row[v])
    BY DEF Unmoved, Ready
  <2>1. pc[v] = "cas" \/ Owns(v)
    BY DEF Unmoved
  <2>2. /\ cur[v] \in 1 .. NumFrames
        /\ row[v] < NumRows /\ progress[Needs[cur[v]]] >= Need(row[v])
    BY <1>1, <1>2, <2>1 DEF ClaimOf, Ready
  <2>3. Needs[cur[v]] \in 0 .. NumFrames
    BY <2>2, ConstantsAssumption DEF Frame
  <2>4. Need(row[v]) \in Nat
    BY NeedType, Bounds DEF TypeOK, LocalType
  <2>5. /\ progress[Needs[cur[v]]] \in 0 .. FAILED
        /\ progress'[Needs[cur[v]]] \in 0 .. FAILED
        /\ progress'[Needs[cur[v]]] >= progress[Needs[cur[v]]]
    BY <2>3 DEF TypeOK, StageType, StageKept
  <2>6. QED
    BY <2>2, <2>4, <2>5 DEF FAILED
<1>6. (Owns(v) => running[cur[v]])'
  BY DEF Unmoved, StageKept
<1>7. (Claimed(v) /\ pc[v] # "release" => next[cur[v]] = row[v])'
  BY <1>1 DEF Unmoved, StageKept, ClaimOf, Owns
<1>8. QED
  BY <1>3, <1>4, <1>5, <1>6, <1>7 DEF ClaimOf

LEMMA ClaimCombine ==
  ASSUME TypeOK, TypeOK', ClaimInv, NEW w \in Workers, ClaimOf(w)',
         \A v \in Workers \ {w} : Unmoved(v) /\ StageKept(v),
         \A v \in Workers \ {w} : Owns(w)' /\ Owns(v) => cur'[w] # cur[v]
  PROVE  ClaimInv'
<1>1. ASSUME NEW v \in Workers PROVE ClaimOf(v)'
  BY ClaimKept
<1>2. ASSUME NEW u \in Workers, NEW v \in Workers, u # v, Owns(u)', Owns(v)'
      PROVE  cur'[u] # cur'[v]
  BY <1>2, UnmovedOwner DEF Unmoved, ClaimInv
<1>3. QED
  BY <1>1, <1>2 DEF ClaimInv

LEMMA NotifyUnmoved ==
  ASSUME TypeOK, NEW t \in Thread, NotifyStep(t), NEW v \in Workers, v # t
  PROVE  Unmoved(v)
<1>1. /\ cur' = cur /\ row' = row /\ ret' = ret
      /\ pc'[v] = pc[v] \/ (pc[v] = "asleep" /\ pc'[v] = "notified")
  <2> USE DEF TypeOK, ControlType, Goto, localVars, Thread
  <2>1. CASE Bump(t)
    BY <2>1 DEF Bump
  <2>2. CASE Peek(t)
    BY <2>2 DEF Peek
  <2>3. CASE Knock(t)
    BY <2>3 DEF Knock
  <2>4. CASE Count(t)
    BY <2>4 DEF Count
  <2>5. CASE Swap(t)
    BY <2>5 DEF Swap
  <2>6. CASE Signal(t)
    BY <2>6 DEF Signal
  <2>7. QED
    BY <2>1, <2>2, <2>3, <2>4, <2>5, <2>6 DEF NotifyStep
<1>2. QED
  BY <1>1 DEF Unmoved

(* A worker's own steps leave every other worker where it is. *)
LEMMA WorkerUnmoved ==
  ASSUME TypeOK, NEW w \in Workers, WorkerStep(w), NEW v \in Workers, v # w
  PROVE  Unmoved(v)
<1> USE DEF TypeOK, ControlType, LocalType, Goto, NextFrame, CallNotify, Leave,
            localVars, Thread, Unmoved
<1>1. CASE Observe(w) \/ Lock(w) \/ ScanEnd(w) \/ LoadRunning(w)
  BY <1>1 DEF Observe, Lock, ScanEnd, LoadRunning
<1>2. CASE LoadNext(w) \/ Exchange(w) \/ Recheck(w)
  BY <1>2 DEF LoadNext, Exchange, Recheck
<1>3. CASE PassOn(w) \/ PassCheck(w) \/ RunRow(w)
  BY <1>3 DEF PassOn, PassCheck, RunRow
<1>4. CASE Finish(w) \/ Release(w) \/ ReadDone(w) \/ DropHandle(w)
  BY <1>4 DEF Finish, Release, ReadDone, DropHandle
<1>5. CASE Pop(w) \/ Enlist(w) \/ Clear(w) \/ Test(w) \/ Wake(w)
  BY <1>5 DEF Pop, Enlist, Clear, Test, Wake
<1>6. CASE NotifyStep(w)
  BY <1>6, NotifyUnmoved
<1>7. QED
  BY <1>1, <1>2, <1>3, <1>4, <1>5, <1>6 DEF WorkerStep

(* A step of one of them leaves the stages, their counters and the pushed  *)
(* frames alone, whatever else it does.                                    *)
LEMMA QuietStage ==
  ASSUME TypeOK, ClaimInv, UNCHANGED stageVars, tail' >= tail, NEW v \in Workers
  PROVE  StageKept(v)
<1>1. Owns(v) => running'[cur[v]] /\ next'[cur[v]] = next[cur[v]]
  BY DEF stageVars, ClaimInv, ClaimOf
<1>2. \A f \in 0 .. NumFrames : progress'[f] >= progress[f]
  BY Bounds DEF stageVars, TypeOK, StageType, FAILED
<1>3. QED
  BY <1>1, <1>2 DEF StageKept

LEMMA NotifyStage ==
  ASSUME NEW t \in Thread, NotifyStep(t)
  PROVE  UNCHANGED <<stageVars, queueVars>>
BY DEF NotifyStep, Bump, Peek, Knock, Count, Swap, Signal

(* Running a row only raises counters: publish takes the maximum.          *)
LEMMA RowRaises ==
  ASSUME TypeOK, NEW w \in Workers, RunRow(w)
  PROVE  \A f \in 0 .. NumFrames : progress'[f] >= progress[f]
<1>2. PICK value \in {row[w] + 1, FAILED} :
        \/ progress[cur[w]] < value /\ progress' = [progress EXCEPT ![cur[w]] = value]
        \/ progress' = progress
  BY DEF RunRow
<1>3. value \in Nat
  BY <1>2, Bounds DEF TypeOK, LocalType, FAILED
<1>4. ASSUME NEW f \in 0 .. NumFrames PROVE progress'[f] >= progress[f]
  <2>1. progress[f] \in Nat /\ DOMAIN progress = 0 .. NumFrames
    BY Bounds DEF TypeOK, StageType, FAILED
  <2>2. progress'[f] = progress[f] \/ (progress'[f] = value /\ progress[f] < value)
    BY <1>2, <2>1
  <2>3. QED
    BY <1>3, <2>1, <2>2
<1>5. QED
  BY <1>4

(* The stage under another worker's claim is not disturbed by a worker:    *)
(* only the owner of a stage lowers its flag or moves its cursor.          *)
LEMMA WorkerStage ==
  ASSUME TypeOK, TypeOK', ClaimInv, NEW w \in Workers, WorkerStep(w),
         NEW v \in Workers, v # w
  PROVE  StageKept(v)
<1> USE DEF queueVars
<1>0. tail \in Nat /\ tail' \in Nat
  BY Bounds DEF TypeOK, QueueType
<1>1. CASE Exchange(w)
  <2>1. Owns(v) => cur[v] \in Frame
    BY <1>0, Bounds DEF ClaimInv, ClaimOf, TypeOK, QueueType, Frame
  <2>2. next' = next /\ progress' = progress /\ tail' = tail
    BY <1>1 DEF Exchange
  <2>3. running' = running \/ running' = [running EXCEPT ![cur[w]] = TRUE]
    BY <1>1 DEF Exchange
  <2>4. Owns(v) => running'[cur[v]]
    BY <2>1, <2>3 DEF ClaimInv, ClaimOf, TypeOK, StageType
  <2>5. \A f \in 0 .. NumFrames : progress'[f] >= progress[f]
    BY <2>2, Bounds DEF TypeOK, StageType, FAILED
  <2>6. QED
    BY <2>2, <2>4, <2>5, <1>0 DEF StageKept
<1>2. CASE Recheck(w)
  <2>1. Owns(v) => cur[v] \in Frame /\ cur[v] # cur[w]
    BY <1>0, <1>2, Bounds DEF ClaimInv, ClaimOf, TypeOK, QueueType, Frame, Owns, Recheck
  <2>2. next' = next /\ progress' = progress /\ tail' = tail
    BY <1>2 DEF Recheck
  <2>3. running' = running \/ running' = [running EXCEPT ![cur[w]] = FALSE]
    BY <1>2 DEF Recheck
  <2>4. Owns(v) => running'[cur[v]]
    BY <2>1, <2>3 DEF ClaimInv, ClaimOf, TypeOK, StageType
  <2>5. \A f \in 0 .. NumFrames : progress'[f] >= progress[f]
    BY <2>2, Bounds DEF TypeOK, StageType, FAILED
  <2>6. QED
    BY <2>2, <2>4, <2>5, <1>0 DEF StageKept
<1>3. CASE Finish(w) \/ Release(w)
  <2>0. Owns(w)
    BY <1>3 DEF Finish, Release, Owns, Claimed, ClaimedPoints
  <2>1. Owns(v) => cur[v] \in Frame /\ cur[v] # cur[w]
    BY <1>0, <2>0, Bounds DEF ClaimInv, ClaimOf, TypeOK, QueueType, Frame
  <2>2. progress' = progress /\ tail' = tail
    BY <1>3 DEF Finish, Release
  <2>3. running' = running \/ running' = [running EXCEPT ![cur[w]] = FALSE]
    BY <1>3 DEF Finish, Release
  <2>4. Owns(v) => running'[cur[v]]
    BY <2>1, <2>3 DEF ClaimInv, ClaimOf, TypeOK, StageType
  <2>5. next' = next \/ next' = [next EXCEPT ![cur[w]] = row[w] + 1]
    BY <1>3 DEF Finish, Release
  <2>6. Owns(v) => next'[cur[v]] = next[cur[v]]
    BY <2>1, <2>5 DEF TypeOK, StageType
  <2>7. \A f \in 0 .. NumFrames : progress'[f] >= progress[f]
    BY <2>2, Bounds DEF TypeOK, StageType, FAILED
  <2>8. QED
    BY <2>2, <2>4, <2>6, <2>7, <1>0 DEF StageKept
<1>4. CASE RunRow(w)
  <2>1. next' = next /\ running' = running /\ tail' = tail
    BY <1>4 DEF RunRow
  <2>4. \A f \in 0 .. NumFrames : progress'[f] >= progress[f]
    BY <1>4, RowRaises
  <2>5. Owns(v) => running'[cur[v]]
    BY <2>1 DEF ClaimInv, ClaimOf
  <2>6. QED
    BY <2>1, <2>4, <2>5, <1>0 DEF StageKept
<1>5. CASE UNCHANGED stageVars /\ tail' = tail
  BY <1>0, <1>5, QuietStage
<1>6. Observe(w) \/ Lock(w) \/ ScanEnd(w) \/ LoadRunning(w) \/ LoadNext(w)
      \/ PassOn(w) \/ PassCheck(w) \/ ReadDone(w) \/ DropHandle(w)
      => UNCHANGED stageVars /\ tail' = tail
  BY DEF Observe, Lock, ScanEnd, LoadRunning, LoadNext, PassOn, PassCheck, ReadDone, DropHandle
<1>7. Pop(w) \/ Enlist(w) \/ Clear(w) \/ Test(w) \/ Wake(w) \/ NotifyStep(w)
      => UNCHANGED stageVars /\ tail' = tail
  BY NotifyStage DEF Pop, Enlist, Clear, Test, Wake, Thread
<1>8. QED
  BY <1>1, <1>2, <1>3, <1>4, <1>5, <1>6, <1>7 DEF WorkerStep

(* Points at which a worker neither scans nor holds a frame. *)
FreePoints == Points \ (ScanPoints \cup ClaimedPoints \cup NotifyPoints \cup {"done", "drop"})

LEMMA FreeClaim ==
  ASSUME NEW w \in Workers,
         \/ pc'[w] \in FreePoints
         \/ pc'[w] \in NotifyPoints /\ ret'[w] \notin {"run", "finish"}
  PROVE  ClaimOf(w)' /\ ~Owns(w)'
BY DEF FreePoints, ClaimOf, Owns, Holds, Claimed, ClaimedPoints, NotifyPoints, ScanPoints

(* A claim carried through a step that changes neither the stage nor what  *)
(* the worker claimed.                                                     *)
LEMMA CarriedClaim ==
  ASSUME TypeOK, ClaimInv, NEW w \in Workers, Claimed(w), Claimed(w)',
         UNCHANGED stageVars, UNCHANGED tail,
         cur'[w] = cur[w], row'[w] = row[w],
         pc[w] # "release", pc'[w] # "release"
  PROVE  ClaimOf(w)' /\ Owns(w)
<1>1. ClaimOf(w) /\ Owns(w) /\ Holds(w)
  BY DEF ClaimInv, Owns, Holds
<1>2. pc'[w] \notin {"scan", "next", "cas"}
  BY DEF Claimed, ClaimedPoints, NotifyPoints
<1>3. QED
  BY <1>1, <1>2 DEF ClaimOf, Ready, stageVars, Claimed, Owns, Holds

(* A step within notify, or from it back to its caller. *)
LEMMA NotifyClaim ==
  ASSUME TypeOK, ClaimInv, NEW w \in Workers, NotifyStep(w)
  PROVE  /\ ClaimOf(w)'
         /\ Owns(w)' => Owns(w) /\ cur'[w] = cur[w]
<1>1. /\ UNCHANGED <<stageVars, queueVars>> /\ cur' = cur /\ row' = row /\ ret' = ret
  BY DEF NotifyStep, Bump, Peek, Knock, Count, Swap, Signal, localVars
<1>2. pc[w] \in NotifyPoints
  BY DEF NotifyStep, Bump, Peek, Knock, Count, Swap, Signal, NotifyPoints
<1>3. pc'[w] \in NotifyPoints \/ pc'[w] = ret[w]
  <2> USE DEF TypeOK, ControlType, Goto, NotifyPoints, Thread
  <2>1. CASE Bump(w) \/ Peek(w) \/ Count(w) \/ Swap(w)
    BY <2>1 DEF Bump, Peek, Count, Swap
  <2>2. CASE Knock(w)
    BY <2>2 DEF Knock
  <2>3. CASE Signal(w)
    BY <2>3 DEF Signal
  <2>4. QED
    BY <2>1, <2>2, <2>3 DEF NotifyStep
<1>4. CASE ret[w] \in {"run", "finish"}
  <2>1. Claimed(w) /\ pc[w] # "release"
    BY <1>2, <1>4 DEF Claimed, NotifyPoints
  <2>2. Claimed(w)' /\ pc'[w] # "release"
    BY <1>1, <1>3, <1>4 DEF Claimed, ClaimedPoints, NotifyPoints
  <2>3. QED
    BY <1>1, <2>1, <2>2, CarriedClaim DEF queueVars
<1>5. CASE ret[w] \in {"observe", "join", "idle"}
  <2>1. \/ pc'[w] \in FreePoints
        \/ pc'[w] \in NotifyPoints /\ ret'[w] \notin {"run", "finish"}
    BY <1>1, <1>3, <1>5 DEF FreePoints, Points, ScanPoints, ClaimedPoints, NotifyPoints
  <2>2. QED
    BY <2>1, FreeClaim
<1>6. QED
  BY <1>4, <1>5 DEF TypeOK, ControlType, Thread

(* The scan: asking a frame, and the exchange that claims its next row. *)
LEMMA ScanClaim ==
  ASSUME TypeOK, ClaimInv, NEW w \in Workers,
         Lock(w) \/ LoadRunning(w) \/ LoadNext(w)
  PROVE  ClaimOf(w)' /\ ~Owns(w)'
<1> USE DEF TypeOK, Goto, NextFrame
<1>0. /\ head \in 0 .. tail /\ tail \in Nat /\ cur[w] \in Nat /\ w \in Thread
      /\ pc[w] \in {"next", "cas"} => cur[w] \in 1 .. tail
      /\ pc[w] = "scan" => cur[w] \in 1 .. tail + 1
  BY Bounds DEF QueueType, LocalType, ClaimInv, ClaimOf, Thread
<1>1. ASSUME pc'[w] = "scan", cur'[w] \in 1 .. tail' + 1
      PROVE  ClaimOf(w)' /\ ~Owns(w)'
  BY <1>1 DEF ClaimOf, Owns, Holds, Claimed, ClaimedPoints, NotifyPoints
<1>2. CASE Lock(w)
  BY <1>0, <1>1, <1>2 DEF Lock, ControlType, LocalType, queueVars
<1>3. CASE LoadRunning(w)
  <2>1. tail' = tail /\ cur[w] \in 1 .. tail
    BY <1>0, <1>3 DEF LoadRunning, queueVars
  <2>2. CASE running[cur[w]]
    BY <1>1, <1>3, <2>1, <2>2, <1>0 DEF LoadRunning, ControlType, LocalType
  <2>3. CASE ~running[cur[w]]
    <3>1. pc'[w] = "next" /\ cur'[w] \in 1 .. tail'
      BY <1>0, <1>3, <2>1, <2>3 DEF LoadRunning, ControlType
    <3>2. QED
      BY <3>1 DEF ClaimOf, Owns, Holds, Claimed, ClaimedPoints, NotifyPoints
  <2>4. QED
    BY <2>2, <2>3
<1>4. CASE LoadNext(w)
  <2>1. tail' = tail /\ cur[w] \in 1 .. tail /\ progress' = progress
    BY <1>0, <1>4 DEF LoadNext, queueVars, stageVars
  <2>2. CASE next[cur[w]] < NumRows /\ Ready(cur[w], next[cur[w]])
    <3>1. /\ pc'[w] = "cas" /\ cur'[w] = cur[w]
          /\ row'[w] = next[cur[w]]
      BY <1>0, <1>4, <2>2 DEF LoadNext, ControlType, LocalType
    <3>2. QED
      BY <2>1, <2>2, <3>1 DEF ClaimOf, Owns, Holds, Claimed, ClaimedPoints, NotifyPoints, Ready
  <2>3. CASE ~(next[cur[w]] < NumRows /\ Ready(cur[w], next[cur[w]]))
    <3>1. pc'[w] = "scan" /\ cur'[w] = cur[w] + 1
      BY <1>0, <1>4, <2>3 DEF LoadNext, ControlType, LocalType
    <3>2. QED
      BY <1>0, <1>1, <2>1, <3>1
  <2>4. QED
    BY <2>2, <2>3
<1>5. QED
  BY <1>2, <1>3, <1>4

LEMMA ExchangeClaim ==
  ASSUME TypeOK, ClaimInv, NEW w \in Workers, Exchange(w)
  PROVE  /\ ClaimOf(w)'
         /\ Owns(w)' => ~running[cur[w]] /\ cur'[w] = cur[w]
<1> USE DEF TypeOK, Goto, NextFrame
<1>0. /\ cur[w] \in 1 .. tail /\ tail \in Nat /\ w \in Thread /\ tail' = tail
      /\ row[w] < NumRows /\ Ready(cur[w], row[w])
      /\ progress' = progress /\ row' = row /\ next' = next
      /\ cur[w] \in Frame /\ cur[w] \in Nat
  BY Bounds DEF QueueType, ClaimInv, ClaimOf, Thread, Exchange, queueVars, Frame
<1>1. CASE running[cur[w]]
  <2>1. pc'[w] = "scan" /\ cur'[w] = cur[w] + 1
    BY <1>0, <1>1 DEF Exchange, ControlType, LocalType
  <2>2. QED
    BY <1>0, <2>1 DEF ClaimOf, Owns, Holds, Claimed, ClaimedPoints, NotifyPoints
<1>2. CASE ~running[cur[w]]
  <2>1. pc'[w] = "recheck" /\ cur'[w] = cur[w] /\ running'[cur[w]]
    BY <1>0, <1>2 DEF Exchange, ControlType, StageType
  <2>2. QED
    BY <1>0, <1>2, <2>1 DEF ClaimOf, Owns, Holds, Claimed, ClaimedPoints, NotifyPoints, Ready
<1>3. QED
  BY <1>1, <1>2

(* The second read of the cursor ties the claim to the row it names. *)
LEMMA RecheckClaim ==
  ASSUME TypeOK, ClaimInv, NEW w \in Workers, Recheck(w)
  PROVE  /\ ClaimOf(w)'
         /\ Owns(w)' => Owns(w) /\ cur'[w] = cur[w]
<1> USE DEF TypeOK, Goto, NextFrame
<1>0. /\ cur[w] \in 1 .. tail /\ tail \in Nat /\ w \in Thread /\ tail' = tail
      /\ row[w] < NumRows /\ Ready(cur[w], row[w]) /\ running[cur[w]] /\ Owns(w)
      /\ progress' = progress /\ row' = row /\ next' = next /\ cur[w] \in Nat
  BY Bounds DEF QueueType, ClaimInv, ClaimOf, Thread, Recheck, queueVars, Owns
<1>1. CASE next[cur[w]] # row[w]
  <2>1. pc'[w] = "scan" /\ cur'[w] = cur[w] + 1
    BY <1>0, <1>1 DEF Recheck, ControlType, LocalType
  <2>2. QED
    BY <1>0, <2>1 DEF ClaimOf, Owns, Holds, Claimed, ClaimedPoints, NotifyPoints
<1>2. CASE next[cur[w]] = row[w]
  <2>1. pc'[w] \in {"pass", "run"} /\ cur' = cur /\ running' = running
    BY <1>0, <1>2 DEF Recheck, ControlType
  <2>2. QED
    BY <1>0, <1>2, <2>1 DEF ClaimOf, Owns, Holds, Claimed, ClaimedPoints, NotifyPoints, Ready
<1>3. QED
  BY <1>1, <1>2

(* Running the row, storing the next one and clearing the flag. *)
LEMMA RunClaim ==
  ASSUME TypeOK, TypeOK', ClaimInv, NEW w \in Workers,
         PassOn(w) \/ PassCheck(w) \/ RunRow(w) \/ Finish(w) \/ Release(w)
  PROVE  /\ ClaimOf(w)'
         /\ Owns(w)' => Owns(w) /\ cur'[w] = cur[w]
<1> USE DEF Goto, CallNotify
<1>0. /\ w \in Thread /\ cur' = cur /\ row' = row /\ tail' = tail
      /\ Claimed(w) /\ Owns(w) /\ Holds(w) /\ ClaimOf(w)
      /\ pc \in [Thread -> Points] /\ ret \in [Thread -> {"run", "finish", "observe", "join", "idle"}]
  BY DEF PassOn, PassCheck, RunRow, Finish, Release, Thread, localVars, queueVars,
         Claimed, ClaimedPoints, Owns, Holds, ClaimInv, TypeOK, ControlType
<1>1. /\ cur[w] \in 1 .. tail /\ cur[w] \in Frame
      /\ row[w] < NumRows /\ Ready(cur[w], row[w]) /\ running[cur[w]]
      /\ Needs[cur[w]] \in 0 .. NumFrames
  BY <1>0, Bounds, ConstantsAssumption DEF ClaimOf, TypeOK, QueueType, Frame
<1>2. CASE PassOn(w) \/ PassCheck(w)
  <2>1. Claimed(w)' /\ pc'[w] # "release" /\ pc[w] # "release" /\ UNCHANGED stageVars
    BY <1>0, <1>2 DEF PassOn, PassCheck, Claimed, ClaimedPoints, NotifyPoints
  <2>2. QED
    BY <1>0, <2>1, CarriedClaim
<1>3. CASE RunRow(w)
  <2>1. Claimed(w)' /\ pc'[w] \notin {"release", "scan"} /\ pc[w] # "release"
    BY <1>0, <1>3 DEF RunRow, Claimed, ClaimedPoints, NotifyPoints
  <2>2. next' = next /\ running' = running
    BY <1>3 DEF RunRow
  <2>3. progress'[Needs[cur[w]]] >= Need(row[w])
    <3>1. /\ progress[Needs[cur[w]]] \in Nat /\ progress'[Needs[cur[w]]] \in Nat
          /\ progress'[Needs[cur[w]]] >= progress[Needs[cur[w]]]
      BY <1>1, <1>3, RowRaises, Bounds DEF TypeOK, StageType, FAILED
    <3>2. Need(row[w]) \in Nat
      BY NeedType, Bounds DEF TypeOK, LocalType
    <3>3. QED
      BY <1>1, <3>1, <3>2 DEF Ready
  <2>4. QED
    BY <1>0, <1>1, <2>1, <2>2, <2>3 DEF ClaimOf, Ready
<1>4. CASE Finish(w)
  <2>1. pc'[w] = "release" /\ running' = running /\ progress' = progress
    BY <1>0, <1>4 DEF Finish
  <2>2. QED
    BY <1>0, <1>1, <2>1 DEF ClaimOf, Ready
<1>5. CASE Release(w)
  <2>1. pc'[w] = "done"
    BY <1>0, <1>5 DEF Release
  <2>2. QED
    BY <1>0, <1>1, <2>1 DEF ClaimOf, Owns, Claimed, ClaimedPoints, NotifyPoints
<1>6. QED
  BY <1>2, <1>3, <1>4, <1>5

(* Every other step of a worker leaves it with no claim it did not have.   *)
LEMMA OtherClaim ==
  ASSUME TypeOK, ClaimInv, NEW w \in Workers,
         \/ Observe(w) \/ ScanEnd(w) \/ ReadDone(w) \/ DropHandle(w) \/ Pop(w)
         \/ Enlist(w) \/ Clear(w) \/ Test(w) \/ Wake(w)
  PROVE  ClaimOf(w)' /\ ~Owns(w)'
<1>0. /\ w \in Thread /\ w \notin Drivers
      /\ pc \in [Thread -> Points] /\ ret \in [Thread -> {"run", "finish", "observe", "join", "idle"}]
  BY ConstantsAssumption DEF Thread, TypeOK, ControlType
<1> USE DEF Goto, CallNotify, Leave
<1>1. CASE ReadDone(w)
  <2>1. cur[w] \in 1 .. tail /\ cur' = cur /\ tail' = tail /\ pc'[w] = "drop"
    BY <1>0, <1>1 DEF ReadDone, ClaimInv, ClaimOf, Holds, queueVars
  <2>2. QED
    BY <2>1 DEF ClaimOf, Owns, Holds, Claimed, ClaimedPoints, NotifyPoints
<1>2. CASE DropHandle(w)
  <2>1. \/ pc'[w] = "pop"
        \/ pc'[w] = "bump" /\ ret'[w] = "observe"
    BY <1>0, <1>2 DEF DropHandle
  <2>2. QED
    BY <2>1, PointNames, FreeClaim DEF FreePoints, NotifyPoints, ClaimedPoints, ScanPoints
<1>3. CASE Pop(w)
  <2>1. pc'[w] = "bump" /\ ret'[w] = "observe"
    BY <1>0, <1>3 DEF Pop
  <2>2. QED
    BY <2>1, FreeClaim DEF NotifyPoints
<1>4. CASE Observe(w) \/ ScanEnd(w)
  <2>1. pc'[w] \in {"lock", "exited", "enlist"}
    BY <1>0, <1>4 DEF Observe, ScanEnd
  <2>2. QED
    BY <2>1, PointNames, FreeClaim DEF FreePoints, NotifyPoints, ClaimedPoints, ScanPoints
<1>5. CASE Enlist(w) \/ Clear(w) \/ Test(w) \/ Wake(w)
  <2>1. pc'[w] \in {"clear", "test", "asleep", "observe"}
    BY <1>0, <1>5 DEF Enlist, Clear, Test, Wake
  <2>2. QED
    BY <2>1, PointNames, FreeClaim DEF FreePoints, NotifyPoints, ClaimedPoints, ScanPoints
<1>6. QED
  BY <1>1, <1>2, <1>3, <1>4, <1>5

(* A worker's step keeps the claim protocol.  Only the exchange opens a    *)
(* claim, and it finds the flag down, which no other owner allows.         *)
LEMMA WorkerClaim ==
  ASSUME TypeOK, TypeOK', ClaimInv, NEW w \in Workers, WorkerStep(w)
  PROVE  ClaimInv'
<1>1. \A v \in Workers \ {w} : Unmoved(v) /\ StageKept(v)
  BY WorkerUnmoved, WorkerStage
<1>2. /\ ClaimOf(w)'
      /\ Owns(w)' => /\ cur'[w] = cur[w]
                     /\ Owns(w) \/ ~running[cur[w]]
  <2>1. CASE NotifyStep(w)
    BY <2>1, NotifyClaim
  <2>2. CASE Lock(w) \/ LoadRunning(w) \/ LoadNext(w)
    BY <2>2, ScanClaim
  <2>3. CASE Exchange(w)
    BY <2>3, ExchangeClaim
  <2>4. CASE Recheck(w)
    BY <2>4, RecheckClaim
  <2>5. CASE PassOn(w) \/ PassCheck(w) \/ RunRow(w) \/ Finish(w) \/ Release(w)
    BY <2>5, RunClaim
  <2>6. CASE \/ Observe(w) \/ ScanEnd(w) \/ ReadDone(w) \/ DropHandle(w) \/ Pop(w)
             \/ Enlist(w) \/ Clear(w) \/ Test(w) \/ Wake(w)
    BY <2>6, OtherClaim
  <2>7. QED
    BY <2>1, <2>2, <2>3, <2>4, <2>5, <2>6 DEF WorkerStep
<1>3. \A v \in Workers \ {w} : Owns(w)' /\ Owns(v) => cur'[w] # cur[v]
  BY <1>2 DEF ClaimInv, ClaimOf
<1>4. QED
  BY <1>1, <1>2, <1>3, ClaimCombine

(* Drivers and publishers have no claims: they leave every worker alone,   *)
(* push behind the last frame and only raise counter 0.                    *)
LEMMA OutsideClaim ==
  ASSUME TypeOK, TypeOK', ClaimInv,
         \A v \in Workers : Unmoved(v) /\ StageKept(v)
  PROVE  ClaimInv'
<1>1. \A v \in Workers : ClaimOf(v)'
  BY ClaimKept
<1>2. ASSUME NEW u \in Workers, NEW v \in Workers, u # v, Owns(u)', Owns(v)'
      PROVE  cur'[u] # cur'[v]
  BY <1>2, UnmovedOwner DEF Unmoved, ClaimInv
<1>3. QED
  BY <1>1, <1>2 DEF ClaimInv

LEMMA DriverLeaves ==
  ASSUME TypeOK, ClaimInv, NEW d \in Drivers, DriverStep(d)
  PROVE  /\ \A v \in Workers : Unmoved(v) /\ StageKept(v)
         /\ UNCHANGED stageVars
         /\ tail' = tail \/ (tail < NumFrames /\ tail' = tail + 1)
<1>0. d \in Thread /\ d \notin Workers /\ tail \in Nat
  BY Bounds, ConstantsAssumption DEF Thread, TypeOK, QueueType
<1>1. ASSUME NEW v \in Workers PROVE Unmoved(v)
  <2>1. v \in Thread /\ v # d
    BY <1>0 DEF Thread
  <2> USE <2>1 DEF TypeOK, ControlType, Goto, CallNotify, localVars, Unmoved
  <2>2. CASE Observe(d) \/ Check(d) \/ Push(d) \/ Join(d)
    BY <2>2 DEF Observe, Check, Push, Join
  <2>3. CASE DriverPark(d) \/ DriverTest(d) \/ DriverWake(d) \/ Close(d)
    BY <2>3 DEF DriverPark, DriverTest, DriverWake, Close
  <2>4. CASE NotifyStep(d)
    BY <1>0, <2>1, <2>4, NotifyUnmoved
  <2>5. QED
    BY <2>2, <2>3, <2>4 DEF DriverStep
<1>2. UNCHANGED stageVars /\ (tail' = tail \/ (tail < NumFrames /\ tail' = tail + 1))
  <2>1. CASE NotifyStep(d)
    BY <1>0, <2>1, NotifyStage DEF queueVars
  <2>2. CASE ~NotifyStep(d)
    BY <2>2 DEF DriverStep, Observe, Check, Push, Join, DriverPark, DriverTest,
                DriverWake, Close, queueVars
  <2>3. QED
    BY <2>1, <2>2
<1>3. tail' >= tail
  BY <1>0, <1>2
<1>4. \A v \in Workers : StageKept(v)
  BY <1>2, <1>3, QuietStage
<1>5. QED
  BY <1>1, <1>2, <1>4

LEMMA PublisherLeaves ==
  ASSUME TypeOK, ClaimInv, NEW e \in Publishers, PublisherStep(e)
  PROVE  /\ \A v \in Workers : Unmoved(v) /\ StageKept(v)
         /\ next' = next /\ tail' = tail
         /\ \/ progress' = progress
            \/ \E value \in 1 .. NumRows :
                 progress[0] < value /\ progress' = [progress EXCEPT ![0] = value]
<1>0. e \in Thread /\ e \notin Workers /\ tail \in Nat
  BY Bounds, ConstantsAssumption DEF Thread, TypeOK, QueueType
<1>1. ASSUME NEW v \in Workers PROVE Unmoved(v)
  <2>1. v \in Thread /\ v # e
    BY <1>0 DEF Thread
  <2>2. CASE Publish(e)
    BY <2>1, <2>2 DEF Publish, TypeOK, ControlType, Goto, CallNotify, localVars, Unmoved
  <2>3. CASE NotifyStep(e)
    BY <1>0, <2>1, <2>3, NotifyUnmoved
  <2>4. QED
    BY <2>2, <2>3 DEF PublisherStep
<1>2. \A v \in Workers : StageKept(v)
  <2>1. CASE NotifyStep(e)
    BY <1>0, <2>1, NotifyStage, QuietStage DEF queueVars
  <2>2. CASE Publish(e)
    <3>1. next' = next /\ running' = running /\ tail' = tail
      BY <2>2 DEF Publish, queueVars
    <3>2. PICK value \in 1 .. NumRows :
            progress[0] < value /\ progress' = [progress EXCEPT ![0] = value]
      BY <2>2 DEF Publish
    <3>3. ASSUME NEW f \in 0 .. NumFrames PROVE progress'[f] >= progress[f]
      <4>1. progress[f] \in Nat /\ DOMAIN progress = 0 .. NumFrames
        BY Bounds DEF TypeOK, StageType, FAILED
      <4>2. progress'[f] = progress[f] \/ (progress'[f] = value /\ progress[f] < value)
        BY <3>2, <4>1
      <4>3. QED
        BY <4>1, <4>2, Bounds
    <3>4. \A v \in Workers : Owns(v) => running'[cur[v]]
      BY <3>1 DEF ClaimInv, ClaimOf
    <3>5. QED
      BY <1>0, <3>1, <3>3, <3>4 DEF StageKept
  <2>3. QED
    BY <2>1, <2>2 DEF PublisherStep
<1>3. /\ next' = next /\ tail' = tail
      /\ \/ progress' = progress
         \/ \E value \in 1 .. NumRows :
              progress[0] < value /\ progress' = [progress EXCEPT ![0] = value]
  <2>1. CASE NotifyStep(e)
    BY <1>0, <2>1, NotifyStage DEF stageVars, queueVars
  <2>2. CASE Publish(e)
    BY <2>2 DEF Publish, queueVars
  <2>3. QED
    BY <2>1, <2>2 DEF PublisherStep
<1>4. QED
  BY <1>1, <1>2, <1>3

(* Nothing changes once every thread has ended. *)
LEMMA StutterIInv == IInv /\ UNCHANGED vars => IInv'
<1> SUFFICES ASSUME IInv, UNCHANGED vars PROVE IInv'
  OBVIOUS
<1> USE DEF IInv, vars, stageVars, queueVars, eventVars, localVars
<1>1. TypeOK'
  BY DEF TypeOK, StageType, QueueType, EventType, ControlType, LocalType
<1>2. ClaimInv'
  BY DEF ClaimInv, ClaimOf, Owns, Holds, Claimed, Ready
<1>3. QED
  BY <1>1, <1>2

LEMMA NextIInv == IInv /\ [Next]_vars => IInv'
<1> SUFFICES ASSUME IInv, [Next]_vars PROVE IInv'
  OBVIOUS
<1>0. TypeOK /\ ClaimInv
  BY DEF IInv
<1>1. ASSUME NEW w \in Workers, WorkerStep(w) PROVE IInv'
  <2>1. TypeOK'
    BY <1>0, <1>1, WorkerType
  <2>2. ClaimInv'
    BY <1>0, <1>1, <2>1, WorkerClaim
  <2>3. QED
    BY <2>1, <2>2 DEF IInv
<1>2. ASSUME NEW d \in Drivers, DriverStep(d) PROVE IInv'
  <2>1. TypeOK'
    BY <1>0, <1>2, DriverType
  <2>2. ClaimInv'
    BY <1>0, <1>2, <2>1, DriverLeaves, OutsideClaim
  <2>3. QED
    BY <2>1, <2>2 DEF IInv
<1>3. ASSUME NEW e \in Publishers, PublisherStep(e) PROVE IInv'
  <2>1. TypeOK'
    BY <1>0, <1>3, PublisherType
  <2>2. ClaimInv'
    BY <1>0, <1>3, <2>1, PublisherLeaves, OutsideClaim
  <2>3. QED
    BY <2>1, <2>2 DEF IInv
<1>4. CASE UNCHANGED vars
  BY <1>4, StutterIInv
<1>5. QED
  BY <1>1, <1>2, <1>3, <1>4 DEF Next, Terminated

-----------------------------------------------------------------------------
(* The theorems of the component *)

(* The inductive invariant holds in every reachable state. *)
THEOREM SpecIInv == Spec => []IInv
<1>1. Init => IInv
  BY InitIInv
<1>2. IInv /\ [Next]_vars => IInv'
  BY NextIInv
<1>3. QED
  BY <1>1, <1>2, PTL DEF Spec

(* Every variable of the scheduler keeps its type: no scan leaves the      *)
(* queue, no cursor passes its last row and no counter passes FAILED,      *)
(* whatever the number of workers, frames and rows.                        *)
THEOREM TypeCorrect == Spec => []TypeOK
<1>1. IInv => TypeOK
  BY DEF IInv
<1>2. QED
  BY <1>1, SpecIInv, PTL

(* A claim that won the running flag of a stage holds it alone until it    *)
(* clears it (Stage::claim, rows.rs:128-154).                              *)
THEOREM ClaimsAreExclusive == Spec => []ClaimInv
<1>1. IInv => ClaimInv
  BY DEF IInv
<1>2. QED
  BY <1>1, SpecIInv, PTL

(* A stage runs one row at a time, and the row it runs is the one its      *)
(* cursor is at, for every interleaving of the scanners (rows.rs:9-11).    *)
THEOREM OneRowAtATimeHolds == Spec => []OneRowAtATime
<1>1. IInv => OneRowAtATime
  <2> SUFFICES ASSUME IInv, NEW w \in Workers, Claimed(w)
               PROVE  /\ \A v \in Workers \ {w} : Claimed(v) => cur[v] # cur[w]
                      /\ running[cur[w]]
                      /\ pc[w] # "release" => next[cur[w]] = row[w]
    BY DEF OneRowAtATime
  <2>1. ClaimInv /\ ClaimOf(w) /\ Owns(w)
    BY DEF IInv, ClaimInv, Owns
  <2>2. ASSUME NEW v \in Workers \ {w}, Claimed(v) PROVE cur[v] # cur[w]
    BY <2>1, <2>2 DEF ClaimInv, Owns
  <2>3. QED
    BY <2>1, <2>2 DEF ClaimOf
<1>2. QED
  BY <1>1, SpecIInv, PTL

(* No row runs before the rows of its input frame it reads are published,  *)
(* although the check happens before the claim is won.                     *)
THEOREM RowsRunAfterTheirInputsHolds == Spec => []RowsRunAfterTheirInputs
<1>1. IInv => RowsRunAfterTheirInputs
  BY DEF IInv, ClaimInv, ClaimOf, Owns, Ready, RowsRunAfterTheirInputs
<1>2. QED
  BY <1>1, SpecIInv, PTL

(* The cursor of a stage moves to the following row or not at all: the     *)
(* worker that stores row + 1 holds the claim of the row the cursor is at. *)
THEOREM CursorMoves == Spec => CursorMovesRowByRow
<1>1. IInv /\ [Next]_vars => [\A f \in Frame : next'[f] \in {next[f], next[f] + 1}]_next
  <2> SUFFICES ASSUME IInv, [Next]_vars, next' # next
               PROVE  \A f \in Frame : next'[f] \in {next[f], next[f] + 1}
    OBVIOUS
  <2>1. PICK w \in Workers : WorkerStep(w)
    <3>1. ASSUME NEW t \in Drivers, DriverStep(t) PROVE FALSE
      <4>1. t \in Thread
        BY DEF Thread
      <4>2. QED
        BY <3>1, <4>1, NotifyStage DEF DriverStep, Observe, Check, Push, DriverPark, DriverTest,
           DriverWake, Close, Join, stageVars
    <3>2. ASSUME NEW t \in Publishers, PublisherStep(t) PROVE FALSE
      <4>1. t \in Thread
        BY DEF Thread
      <4>2. QED
        BY <3>2, <4>1, NotifyStage DEF PublisherStep, Publish, stageVars
    <3>3. QED
      BY <3>1, <3>2 DEF Next, Terminated, vars, stageVars
  <2>2. Finish(w)
    <3>1. w \in Thread
      BY DEF Thread
    <3>2. ~NotifyStep(w)
      BY <3>1, NotifyStage DEF stageVars
    <3>3. QED
      BY <2>1, <3>2 DEF WorkerStep, Observe, Lock, ScanEnd, LoadRunning, LoadNext, Exchange,
         Recheck, PassOn, PassCheck, RunRow, Release, ReadDone, DropHandle, Pop, Enlist,
         Clear, Test, Wake, stageVars
  <2>3. next[cur[w]] = row[w] /\ next \in [Frame -> 0 .. NumRows]
    BY <2>2 DEF IInv, ClaimInv, ClaimOf, Finish, Claimed, ClaimedPoints, TypeOK, StageType
  <2>4. next' = [next EXCEPT ![cur[w]] = next[cur[w]] + 1]
    BY <2>2, <2>3 DEF Finish
  <2>5. QED
    BY <2>3, <2>4
<1>2. QED
  BY <1>1, SpecIInv, PTL DEF Spec, CursorMovesRowByRow
=============================================================================
