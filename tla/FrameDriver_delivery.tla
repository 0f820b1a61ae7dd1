------------------------ MODULE FrameDriver_delivery ------------------------
(***************************************************************************)
(* Proofs about the order in which the caller gets the frames.             *)
(***************************************************************************)
EXTENDS FrameDriver_store

(* Frames of the schedule that have been charged or counted out.           *)
Counted == Len(scheduled) - Len(newly)

(* The frames to charge are the last ones scheduled.                       *)
LastScheduled ==
    /\ Len(newly) <= Len(scheduled)
    /\ \A i \in 1 .. Len(newly) : newly[i] = scheduled[Counted + i]

(* What was delivered, and behind it what is queued, starts the schedule:  *)
(* all that is counted up to the limit.                                    *)
StartsSchedule ==
    /\ Len(delivered) + Len(queue) = IF limit # 0 /\ limit < Counted THEN limit ELSE Counted
    /\ \A i \in 1 .. Len(delivered) :
        delivered[i] = scheduled[i] /\ status[delivered[i]] = "ready"
    /\ \A i \in 1 .. Len(queue) : queue[i] = scheduled[Len(delivered) + i]

(* A frame is scheduled once: it is not owed any more, and an immediate    *)
(* frame is neither before its turn.                                       *)
ScheduledOnce ==
    /\ \A i, j \in 1 .. Len(scheduled) : scheduled[i] = scheduled[j] => i = j
    /\ \A i \in 1 .. Len(scheduled) : scheduled[i] <= count /\ scheduled[i] \notin Values(pending)
    /\ pc = "refreshed" /\ hdr.show = "immediate" =>
        /\ count \notin Values(pending)
        /\ \A i \in 1 .. Len(scheduled) : scheduled[i] # count

(* The loop ends without an error only with everything delivered.          *)
AllOut ==
    /\ pc \in {"end", "endReclaim"} => queue = <<>>
    /\ outcome = "ok" => pc \in Ended /\ queue = <<>> /\ newly = <<>>

OrderInv == LastScheduled /\ StartsSchedule /\ ScheduledOnce /\ AllOut

Known == TypeOK /\ Shape /\ WorkInv /\ StoreInv

LEMMA Lengths ==
  ASSUME OutputType, limit \in Limits
  PROVE  /\ Len(scheduled) \in Nat /\ Len(newly) \in Nat /\ Len(queue) \in Nat
         /\ Len(delivered) \in Nat /\ limit \in Nat
         /\ \A i \in 1 .. Len(scheduled) : scheduled[i] \in Frames
         /\ DOMAIN scheduled = 1 .. Len(scheduled) /\ DOMAIN delivered = 1 .. Len(delivered)
         /\ DOMAIN newly = 1 .. Len(newly) /\ DOMAIN queue = 1 .. Len(queue)
  BY LenProperties, ElementOfSeq, Sizes DEF OutputType

LEMMA InitOrder == Init => OrderInv
<1> SUFFICES ASSUME Init PROVE OrderInv
  OBVIOUS
<1>1. limit \in Nat /\ Len(scheduled) = 0 /\ Len(newly) = 0 /\ Len(queue) = 0 /\ Len(delivered) = 0
  BY Sizes DEF Init
<1>2. 1 .. 0 = {}
  OBVIOUS
<1>3. LastScheduled /\ StartsSchedule
  BY <1>1, <1>2 DEF LastScheduled, StartsSchedule, Counted
<1>4. ScheduledOnce /\ AllOut
  BY <1>1, <1>2 DEF Init, ScheduledOnce, AllOut
<1>5. QED
  BY <1>3, <1>4 DEF OrderInv

(* A frame that is ready stays so.                                         *)
LEMMA ReadyStays ==
  ASSUME Known, [Next]_vars
  PROVE  \A f \in Frames : status[f] = "ready" => status'[f] = "ready"
<1>1. WorkType /\ count \in Nat /\ Fresh /\ WorkStages /\ TablesType
  BY TypeParts, Sizes DEF Known, WorkInv, TypeOK
<1>2. CASE HarvestAll \/ HarvestForRoom
  BY <1>2 DEF HarvestAll, HarvestForRoom, Harvest
<1>3. CASE \/ Deliver \/ Queue \/ PastLimit \/ ReclaimEntry \/ LookForSpace \/ FullHarvested
           \/ FullFlushed \/ WaitForSpace \/ ReadHeader \/ EndOfStream \/ Prepared \/ Restarted
           \/ Undecodable \/ Refreshed \/ Shown \/ Reclaimed \/ Flushed \/ Return
  BY <1>3, WorksUnchanged DEF works
<1>4. CASE ShowExisting \/ DecodeInline \/ DeferFilters \/ DeferTip \/ DeferSplit
  <2>1. \/ status' = status
        \/ \E x \in {"ready", "pending"} : status' = [status EXCEPT ![count + 1] = x]
    BY <1>4 DEF ShowExisting, DecodeInline, DeferFilters, DeferTip, DeferSplit, Defer, Ready
  <2>2. pc \notin Ended
    BY <1>4 DEF ShowExisting, DecodeInline, DeferFilters, DeferTip, DeferSplit, HasRoom, Ended
  <2>3. count + 1 \in Frames => status[count + 1] = "none"
    BY <1>1, <2>2 DEF Fresh
  <2>4. QED
    BY <1>1, <2>1, <2>3 DEF WorkType
<1>5. CASE \E f \in Frames : Work(f)
  BY <1>1, <1>5 DEF Work, Settle, Leave, WorkStages, WorkType
<1>6. CASE UNCHANGED vars
  BY <1>6 DEF vars, works
<1>7. QED
  BY <1>2, <1>3, <1>4, <1>5, <1>6 DEF Next, Loop

(* Frames are scheduled behind all others.                                 *)
LEMMA Scheduling ==
  ASSUME Known, OrderInv, newly = <<>>, NEW frames \in Seq(Frames), Schedule(frames),
         UNCHANGED <<queue, delivered, fixed>>,
         \A f \in Frames : status[f] = "ready" => status'[f] = "ready",
         \A i, j \in 1 .. Len(frames) : frames[i] = frames[j] => i = j,
         \A i \in 1 .. Len(frames) : \A j \in 1 .. Len(scheduled) : frames[i] # scheduled[j]
  PROVE  /\ LastScheduled' /\ StartsSchedule'
         /\ \A i, j \in 1 .. Len(scheduled') : scheduled'[i] = scheduled'[j] => i = j
         /\ \A i \in 1 .. Len(scheduled') :
                \/ i \in 1 .. Len(scheduled) /\ scheduled'[i] = scheduled[i]
                \/ \E j \in 1 .. Len(frames) : scheduled'[i] = frames[j]
<1>1. OutputType /\ limit \in Limits
  BY TypeParts DEF Known, LoopType
<1>2. /\ Len(scheduled) \in Nat /\ Len(queue) \in Nat /\ Len(delivered) \in Nat /\ limit \in Nat
      /\ \A i \in 1 .. Len(scheduled) : scheduled[i] \in Frames
  BY <1>1, Lengths
<1>3. /\ Len(frames) \in Nat /\ Len(scheduled') = Len(scheduled) + Len(frames) /\ newly' = frames
      /\ \A i \in 1 .. Len(scheduled) + Len(frames) :
            scheduled'[i] = IF i <= Len(scheduled) THEN scheduled[i] ELSE frames[i - Len(scheduled)]
  BY <1>1, ConcatProperties, LenProperties DEF Schedule, OutputType
<1>4. Len(newly) = 0
  OBVIOUS
<1>5. Counted = Len(scheduled) /\ Counted' = Len(scheduled)
  BY <1>2, <1>3, <1>4 DEF Counted
<1>6. LastScheduled'
  BY <1>2, <1>3, <1>5 DEF LastScheduled
<1>7. \A i \in 1 .. Len(scheduled) : scheduled'[i] = scheduled[i]
  BY <1>2, <1>3
<1>8. Len(delivered) + Len(queue) <= Len(scheduled)
  BY <1>2, <1>5 DEF OrderInv, StartsSchedule
<1>9. StartsSchedule'
  <2>1. Len(delivered) + Len(queue) = IF limit # 0 /\ limit < Counted' THEN limit ELSE Counted'
    BY <1>5 DEF OrderInv, StartsSchedule
  <2>2. \A i \in 1 .. Len(delivered) :
            i \in 1 .. Len(scheduled) /\ delivered[i] = scheduled'[i] /\ status'[delivered[i]] = "ready"
    <3> SUFFICES ASSUME NEW i \in 1 .. Len(delivered)
                 PROVE  /\ i \in 1 .. Len(scheduled) /\ delivered[i] = scheduled'[i]
                        /\ status'[delivered[i]] = "ready"
      OBVIOUS
    <3>1. i \in 1 .. Len(scheduled)
      BY <1>2, <1>8
    <3>2. delivered[i] = scheduled[i] /\ status[delivered[i]] = "ready"
      BY DEF OrderInv, StartsSchedule
    <3>3. QED
      BY <1>2, <1>7, <3>1, <3>2
  <2>3. \A i \in 1 .. Len(queue) :
            Len(delivered) + i \in 1 .. Len(scheduled) /\ queue[i] = scheduled'[Len(delivered) + i]
    <3> SUFFICES ASSUME NEW i \in 1 .. Len(queue)
                 PROVE  /\ Len(delivered) + i \in 1 .. Len(scheduled)
                        /\ queue[i] = scheduled'[Len(delivered) + i]
      OBVIOUS
    <3>1. Len(delivered) + i \in 1 .. Len(scheduled)
      BY <1>2, <1>8
    <3>2. queue[i] = scheduled[Len(delivered) + i]
      BY DEF OrderInv, StartsSchedule
    <3>3. QED
      BY <1>7, <3>1, <3>2
  <2>4. QED
    BY <2>1, <2>2, <2>3 DEF StartsSchedule, fixed
<1>10. \A i \in 1 .. Len(scheduled') :
          \/ i \in 1 .. Len(scheduled) /\ scheduled'[i] = scheduled[i]
          \/ i > Len(scheduled) /\ i - Len(scheduled) \in 1 .. Len(frames)
             /\ scheduled'[i] = frames[i - Len(scheduled)]
  BY <1>2, <1>3
<1>11. \A i, j \in 1 .. Len(scheduled') : scheduled'[i] = scheduled'[j] => i = j
  <2> SUFFICES ASSUME NEW i \in 1 .. Len(scheduled'), NEW j \in 1 .. Len(scheduled'),
                      scheduled'[i] = scheduled'[j]
               PROVE  i = j
    OBVIOUS
  <2>1. CASE i \in 1 .. Len(scheduled) /\ j \in 1 .. Len(scheduled)
    BY <1>7, <2>1 DEF OrderInv, ScheduledOnce
  <2>2. CASE i > Len(scheduled) /\ j > Len(scheduled)
    <3>1. /\ i - Len(scheduled) \in 1 .. Len(frames) /\ j - Len(scheduled) \in 1 .. Len(frames)
          /\ frames[i - Len(scheduled)] = frames[j - Len(scheduled)] /\ i \in Int /\ j \in Int
      BY <1>2, <1>3, <1>10, <2>2
    <3>2. i - Len(scheduled) = j - Len(scheduled)
      BY <3>1
    <3>3. QED
      BY <1>2, <3>1, <3>2
  <2>3. CASE i \in 1 .. Len(scheduled) /\ j > Len(scheduled)
    <3>1. j - Len(scheduled) \in 1 .. Len(frames) /\ scheduled'[j] = frames[j - Len(scheduled)]
      BY <1>2, <1>10, <2>3
    <3>2. scheduled'[i] = scheduled[i]
      BY <1>7, <2>3
    <3>3. frames[j - Len(scheduled)] # scheduled[i]
      BY <2>3, <3>1
    <3>4. QED
      BY <3>1, <3>2, <3>3
  <2>4. CASE j \in 1 .. Len(scheduled) /\ i > Len(scheduled)
    <3>1. i - Len(scheduled) \in 1 .. Len(frames) /\ scheduled'[i] = frames[i - Len(scheduled)]
      BY <1>2, <1>10, <2>4
    <3>2. scheduled'[j] = scheduled[j]
      BY <1>7, <2>4
    <3>3. frames[i - Len(scheduled)] # scheduled[j]
      BY <2>4, <3>1
    <3>4. QED
      BY <3>1, <3>2, <3>3
  <2>5. /\ i \in 1 .. Len(scheduled) \/ i > Len(scheduled)
        /\ j \in 1 .. Len(scheduled) \/ j > Len(scheduled)
    BY <1>2, <1>3
  <2>6. QED
    BY <2>1, <2>2, <2>3, <2>4, <2>5
<1>12. QED
  BY <1>6, <1>9, <1>10, <1>11

(* Nothing more is scheduled, counted or delivered.                        *)
LEMMA SameOrder ==
  ASSUME OrderInv, UNCHANGED <<output, fixed, pending>>, count' >= count, count \in Nat, count' \in Nat,
         \A i \in 1 .. Len(scheduled) : scheduled[i] \in Nat,
         \A i \in 1 .. Len(delivered) : status[delivered[i]] = "ready" => status'[delivered[i]] = "ready",
         pc' = "refreshed" => pc = "refreshed" /\ UNCHANGED <<count, hdr>>, AllOut'
  PROVE  OrderInv'
<1>1. LastScheduled' /\ StartsSchedule'
  BY DEF OrderInv, LastScheduled, StartsSchedule, Counted, output, fixed
<1>2. \A i \in 1 .. Len(scheduled) : scheduled[i] <= count'
  BY DEF OrderInv, ScheduledOnce
<1>3. ScheduledOnce'
  BY <1>2 DEF OrderInv, ScheduledOnce, Values, output
<1>4. QED
  BY <1>1, <1>3 DEF OrderInv

(* Delivered frames are decoded ones.                                      *)
LEMMA DeliveredFrames ==
  ASSUME Known, OrderInv
  PROVE  /\ OutputType /\ limit \in Limits /\ TablesType /\ count \in Nat
         /\ Len(scheduled) \in Nat /\ Len(newly) \in Nat /\ Len(queue) \in Nat
         /\ Len(delivered) \in Nat /\ limit \in Nat /\ Counted \in Nat /\ Counted <= Len(scheduled)
         /\ Len(delivered) + Len(queue) <= Counted
         /\ \A i \in 1 .. Len(scheduled) : scheduled[i] \in Frames /\ scheduled[i] \in Nat
         /\ \A i \in 1 .. Len(delivered) : delivered[i] \in Frames
<1>1. OutputType /\ limit \in Limits /\ TablesType /\ count \in Nat
  BY TypeParts, Sizes DEF Known, LoopType, StoreType
<1>2. /\ Len(scheduled) \in Nat /\ Len(newly) \in Nat /\ Len(queue) \in Nat
      /\ Len(delivered) \in Nat /\ limit \in Nat
      /\ \A i \in 1 .. Len(scheduled) : scheduled[i] \in Frames
  BY <1>1, Lengths
<1>3. Counted \in Nat /\ Counted <= Len(scheduled)
  BY <1>2 DEF OrderInv, LastScheduled, Counted
<1>4. Len(delivered) + Len(queue) <= Counted
  BY <1>2, <1>3 DEF OrderInv, StartsSchedule
<1>5. \A i \in 1 .. Len(delivered) : delivered[i] \in Frames
  BY <1>1, ElementOfSeq DEF OutputType
<1>6. QED
  BY <1>1, <1>2, <1>3, <1>4, <1>5, Sizes

(* One turn of the queue: charged, delivered or counted out.               *)
LEMMA QueueOrder ==
  ASSUME Known, OrderInv, Deliver \/ Queue \/ PastLimit
  PROVE  OrderInv'
<1>1. /\ OutputType /\ Len(scheduled) \in Nat /\ Len(newly) \in Nat /\ Len(queue) \in Nat
      /\ Len(delivered) \in Nat /\ limit \in Nat /\ Counted \in Nat /\ Counted <= Len(scheduled)
      /\ Len(delivered) + Len(queue) <= Counted /\ count \in Nat
      /\ \A i \in 1 .. Len(scheduled) : scheduled[i] \in Nat
  BY DeliveredFrames
<1>2. /\ UNCHANGED <<fixed, hdr, store, works, tables, scan, result, scheduled>>
      /\ pc \in Charging \union Flushing /\ pc \notin Ended
  BY DEF Deliver, Queue, PastLimit, Charging, Flushing, Ended, output
<1>3. outcome = "running"
  BY <1>2 DEF Known, Shape
<1>4. pc' \in {pc, "collect"} /\ outcome' # "ok"
  BY <1>3 DEF Deliver, Queue, PastLimit, Stop
<1>5. ScheduledOnce' /\ AllOut'
  BY <1>2, <1>4 DEF OrderInv, ScheduledOnce, AllOut, Values, tables, store, Charging, Flushing
<1>6. CASE UNCHANGED output
  BY <1>2, <1>5, <1>6 DEF OrderInv, LastScheduled, StartsSchedule, Counted, output, fixed, works
<1>7. CASE /\ queue # <<>> /\ delivered' = Append(delivered, Head(queue)) /\ queue' = Tail(queue)
           /\ newly' = newly /\ status[Head(queue)] = "ready"
  <2>1. /\ Len(delivered') = Len(delivered) + 1
        /\ \A i \in 1 .. Len(delivered) : delivered'[i] = delivered[i]
        /\ delivered'[Len(delivered) + 1] = Head(queue)
    BY <1>1, <1>7, HeadTailProperties, AppendProperties DEF OutputType
  <2>2. /\ Len(queue') = Len(queue) - 1 /\ Len(queue) # 0 /\ Head(queue) = queue[1]
        /\ \A i \in 1 .. Len(queue) - 1 : queue'[i] = queue[i + 1]
    BY <1>1, <1>7, HeadTailProperties DEF OutputType
  <2>3. /\ \A i \in 1 .. Len(delivered) : delivered[i] = scheduled[i] /\ status[delivered[i]] = "ready"
        /\ \A i \in 1 .. Len(queue) : queue[i] = scheduled[Len(delivered) + i]
    BY DEF OrderInv, StartsSchedule
  <2>4. LastScheduled' /\ Counted' = Counted
    BY <1>2, <1>7 DEF OrderInv, LastScheduled, Counted
  <2>5. Len(delivered') + Len(queue') = Len(delivered) + Len(queue)
    BY <1>1, <2>1, <2>2
  <2>6. \A i \in 1 .. Len(delivered') : delivered'[i] = scheduled[i] /\ status[delivered'[i]] = "ready"
    <3>1. 1 \in 1 .. Len(queue)
      BY <1>1, <2>2
    <3>2. delivered'[Len(delivered) + 1] = scheduled[Len(delivered) + 1]
      BY <2>1, <2>2, <2>3, <3>1
    <3>3. \A i \in 1 .. Len(delivered') : i \in 1 .. Len(delivered) \/ i = Len(delivered) + 1
      BY <1>1, <2>1
    <3>4. QED
      BY <1>7, <2>1, <2>3, <3>2, <3>3
  <2>7. \A i \in 1 .. Len(queue') : queue'[i] = scheduled[Len(delivered') + i]
    <3>1. \A i \in 1 .. Len(queue') : /\ i \in 1 .. Len(queue) - 1 /\ i + 1 \in 1 .. Len(queue)
                                     /\ Len(delivered) + (i + 1) = Len(delivered') + i
      BY <1>1, <2>1, <2>2
    <3>2. QED
      BY <2>2, <2>3, <3>1
  <2>8. StartsSchedule'
    BY <1>2, <2>4, <2>5, <2>6, <2>7 DEF OrderInv, StartsSchedule, fixed, works
  <2>9. QED
    BY <1>5, <2>4, <2>8 DEF OrderInv
<1>8. CASE /\ newly # <<>> /\ WithinLimit /\ queue' = Append(queue, Head(newly))
           /\ newly' = Tail(newly) /\ delivered' = delivered
  <2>1. /\ Len(newly') = Len(newly) - 1 /\ Len(newly) # 0 /\ Head(newly) = newly[1]
        /\ \A i \in 1 .. Len(newly) - 1 : newly'[i] = newly[i + 1]
        /\ Head(newly) \in Frames
    BY <1>1, <1>8, HeadTailProperties DEF OutputType
  <2>2. /\ Len(queue') = Len(queue) + 1
        /\ \A i \in 1 .. Len(queue) : queue'[i] = queue[i]
        /\ queue'[Len(queue) + 1] = newly[1]
    BY <1>1, <1>8, <2>1, AppendProperties DEF OutputType
  <2>3. /\ \A i \in 1 .. Len(newly) : newly[i] = scheduled[Counted + i]
        /\ \A i \in 1 .. Len(queue) : queue[i] = scheduled[Len(delivered) + i]
        /\ Len(delivered) + Len(queue) = IF limit # 0 /\ limit < Counted THEN limit ELSE Counted
    BY DEF OrderInv, StartsSchedule, LastScheduled
  <2>4. Counted' = Counted + 1
    BY <1>1, <1>2, <2>1 DEF Counted
  <2>5. limit = 0 \/ Counted < limit
    BY <1>8 DEF WithinLimit, Counted
  <2>6. Len(delivered) + Len(queue) = Counted
    BY <1>1, <2>3, <2>5
  <2>7. LastScheduled'
    <3>1. \A i \in 1 .. Len(newly') : /\ i \in 1 .. Len(newly) - 1 /\ i + 1 \in 1 .. Len(newly)
                                     /\ Counted + (i + 1) = Counted' + i
      BY <1>1, <2>1, <2>4
    <3>2. \A i \in 1 .. Len(newly') : newly'[i] = scheduled[Counted' + i]
      BY <2>1, <2>3, <3>1
    <3>3. Len(newly') <= Len(scheduled)
      BY <1>1, <2>1 DEF OrderInv, LastScheduled
    <3>4. QED
      BY <1>2, <3>2, <3>3 DEF LastScheduled
  <2>8. Len(delivered) + Len(queue') = IF limit # 0 /\ limit < Counted' THEN limit ELSE Counted'
    BY <1>1, <2>2, <2>4, <2>5, <2>6
  <2>9. \A i \in 1 .. Len(queue') : queue'[i] = scheduled[Len(delivered) + i]
    <3>1. 1 \in 1 .. Len(newly) /\ Len(delivered) + (Len(queue) + 1) = Counted + 1
      BY <1>1, <2>1, <2>6
    <3>2. queue'[Len(queue) + 1] = scheduled[Len(delivered) + (Len(queue) + 1)]
      BY <2>2, <2>3, <3>1
    <3>3. \A i \in 1 .. Len(queue') : i \in 1 .. Len(queue) \/ i = Len(queue) + 1
      BY <1>1, <2>2
    <3>4. QED
      BY <2>2, <2>3, <3>2, <3>3
  <2>10. StartsSchedule'
    BY <1>2, <1>8, <2>8, <2>9 DEF OrderInv, StartsSchedule, fixed, works
  <2>11. QED
    BY <1>5, <2>7, <2>10 DEF OrderInv
<1>9. CASE PastLimit
  <2>1. /\ newly # <<>> /\ newly' = <<>> /\ UNCHANGED <<queue, delivered>>
        /\ limit # 0 /\ ~(Counted < limit)
    BY <1>9 DEF PastLimit, WithinLimit, Counted
  <2>2. Len(newly') = 0
    BY <2>1
  <2>3. Counted' = Len(scheduled)
    BY <1>1, <1>2, <2>2 DEF Counted
  <2>4. LastScheduled'
    BY <1>1, <1>2, <2>2 DEF LastScheduled
  <2>5. Len(delivered) + Len(queue) = limit
    BY <1>1, <2>1 DEF OrderInv, StartsSchedule
  <2>6. limit <= Len(scheduled)
    BY <1>1, <2>1
  <2>7. Len(delivered) + Len(queue) = IF limit # 0 /\ limit < Counted' THEN limit ELSE Counted'
    BY <1>1, <2>1, <2>3, <2>5, <2>6
  <2>8. StartsSchedule'
    BY <1>2, <2>1, <2>7 DEF OrderInv, StartsSchedule, fixed, works
  <2>9. QED
    BY <1>5, <2>4, <2>8 DEF OrderInv
<1>10. CASE Deliver
  <2>1. Head(queue) \in tracked
    BY <1>1, <1>10, HeadAndTail DEF Deliver, OutputType, Known, StoreInv, Kept
  <2>2. QED
    BY <1>6, <1>7, <1>10, <2>1 DEF Deliver, Settled
<1>11. CASE Queue
  <2>1. Head(newly) \in tracked
    BY <1>1, <1>11, HeadAndTail DEF Queue, OutputType, Known, StoreInv, Kept
  <2>2. UNCHANGED <<scheduled, delivered>>
    BY <1>11 DEF Queue
  <2>3. QED
    BY <1>6, <1>8, <1>11, <2>1, <2>2 DEF Queue, output
<1>12. QED
  BY <1>9, <1>10, <1>11

LEMMA OwedAreOld ==
  ASSUME Known
  PROVE  \A x \in Values(pending) : x \in Nat /\ x <= count
<1>1. tracked \subseteq 1 .. count /\ count \in Nat
  BY Sizes DEF Known, TypeOK
<1>2. Values(pending) \subseteq tracked
  BY DEF Known, StoreInv, Kept
<1>3. \A x \in tracked : x \in Nat /\ x <= count
  BY <1>1
<1>4. QED
  BY <1>2, <1>3

(* The new frame is scheduled, owed or to be shown, one of the three.      *)
LEMMA PushOrder ==
  ASSUME Known, OrderInv, pc = "decode", Push(count + 1),
         \A f \in Frames : status[f] = "ready" => status'[f] = "ready"
  PROVE  OrderInv'
<1>1. /\ OutputType /\ Len(scheduled) \in Nat /\ count \in Nat /\ TablesType
      /\ \A i \in 1 .. Len(scheduled) : scheduled[i] \in Frames /\ scheduled[i] \in Nat
  BY DeliveredFrames
<1>2. /\ count + 1 \in Frames /\ count' = count + 1 /\ pc' = "refreshed"
      /\ UNCHANGED <<fixed, hdr, queue, delivered, result, outcome>>
  BY PushTypes DEF Known
<1>3. newly = <<>> /\ outcome = "running"
  BY DEF Known, StoreInv, ChargedFirst, Charging, Ended, Shape
<1>4. PICK frames :
        /\ frames \in Orders(Values(pending)) \/ frames \in Orders(Values(pending) \union {count + 1})
        /\ hdr.show # "implicit" => frames \in Orders(Values(pending))
        /\ Schedule(frames)
        /\ \A s \in Slots : /\ pending'[s] \in {pending[s], count + 1, None}
                            /\ hdr.show # "implicit" => pending'[s] \in {pending[s], None}
                            /\ pending'[s] # None => pending'[s] \notin Range(frames)
  <2> DEFINE early == IF hdr.show = "implicit" /\ Cardinality(hdr.refresh) > 1 THEN {count + 1} ELSE {}
  <2>1. PICK frames \in Orders(Values(pending) \union early) :
          /\ Schedule(frames)
          /\ \A s \in Slots : /\ pending'[s] \in {pending[s], count + 1, None}
                              /\ hdr.show # "implicit" => pending'[s] \in {pending[s], None}
                              /\ pending'[s] # None => pending'[s] \notin Range(frames)
    BY DEF Push
  <2>2. early = {} \/ early = {count + 1}
    OBVIOUS
  <2>3. hdr.show # "implicit" => early = {}
    OBVIOUS
  <2>4. Values(pending) \union {} = Values(pending)
    OBVIOUS
  <2>5. /\ frames \in Orders(Values(pending)) \/ frames \in Orders(Values(pending) \union {count + 1})
        /\ hdr.show # "implicit" => frames \in Orders(Values(pending))
    BY <2>2, <2>3, <2>4
  <2>6. QED
    BY <2>1, <2>5
<1>5. /\ frames \in Seq(Frames) /\ DOMAIN frames = 1 .. Len(frames)
      /\ Range(frames) \subseteq Values(pending) \union {count + 1}
      /\ hdr.show # "implicit" => Range(frames) \subseteq Values(pending)
      /\ \A i, j \in DOMAIN frames : frames[i] = frames[j] => i = j
  BY <1>2, <1>4, PendingOrders DEF Known
<1>6. \A i \in 1 .. Len(scheduled) : scheduled[i] \notin Values(pending) \union {count + 1}
  BY <1>1 DEF OrderInv, ScheduledOnce
<1>7. \A i \in 1 .. Len(frames) : frames[i] \in Range(frames)
  BY <1>5 DEF Range
<1>8. /\ LastScheduled' /\ StartsSchedule'
      /\ \A i, j \in 1 .. Len(scheduled') : scheduled'[i] = scheduled'[j] => i = j
      /\ \A i \in 1 .. Len(scheduled') :
            \/ i \in 1 .. Len(scheduled) /\ scheduled'[i] = scheduled[i]
            \/ \E j \in 1 .. Len(frames) : scheduled'[i] = frames[j]
  <2>1. \A i \in 1 .. Len(frames) : \A j \in 1 .. Len(scheduled) : frames[i] # scheduled[j]
    BY <1>5, <1>6, <1>7
  <2>2. \A i, j \in 1 .. Len(frames) : frames[i] = frames[j] => i = j
    BY <1>5
  <2>3. QED
    BY <1>2, <1>3, <1>4, <1>5, <2>1, <2>2, Scheduling
<1>9. \A i \in 1 .. Len(scheduled') :
        (i \in 1 .. Len(scheduled) /\ scheduled'[i] = scheduled[i]) \/ scheduled'[i] \in Range(frames)
  BY <1>7, <1>8
<1>10. \A x \in Values(pending') : x \in Values(pending) \union {count + 1} /\ x \notin Range(frames)
                                   /\ (hdr.show # "implicit" => x \in Values(pending))
  BY <1>4 DEF Values
<1>11. \A x \in Values(pending) : x \in Nat /\ x <= count
  BY OwedAreOld
<1>12. \A i \in 1 .. Len(scheduled') : scheduled'[i] <= count' /\ scheduled'[i] \notin Values(pending')
  <2> SUFFICES ASSUME NEW i \in 1 .. Len(scheduled')
               PROVE  scheduled'[i] <= count' /\ scheduled'[i] \notin Values(pending')
    OBVIOUS
  <2>1. CASE i \in 1 .. Len(scheduled) /\ scheduled'[i] = scheduled[i]
    <3>1. scheduled[i] <= count /\ scheduled[i] \in Nat
      BY <1>1, <2>1 DEF OrderInv, ScheduledOnce
    <3>2. QED
      BY <1>1, <1>2, <1>6, <1>10, <2>1, <3>1
  <2>2. CASE scheduled'[i] \in Range(frames)
    <3>1. scheduled'[i] \in Values(pending) \/ scheduled'[i] = count + 1
      BY <1>5, <2>2
    <3>2. scheduled'[i] <= count'
      BY <1>1, <1>2, <1>11, <3>1
    <3>3. QED
      BY <1>10, <2>2, <3>2
  <2>3. QED
    BY <1>9, <2>1, <2>2
<1>13. hdr.show = "immediate" => count' \notin Values(pending')
                                 /\ \A i \in 1 .. Len(scheduled') : scheduled'[i] # count'
  <2> SUFFICES ASSUME hdr.show = "immediate"
               PROVE  count' \notin Values(pending') /\ \A i \in 1 .. Len(scheduled') : scheduled'[i] # count'
    OBVIOUS
  <2>1. count + 1 \notin Values(pending)
    BY <1>1, <1>11
  <2>2. QED
    BY <1>2, <1>5, <1>6, <1>9, <1>10, <2>1
<1>14. ScheduledOnce'
  BY <1>2, <1>8, <1>12, <1>13 DEF ScheduledOnce
<1>15. AllOut'
  BY <1>2, <1>3 DEF AllOut
<1>16. QED
  BY <1>8, <1>14, <1>15 DEF OrderInv

(* Owed frames are scheduled, and are not owed then.                       *)
LEMMA ShowOrder ==
  ASSUME Known, OrderInv, newly = <<>>, NEW frames \in Seq(Frames), Schedule(frames),
         UNCHANGED <<queue, delivered, fixed, count, outcome>>, outcome = "running",
         \A f \in Frames : status[f] = "ready" => status'[f] = "ready",
         \A i, j \in 1 .. Len(frames) : frames[i] = frames[j] => i = j,
         \A i \in 1 .. Len(frames) : frames[i] \in Values(pending)
                                     \/ (pc = "refreshed" /\ hdr.show = "immediate" /\ frames[i] = count),
         Values(pending') \subseteq Values(pending),
         \A i \in 1 .. Len(frames) : frames[i] \notin Values(pending'),
         pc' \in {"prepared", "ended", "shown"}
  PROVE  OrderInv'
<1>1. /\ Len(scheduled) \in Nat /\ count \in Nat /\ TablesType
      /\ \A i \in 1 .. Len(scheduled) : scheduled[i] \in Frames /\ scheduled[i] \in Nat
  BY DeliveredFrames
<1>2. \A x \in Values(pending) : x <= count
  BY OwedAreOld
<1>3. \A i \in 1 .. Len(frames) : \A j \in 1 .. Len(scheduled) : frames[i] # scheduled[j]
  BY DEF OrderInv, ScheduledOnce
<1>4. /\ LastScheduled' /\ StartsSchedule'
      /\ \A i, j \in 1 .. Len(scheduled') : scheduled'[i] = scheduled'[j] => i = j
      /\ \A i \in 1 .. Len(scheduled') :
            \/ i \in 1 .. Len(scheduled) /\ scheduled'[i] = scheduled[i]
            \/ \E j \in 1 .. Len(frames) : scheduled'[i] = frames[j]
  BY <1>3, Scheduling
<1>5. \A i \in 1 .. Len(scheduled') : scheduled'[i] <= count' /\ scheduled'[i] \notin Values(pending')
  <2> SUFFICES ASSUME NEW i \in 1 .. Len(scheduled')
               PROVE  scheduled'[i] <= count /\ scheduled'[i] \notin Values(pending')
    OBVIOUS
  <2>1. CASE i \in 1 .. Len(scheduled) /\ scheduled'[i] = scheduled[i]
    BY <2>1 DEF OrderInv, ScheduledOnce
  <2>2. CASE \E j \in 1 .. Len(frames) : scheduled'[i] = frames[j]
    BY <1>1, <1>2, <2>2
  <2>3. QED
    BY <1>4, <2>1, <2>2
<1>6. ScheduledOnce'
  BY <1>4, <1>5 DEF ScheduledOnce
<1>7. AllOut'
  BY DEF AllOut
<1>8. QED
  BY <1>4, <1>6, <1>7 DEF OrderInv

LEMMA OrderNext == Known /\ OrderInv /\ [Next]_vars => OrderInv'
<1> SUFFICES ASSUME Known, OrderInv, [Next]_vars PROVE OrderInv'
  OBVIOUS
<1>1. /\ OutputType /\ TablesType /\ Len(scheduled) \in Nat /\ Len(delivered) \in Nat /\ count \in Nat
      /\ \A i \in 1 .. Len(scheduled) : scheduled[i] \in Nat
      /\ \A i \in 1 .. Len(delivered) : delivered[i] \in Frames
  BY DeliveredFrames
<1>2. \A f \in Frames : status[f] = "ready" => status'[f] = "ready"
  BY ReadyStays
<1>3. pc \notin Ended => outcome = "running"
  BY DEF Known, Shape
<1>4. newly # <<>> => pc \in Charging \union Ended
  BY DEF Known, StoreInv, ChargedFirst
<1>5. CASE Deliver \/ Queue \/ PastLimit
  BY <1>5, QueueOrder
<1>6. CASE \/ HarvestAll \/ HarvestForRoom \/ ReclaimEntry \/ LookForSpace \/ FullHarvested \/ FullFlushed
           \/ WaitForSpace \/ Prepared \/ Restarted \/ Undecodable \/ Shown \/ Reclaimed
           \/ Flushed \/ Return \/ \E f \in Frames : Work(f)
  <2>1. UNCHANGED output
    BY <1>6, OutputUnchanged
  <2>2. UNCHANGED <<fixed, pending, count>>
    <3>1. CASE \/ HarvestAll \/ HarvestForRoom \/ ReclaimEntry \/ LookForSpace \/ FullHarvested
               \/ FullFlushed \/ WaitForSpace \/ Prepared
      BY <3>1 DEF HarvestAll, HarvestForRoom, ReclaimEntry, LookForSpace, FullHarvested,
                  FullFlushed, WaitForSpace, Prepared, store, tables
    <3>2. CASE \/ Restarted \/ Undecodable \/ Shown \/ Reclaimed \/ Flushed \/ Return
      BY <3>2 DEF Restarted, Undecodable, Shown, Reclaimed, Flushed, Return, store, tables
    <3>3. CASE \E f \in Frames : Work(f)
      BY <3>3 DEF Work, Settle, Leave, store, tables
    <3>4. QED
      BY <1>6, <3>1, <3>2, <3>3
  <2>3. AllOut' /\ (pc' = "refreshed" => pc = "refreshed" /\ hdr' = hdr)
    <3> USE <1>3, <1>4, <2>1 DEF Ended, Charging, output, Goto, Reclaim, Stop
    <3>1. CASE HarvestAll \/ HarvestForRoom
      BY <3>1 DEF HarvestAll, HarvestForRoom, OrderInv, AllOut
    <3>2. CASE ReclaimEntry
      BY <3>2 DEF ReclaimEntry, OrderInv, AllOut
    <3>3. CASE LookForSpace \/ FullHarvested \/ FullFlushed \/ WaitForSpace \/ Undecodable \/ Reclaimed
      BY <3>3 DEF LookForSpace, FullHarvested, FullFlushed, WaitForSpace, Undecodable, HasRoom,
                  Reclaimed, AllOut
    <3>4. CASE Prepared \/ Restarted \/ Shown
      BY <3>4 DEF Prepared, Restarted, Shown, Continue, Charged, AllOut
    <3>5. CASE Flushed
      BY <3>5 DEF Flushed, Charged, OrderInv, AllOut
    <3>6. CASE Return
      BY <3>6 DEF Return, OrderInv, AllOut
    <3>7. CASE \E f \in Frames : Work(f)
      BY <3>7 DEF Work, Settle, Leave, OrderInv, AllOut
    <3>8. QED
      BY <1>6, <3>1, <3>2, <3>3, <3>4, <3>5, <3>6, <3>7
  <2>4. QED
    BY <1>1, <1>2, <2>1, <2>2, <2>3, SameOrder
<1>7. CASE ReadHeader \/ EndOfStream
  <2>1. /\ UNCHANGED <<fixed, store, works, queue, delivered, slot, result>> /\ pc = "header"
        /\ newly = <<>> /\ outcome = "running"
    BY <1>3, <1>4, <1>7 DEF ReadHeader, EndOfStream, Charging, Ended
  <2>2. CASE /\ \E flushed \in Orders(Values(pending)) :
                  /\ Schedule(flushed)
                  /\ \A s \in Slots : pending'[s] = None
                                      \/ (pending'[s] = pending[s] /\ pending[s] \notin Range(flushed))
             /\ pc' \in {"prepared", "ended"} /\ outcome' = outcome
    <3>1. PICK flushed \in Orders(Values(pending)) :
            /\ Schedule(flushed)
            /\ \A s \in Slots : pending'[s] = None
                                \/ (pending'[s] = pending[s] /\ pending[s] \notin Range(flushed))
      BY <2>2
    <3>2. /\ flushed \in Seq(Frames) /\ DOMAIN flushed = 1 .. Len(flushed)
          /\ Range(flushed) \subseteq Values(pending)
          /\ \A i, j \in DOMAIN flushed : flushed[i] = flushed[j] => i = j
      BY <1>1, ValuesAreFew, OrdersAreSequences, SeqMonotonic DEF TablesType
    <3>3. \A i \in 1 .. Len(flushed) : flushed[i] \in Range(flushed) /\ flushed[i] \in Values(pending)
      BY <3>2 DEF Range
    <3>4. Values(pending') \subseteq Values(pending) \ Range(flushed)
      BY <3>1 DEF Values
    <3>5. QED
      BY <1>2, <2>1, <2>2, <3>1, <3>2, <3>3, <3>4, ShowOrder DEF store
  <2>3. CASE Stop("unreadable") /\ UNCHANGED <<scheduled, newly, pending, scan>>
    <3>1. AllOut' /\ pc' # "refreshed"
      BY <2>3 DEF AllOut, Stop
    <3>2. QED
      BY <1>1, <1>2, <2>1, <2>3, <3>1, SameOrder DEF output, store
  <2>4. CASE ReadHeader
    BY <2>2, <2>4 DEF ReadHeader, Goto
  <2>5. CASE EndOfStream
    BY <2>2, <2>3, <2>5 DEF EndOfStream, Goto
  <2>6. QED
    BY <1>7, <2>4, <2>5
<1>8. CASE Refreshed
  <2>1. /\ UNCHANGED <<fixed, hdr, store, works, queue, delivered, slot, result>> /\ pc = "refreshed"
        /\ newly = <<>> /\ outcome = "running"
    BY <1>3, <1>8 DEF Refreshed, Charged, Ended
  <2>2. CASE hdr.show = "immediate"
    <3>1. PICK before \in Orders(Values(pending)), behind \in Orders(Values(pending)) :
            /\ Range(before) \cap Range(behind) = {}
            /\ Schedule(before \o <<count>> \o behind)
            /\ pending' = [s \in Slots |-> IF pending[s] \in Range(before) \union Range(behind)
                                           THEN None ELSE pending[s]]
      BY <1>8, <2>2 DEF Refreshed
    <3>2. /\ before \in Seq(Frames) /\ behind \in Seq(Frames)
          /\ Range(before) \subseteq Values(pending) /\ Range(behind) \subseteq Values(pending)
          /\ \A i, j \in 1 .. Len(before) : before[i] = before[j] => i = j
          /\ \A i, j \in 1 .. Len(behind) : behind[i] = behind[j] => i = j
          /\ Len(before) \in Nat /\ Len(behind) \in Nat
          /\ Range(before) = {before[i] : i \in 1 .. Len(before)}
          /\ Range(behind) = {behind[i] : i \in 1 .. Len(behind)}
      BY <1>1, <3>1, ValuesAreFew, OrdersAreSequences, SeqMonotonic DEF TablesType, Range
    <3>3. count \in Frames
      BY <2>1, StoredIsFinite DEF Known, Shape, StoreInv
    <3>4. count \notin Values(pending)
      BY <2>1, <2>2 DEF OrderInv, ScheduledOnce
    <3> DEFINE frames == before \o <<count>> \o behind
    <3>5. /\ frames \in Seq(Frames) /\ Len(frames) = Len(before) + 1 + Len(behind)
          /\ \A i \in 1 .. Len(frames) :
                \/ i \in 1 .. Len(before) /\ frames[i] = before[i]
                \/ i = Len(before) + 1 /\ frames[i] = count
                \/ i - (Len(before) + 1) \in 1 .. Len(behind)
                   /\ frames[i] = behind[i - (Len(before) + 1)]
      <4> DEFINE first == Append(before, count)
      <4>1. /\ first \in Seq(Frames) /\ Len(first) = Len(before) + 1
            /\ \A i \in 1 .. Len(before) : first[i] = before[i]
            /\ first[Len(before) + 1] = count
        BY <3>2, <3>3, AppendProperties
      <4>2. first = before \o <<count>>
        BY <3>2, <3>3, AppendIsConcat
      <4>3. frames = first \o behind
        BY <4>2
      <4> HIDE DEF first, frames
      <4>4. first \in Seq(Frames) /\ behind \in Seq(Frames)
        BY <3>2, <4>1
      <4>5. /\ first \o behind \in Seq(Frames) /\ Len(first \o behind) = Len(first) + Len(behind)
            /\ \A i \in 1 .. Len(first) + Len(behind) :
                  (first \o behind)[i] = IF i <= Len(first) THEN first[i] ELSE behind[i - Len(first)]
        BY <4>4, ConcatProperties
      <4>6. /\ frames \in Seq(Frames) /\ Len(frames) = Len(before) + 1 + Len(behind)
            /\ \A i \in 1 .. Len(before) + 1 + Len(behind) :
                  frames[i] = IF i <= Len(before) + 1 THEN first[i] ELSE behind[i - (Len(before) + 1)]
        BY <4>1, <4>3, <4>5
      <4>7. QED
        <5> SUFFICES ASSUME NEW i \in 1 .. Len(frames)
                     PROVE  \/ i \in 1 .. Len(before) /\ frames[i] = before[i]
                            \/ i = Len(before) + 1 /\ frames[i] = count
                            \/ i - (Len(before) + 1) \in 1 .. Len(behind)
                               /\ frames[i] = behind[i - (Len(before) + 1)]
          BY <4>6
        <5>1. \/ i \in 1 .. Len(before) /\ i <= Len(before) + 1
              \/ i = Len(before) + 1
              \/ i - (Len(before) + 1) \in 1 .. Len(behind) /\ ~(i <= Len(before) + 1)
          <6>1. i \in 1 .. Len(before) + 1 + Len(behind) /\ Len(before) \in Nat /\ Len(behind) \in Nat
            BY <3>2, <4>6
          <6>2. QED
            BY <6>1
        <5>2. frames[i] = IF i <= Len(before) + 1 THEN first[i] ELSE behind[i - (Len(before) + 1)]
          BY <4>6
        <5>3. QED
          BY <3>2, <4>1, <5>1, <5>2
    <3> HIDE DEF frames
    <3>6. Schedule(frames)
      BY <3>1 DEF frames
    <3>7. \A i \in 1 .. Len(frames) : frames[i] \in Range(before) \union Range(behind) \union {count}
      BY <3>2, <3>5
    <3>8. \A i, j \in 1 .. Len(frames) : frames[i] = frames[j] => i = j
      <4> SUFFICES ASSUME NEW i \in 1 .. Len(frames), NEW j \in 1 .. Len(frames), frames[i] = frames[j]
                   PROVE  i = j
        OBVIOUS
      <4>1. i \in Int /\ j \in Int
        BY <3>2, <3>5
      <4>2. CASE i \in 1 .. Len(before) /\ frames[i] = before[i]
        <5>1. frames[i] \in Range(before) /\ frames[i] # count /\ frames[i] \notin Range(behind)
          BY <3>1, <3>2, <3>4, <4>2
        <5>2. j \in 1 .. Len(before) /\ frames[j] = before[j]
          BY <3>2, <3>5, <5>1
        <5>3. QED
          BY <3>2, <4>2, <5>2
      <4>3. CASE i = Len(before) + 1 /\ frames[i] = count
        <5>1. frames[j] \notin Range(before) /\ frames[j] \notin Range(behind)
          BY <3>2, <3>4, <4>3
        <5>2. j = Len(before) + 1
          BY <3>2, <3>5, <5>1
        <5>3. QED
          BY <4>3, <5>2
      <4>4. CASE i - (Len(before) + 1) \in 1 .. Len(behind) /\ frames[i] = behind[i - (Len(before) + 1)]
        <5>1. frames[i] \in Range(behind) /\ frames[i] # count
          BY <3>2, <3>4, <4>4
        <5>2. j - (Len(before) + 1) \in 1 .. Len(behind) /\ frames[j] = behind[j - (Len(before) + 1)]
          BY <3>1, <3>2, <3>5, <5>1
        <5>3. i - (Len(before) + 1) = j - (Len(before) + 1)
          BY <3>2, <4>4, <5>2
        <5>4. QED
          BY <3>2, <4>1, <5>3
      <4>5. QED
        BY <3>5, <4>2, <4>3, <4>4
    <3>9. Values(pending') \subseteq Values(pending) \ (Range(before) \union Range(behind))
      BY <3>1 DEF Values
    <3>10. pc' = "shown" /\ outcome' = outcome
      BY <1>8, <2>2 DEF Refreshed, Goto
    <3>11. \A i \in 1 .. Len(frames) : frames[i] \notin Values(pending')
      BY <3>4, <3>7, <3>9
    <3>12. \A i \in 1 .. Len(frames) : frames[i] \in Values(pending)
              \/ (pc = "refreshed" /\ hdr.show = "immediate" /\ frames[i] = count)
      BY <2>1, <2>2, <3>2, <3>7
    <3>13. Values(pending') \subseteq Values(pending)
      BY <3>9
    <3>14. QED
      BY <1>2, <2>1, <3>5, <3>6, <3>8, <3>10, <3>11, <3>12, <3>13, ShowOrder DEF store
  <2>3. CASE hdr.show # "immediate"
    <3>1. /\ UNCHANGED <<pending, scheduled, newly, outcome>> /\ pc' = "reclaim"
      BY <1>8, <2>3 DEF Refreshed, Reclaim
    <3>2. AllOut'
      BY <2>1, <3>1 DEF AllOut
    <3>3. QED
      BY <1>1, <1>2, <2>1, <3>1, <3>2, SameOrder DEF output, store
  <2>4. QED
    BY <2>2, <2>3
<1>9. CASE ShowExisting \/ DecodeInline \/ DeferFilters \/ DeferTip \/ DeferSplit
  <2>1. pc = "decode"
    BY <1>9 DEF ShowExisting, DecodeInline, DeferFilters, DeferTip, DeferSplit, HasRoom
  <2>2. \/ Push(count + 1)
        \/ /\ Stop("failedSlot") \/ Stop("undecodable")
           /\ UNCHANGED <<fixed, hdr, count, output, tables>>
    <3>1. CASE ShowExisting
      BY <3>1 DEF ShowExisting, store
    <3>2. CASE DecodeInline \/ DeferFilters \/ DeferTip \/ DeferSplit
      BY <3>2 DEF DecodeInline, DeferFilters, DeferTip, DeferSplit, Defer
    <3>3. QED
      BY <1>9, <3>1, <3>2
  <2>3. CASE Push(count + 1)
    BY <1>2, <2>1, <2>3, PushOrder
  <2>4. CASE /\ Stop("failedSlot") \/ Stop("undecodable")
             /\ UNCHANGED <<fixed, hdr, count, output, tables>>
    <3>1. AllOut' /\ pc' # "refreshed"
      BY <2>4 DEF AllOut, Stop
    <3>2. QED
      BY <1>1, <1>2, <2>4, <3>1, SameOrder DEF tables
  <2>5. QED
    BY <2>2, <2>3, <2>4
<1>10. CASE UNCHANGED vars
  <2>1. UNCHANGED <<output, fixed, pending, count, pc, hdr, outcome>>
    BY <1>10 DEF vars, store, tables
  <2>2. AllOut'
    BY <2>1 DEF OrderInv, AllOut, output
  <2>3. QED
    BY <1>1, <1>2, <2>1, <2>2, SameOrder
<1>11. QED
  BY <1>5, <1>6, <1>7, <1>8, <1>9, <1>10 DEF Next, Loop

(* The caller gets what is scheduled, in its order, no frame twice, none   *)
(* past the limit, and everything owed from a decode without an error      *)
(* (EmissionQueue, charge_emitted_outputs).                                *)
THEOREM DeliveryFollowsTheSchedule == Spec => []DeliveredInOrder
<1>1. Spec => [](Known /\ OrderInv)
  BY InitType, TypeNext, InitWork, WorkNext, InitStore, StoreNext, InitOrder, OrderNext, PTL DEF Spec, Known
<1>2. Known /\ OrderInv => DeliveredInOrder
  <2> SUFFICES ASSUME Known, OrderInv PROVE DeliveredInOrder
    OBVIOUS
  <2>1. /\ OutputType /\ limit \in Limits /\ Len(scheduled) \in Nat /\ Len(newly) \in Nat /\ Len(queue) \in Nat
        /\ Len(delivered) \in Nat /\ limit \in Nat /\ Counted \in Nat /\ Counted <= Len(scheduled)
        /\ Len(delivered) + Len(queue) <= Counted
    BY DeliveredFrames
  <2>2. DOMAIN scheduled = 1 .. Len(scheduled) /\ DOMAIN delivered = 1 .. Len(delivered)
    BY <2>1, Lengths
  <2>3. /\ Owed \in Seq(Frames)
        /\ Len(Owed) = IF limit # 0 /\ limit < Len(scheduled) THEN limit ELSE Len(scheduled)
        /\ \A i \in 1 .. Len(Owed) : Owed[i] = scheduled[i]
    <3>1. CASE limit # 0 /\ limit < Len(scheduled)
      <4>1. Owed = SubSeq(scheduled, 1, limit)
        BY <3>1 DEF Owed
      <4>2. \A i \in 1 .. limit : i \in 1 .. Len(scheduled)
        BY <2>1, <3>1
      <4>3. /\ SubSeq(scheduled, 1, limit) \in Seq(Frames) /\ Len(SubSeq(scheduled, 1, limit)) = limit
            /\ \A i \in 1 .. limit : SubSeq(scheduled, 1, limit)[i] = scheduled[i]
        BY <2>1, <3>1, <4>2, SubSeqProperties DEF OutputType
      <4>4. QED
        BY <3>1, <4>1, <4>3
    <3>2. CASE ~(limit # 0 /\ limit < Len(scheduled))
      BY <2>1, <3>2 DEF Owed, OutputType
    <3>3. QED
      BY <3>1, <3>2
  <2>4. Len(delivered) <= Len(Owed)
    BY <2>1, <2>3 DEF OrderInv, StartsSchedule
  <2>5. \A i \in 1 .. Len(delivered) : delivered[i] = Owed[i] /\ status[delivered[i]] = "ready"
    <3>1. \A i \in 1 .. Len(delivered) : i \in 1 .. Len(Owed)
      BY <2>1, <2>3, <2>4
    <3>2. QED
      BY <2>3, <3>1 DEF OrderInv, StartsSchedule
  <2>6. result = "ok" => delivered = Owed
    <3> SUFFICES ASSUME result = "ok" PROVE delivered = Owed
      OBVIOUS
    <3>1. pc = "returned"
      BY DEF Known, Shape
    <3>2. outcome = "ok"
      BY <3>1 DEF Known, WorkInv, Reported
    <3>3. Len(queue) = 0 /\ Len(newly) = 0
      BY <3>2 DEF OrderInv, AllOut
    <3>4. Len(delivered) = Len(Owed)
      BY <2>1, <2>3, <3>3 DEF OrderInv, StartsSchedule, Counted
    <3>5. QED
      BY <2>1, <2>3, <2>5, <3>4, SeqEqual DEF OutputType
  <2>7. \A i, j \in DOMAIN scheduled : scheduled[i] = scheduled[j] => i = j
    BY <2>2 DEF OrderInv, ScheduledOnce
  <2>8. QED
    BY <2>2, <2>4, <2>5, <2>6, <2>7 DEF DeliveredInOrder
<1>3. QED
  BY <1>1, <1>2, PTL
=============================================================================
