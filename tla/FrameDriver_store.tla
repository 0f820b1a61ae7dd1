-------------------------- MODULE FrameDriver_store --------------------------
(***************************************************************************)
(* Proofs about what the frame loop keeps in its store, and for how long.  *)
(***************************************************************************)
EXTENDS FrameDriver_proofs

(* What is still asked of the store is in it: the frames of the reference  *)
(* slots, the frames owed and the frames on their way to the caller.       *)
Kept ==
    /\ Values(slot) \subseteq tracked
    /\ Values(pending) \subseteq tracked
    /\ Range(queue) \subseteq tracked
    /\ Range(newly) \subseteq tracked

(* Frames ordered for output are charged before anything is reclaimed.     *)
ChargedFirst == newly # <<>> => pc \in Charging \union Ended

(* A frame has its own samples or those of an earlier frame, and frames    *)
(* that share them are settled.                                            *)
Sources ==
    /\ \A f \in Frames : sample[f] <= f
    /\ \A f, g \in tracked :
        f # g /\ sample[f] = sample[g] => status[f] = "ready" /\ status[g] = "ready"

StoreInv == Kept /\ ChargedFirst /\ Sources /\ BytesAreThoseStored /\ outcome # "internal"

Stored == {sample[f] : f \in tracked}

LEMMA InitStore == Init => StoreInv
<1> SUFFICES ASSUME Init PROVE StoreInv
  OBVIOUS
<1>1. Kept
  BY DEF Init, Kept, Values, Range
<1>2. {sample[f] : f \in tracked} = {}
  BY DEF Init
<1>3. BytesAreThoseStored
  BY <1>2, FS_EmptySet DEF Init, BytesAreThoseStored
<1>4. ChargedFirst /\ Sources /\ outcome # "internal"
  BY Sizes DEF Init, ChargedFirst, Sources
<1>5. QED
  BY <1>1, <1>3, <1>4 DEF StoreInv

(* The samples stored are finitely many, and as old as the store.          *)
LEMMA StoredIsFinite ==
  ASSUME TypeOK, Sources
  PROVE  /\ IsFiniteSet(Stored) /\ Stored \subseteq 1 .. count
         /\ count \in Nat /\ tracked \subseteq Frames
<1>1. count \in Nat /\ tracked \subseteq 1 .. count /\ sample \in [Frames -> Frames] /\ count <= NumFrames
  BY Sizes DEF TypeOK
<1>2. tracked \subseteq Frames
  BY <1>1, Sizes DEF Frames
<1>3. \A f \in tracked : sample[f] \in 1 .. count
  BY <1>1, <1>2, Sizes DEF Sources, Frames
<1>4. Stored \subseteq 1 .. count
  BY <1>3 DEF Stored
<1>5. IsFiniteSet(1 .. count)
  BY <1>1, FS_Interval
<1>6. QED
  BY <1>1, <1>2, <1>4, <1>5, FS_Subset

LEMMA ConcatRange ==
  ASSUME NEW S, NEW s \in Seq(S), NEW t \in Seq(S)
  PROVE  Range(s \o t) = Range(s) \union Range(t)
<1>1. /\ s \o t \in Seq(S) /\ Len(s \o t) = Len(s) + Len(t) /\ Len(s) \in Nat /\ Len(t) \in Nat
      /\ \A i \in 1 .. Len(s) + Len(t) :
            (s \o t)[i] = IF i <= Len(s) THEN s[i] ELSE t[i - Len(s)]
  BY ConcatProperties, LenProperties
<1>2. /\ Range(s) = {s[i] : i \in 1 .. Len(s)} /\ Range(t) = {t[i] : i \in 1 .. Len(t)}
      /\ Range(s \o t) = {(s \o t)[i] : i \in 1 .. Len(s) + Len(t)}
  BY <1>1, LenProperties DEF Range
<1>3. \A i \in 1 .. Len(s) + Len(t) : i \in 1 .. Len(s) \/ (i > Len(s) /\ i - Len(s) \in 1 .. Len(t))
  BY <1>1
<1>4. \A x \in Range(s \o t) : x \in Range(s) \union Range(t)
  BY <1>1, <1>2, <1>3
<1>5. \A i \in 1 .. Len(s) : i \in 1 .. Len(s) + Len(t) /\ (s \o t)[i] = s[i]
  BY <1>1
<1>6. \A i \in 1 .. Len(t) : i + Len(s) \in 1 .. Len(s) + Len(t) /\ (s \o t)[i + Len(s)] = t[i]
  BY <1>1
<1>7. \A x \in Range(s) \union Range(t) : x \in Range(s \o t)
  BY <1>2, <1>5, <1>6
<1>8. QED
  BY <1>4, <1>7

LEMMA SingletonRange ==
  ASSUME NEW S, NEW s \in Seq(S), NEW e \in S
  PROVE  s \o <<e>> \in Seq(S) /\ Range(s \o <<e>>) = Range(s) \union {e}
<1>1. <<e>> \in Seq(S)
  OBVIOUS
<1>2. Range(<<e>>) = {e}
  BY DEF Range
<1>3. DEFINE one == <<e>>
<1>4. one \in Seq(S) /\ Range(one) = {e}
  BY <1>1, <1>2
<1>5. HIDE DEF one
<1>6. s \o one \in Seq(S) /\ Range(s \o one) = Range(s) \union {e}
  BY <1>4, ConcatRange, ConcatProperties
<1>7. QED
  BY <1>6 DEF one

(* A stored frame is asked for from then on.                               *)
LEMMA PushKeeps ==
  ASSUME TypeOK, Shape, Kept, pc = "decode", Push(count + 1)
  PROVE  Kept' /\ ChargedFirst' /\ outcome' # "internal"
<1>1. /\ count + 1 \in Frames /\ tracked' = tracked \union {count + 1}
      /\ pc' = "refreshed" /\ queue' = queue /\ outcome' = outcome
  BY PushTypes
<1>2. PICK frames :
        /\ frames \in Orders(Values(pending)) \/ frames \in Orders(Values(pending) \union {count + 1})
        /\ Schedule(frames)
        /\ \A s \in Slots : pending'[s] \in {pending[s], count + 1, None}
  BY DEF Push
<1>3. Range(frames) \subseteq Values(pending) \union {count + 1}
  BY <1>1, <1>2, PendingOrders
<1>4. Values(pending') \subseteq Values(pending) \union {count + 1}
  BY <1>2 DEF Values
<1>5. Values(slot') \subseteq Values(slot) \union {count + 1}
  BY DEF Push, Values
<1>6. QED
  BY <1>1, <1>2, <1>3, <1>4, <1>5 DEF Kept, ChargedFirst, Charging, Schedule, Shape, Ended

(* A new frame with its own samples is one byte more.                      *)
LEMMA OwnSamples ==
  ASSUME TypeOK, Shape, StoreInv, pc = "decode", Push(count + 1), Fresh,
         UNCHANGED sample, retained' = retained + 1,
         \A f \in Frames : f # count + 1 => status'[f] = status[f]
  PROVE  StoreInv'
<1>1. /\ count + 1 \in Frames /\ tracked' = tracked \union {count + 1}
      /\ count \in Nat /\ tracked \subseteq 1 .. count /\ tracked \subseteq Frames
      /\ IsFiniteSet(Stored) /\ Stored \subseteq 1 .. count
  BY PushTypes, StoredIsFinite DEF StoreInv, TypeOK
<1>2. sample[count + 1] = count + 1
  BY <1>1 DEF Fresh, Ended
<1>3. Stored' = Stored \union {count + 1}
  BY <1>1, <1>2 DEF Stored
<1>4. count + 1 \notin Stored /\ count + 1 \notin tracked
  BY <1>1
<1>5. Cardinality(Stored') = Cardinality(Stored) + 1
  BY <1>1, <1>3, <1>4, FS_AddElement
<1>6. BytesAreThoseStored'
  BY <1>5 DEF StoreInv, BytesAreThoseStored, Stored
<1>7. Sources'
  <2>1. \A f \in tracked : sample[f] # count + 1
    BY <1>4 DEF Stored
  <2>2. \A f, g \in tracked' : f # g /\ sample[f] = sample[g] => f \in tracked /\ g \in tracked
    BY <1>1, <1>2, <2>1
  <2>3. QED
    BY <1>1, <1>4, <2>2 DEF StoreInv, Sources
<1>8. QED
  BY <1>6, <1>7, PushKeeps DEF StoreInv

(* A show-existing frame costs nothing: its samples are already stored.    *)
LEMMA SharedSamples ==
  ASSUME TypeOK, Shape, StoreInv, pc = "decode", Push(count + 1), Ready(count + 1),
         NEW source \in Values(slot), status[source] = "ready",
         sample' = [sample EXCEPT ![count + 1] = sample[source]], UNCHANGED retained
  PROVE  StoreInv'
<1>1. /\ count + 1 \in Frames /\ tracked' = tracked \union {count + 1}
      /\ count \in Nat /\ tracked \subseteq 1 .. count /\ tracked \subseteq Frames
      /\ Stored \subseteq 1 .. count /\ sample \in [Frames -> Frames]
      /\ status \in [Frames -> {"none", "pending", "ready", "failed"}]
  BY PushTypes, StoredIsFinite DEF StoreInv, TypeOK
<1>2. source \in tracked /\ count + 1 \notin tracked
  BY <1>1 DEF StoreInv, Kept
<1>3. /\ sample'[count + 1] = sample[source]
      /\ \A f \in tracked : sample'[f] = sample[f] /\ status'[f] = status[f]
      /\ status'[count + 1] = "ready"
  BY <1>1, <1>2 DEF Ready
<1>4. Stored' = Stored
  BY <1>1, <1>2, <1>3 DEF Stored
<1>5. BytesAreThoseStored'
  BY <1>4 DEF StoreInv, BytesAreThoseStored, Stored
<1>6. \A f \in Frames : sample'[f] <= f
  <2>1. sample[source] <= count + 1
    BY <1>1, <1>2 DEF Stored
  <2>2. QED
    BY <1>1, <2>1 DEF StoreInv, Sources
<1>7. \A f, g \in tracked' : f # g /\ sample'[f] = sample'[g] => status'[f] = "ready" /\ status'[g] = "ready"
  <2>1. \A f \in tracked : sample[f] = sample[source] => status[f] = "ready"
    BY <1>2 DEF StoreInv, Sources
  <2>2. QED
    BY <1>1, <1>3, <2>1 DEF StoreInv, Sources
<1>8. QED
  BY <1>5, <1>6, <1>7, PushKeeps DEF StoreInv, Sources

(* Reclaiming a frame returns its byte unless another frame still has it.  *)
LEMMA Reclaiming ==
  ASSUME TypeOK, Shape, StoreInv, ReclaimEntry
  PROVE  StoreInv'
<1>1. /\ UNCHANGED <<fixed, hdr, count, sample, works, output, tables, result>>
      /\ pc \in {"restart", "reclaim", "wait", "endReclaim"}
  BY DEF ReclaimEntry
<1>2. newly = <<>> /\ outcome = "running"
  BY <1>1 DEF StoreInv, ChargedFirst, Charging, Ended, Shape
<1>3. PICK f \in scan :
        IF ~Reclaimable(f)
        THEN UNCHANGED <<pc, outcome, tracked, retained>>
        ELSE LET bytes == IF Shares(f) THEN 0 ELSE 1
             IN  IF retained < bytes
                 THEN Stop("internal") /\ UNCHANGED <<tracked, retained>>
                 ELSE /\ tracked' = tracked \ {f}
                      /\ retained' = retained - bytes
                      /\ UNCHANGED <<pc, outcome>>
  BY DEF ReclaimEntry
<1>4. /\ f \in tracked /\ IsFiniteSet(Stored) /\ retained = Cardinality(Stored) /\ retained \in Nat
      /\ Cardinality(Stored) \in Nat
  BY StoredIsFinite, FS_CardinalityType DEF Shape, StoreInv, BytesAreThoseStored, Stored, TypeOK
<1>5. CASE ~Reclaimable(f)
  BY <1>1, <1>3, <1>5 DEF StoreInv, Kept, ChargedFirst, Sources, BytesAreThoseStored, works, output, tables
<1>6. CASE Reclaimable(f)
  <2> DEFINE rest == {sample[g] : g \in tracked \ {f}}
  <2>1. Stored = rest \union {sample[f]}
    BY <1>4 DEF Stored
  <2>2. BytesAreThoseStored' <=> retained' = Cardinality(Stored')
    BY DEF BytesAreThoseStored, Stored
  <2>3. tracked' = tracked \ {f} => Stored' = rest
    BY <1>1 DEF Stored
  <2>4. BytesAreThoseStored' /\ tracked' = tracked \ {f} /\ UNCHANGED <<pc, outcome>>
    <3>1. CASE Shares(f)
      <4>1. rest = Stored
        BY <2>1, <3>1 DEF Shares
      <4>2. tracked' = tracked \ {f} /\ retained' = retained /\ UNCHANGED <<pc, outcome>>
        BY <1>3, <1>4, <1>6, <3>1
      <4>3. QED
        BY <1>4, <2>2, <2>3, <4>1, <4>2
    <3>2. CASE ~Shares(f)
      <4>1. \A g \in tracked \ {f} : sample[g] # sample[f]
        BY <1>4, <3>2 DEF Shares, StoreInv, Sources
      <4>2. rest = Stored \ {sample[f]} /\ sample[f] \in Stored
        BY <2>1, <4>1
      <4>3. Cardinality(rest) = retained - 1 /\ IsFiniteSet(rest)
        BY <1>4, <4>2, FS_RemoveElement
      <4>4. Cardinality(rest) \in Nat
        BY <4>3, FS_CardinalityType
      <4>5. ~(retained < 1)
        BY <1>4, <4>3, <4>4
      <4>6. tracked' = tracked \ {f} /\ retained' = retained - 1 /\ UNCHANGED <<pc, outcome>>
        BY <1>3, <1>6, <3>2, <4>5
      <4>7. QED
        BY <2>2, <2>3, <4>3, <4>6
    <3>3. QED
      BY <3>1, <3>2
  <2>5. Kept'
    BY <1>1, <1>2, <1>6, <2>4 DEF Reclaimable, Kept, StoreInv, output, tables, Range
  <2>6. Sources' /\ ChargedFirst'
    BY <1>1, <1>2, <2>4 DEF StoreInv, Sources, ChargedFirst, works, output
  <2>7. QED
    BY <1>2, <2>4, <2>5, <2>6 DEF StoreInv
<1>7. QED
  BY <1>5, <1>6

(* Actions that neither store, ask for nor drop a frame.                   *)
LEMMA SameStore ==
  ASSUME TypeOK, Shape, StoreInv, UNCHANGED <<count, tracked, sample, status, retained>>,
         Kept', ChargedFirst', outcome' # "internal"
  PROVE  StoreInv'
  BY DEF StoreInv, Sources, BytesAreThoseStored

LEMMA StoreNext == TypeOK /\ Shape /\ WorkInv /\ StoreInv /\ [Next]_vars => StoreInv'
<1> SUFFICES ASSUME TypeOK, Shape, WorkInv, StoreInv, [Next]_vars PROVE StoreInv'
  OBVIOUS
<1>1. Kept /\ ChargedFirst /\ outcome # "internal" /\ (pc \notin Ended => outcome = "running")
  BY DEF StoreInv, Shape
<1>2. OutputType /\ TablesType /\ WorkType /\ StoreType
  BY TypeParts
<1>3. CASE Deliver \/ Queue \/ PastLimit
  <2>1. UNCHANGED <<fixed, hdr, store, works, tables, scan, result>> /\ pc \in Charging \union Flushing
    BY <1>3 DEF Deliver, Queue, PastLimit
  <2>2. CASE Deliver
    <3>1. Range(queue) = Range(Tail(queue)) \union {Head(queue)} /\ Head(queue) \in tracked
      BY <1>1, <1>2, <2>2, HeadAndTail DEF Deliver, OutputType, Kept
    <3>2. newly' = newly /\ queue' \in {queue, Tail(queue)} /\ outcome' \in {outcome, "failedSlot", "refused"}
          /\ pc' \in {pc, "collect"}
      BY <2>2, <3>1 DEF Deliver, Stop, output
    <3>3. Kept' /\ ChargedFirst'
      BY <1>1, <2>1, <3>1, <3>2 DEF Kept, ChargedFirst, store, tables, Ended
    <3>4. QED
      BY <1>1, <2>1, <3>2, <3>3, SameStore DEF store, works
  <2>3. CASE Queue
    <3>1. Range(newly) = Range(Tail(newly)) \union {Head(newly)} /\ Head(newly) \in tracked
          /\ Head(newly) \in Frames
      BY <1>1, <1>2, <2>3, HeadAndTail DEF Queue, OutputType, Kept
    <3>2. Range(Append(queue, Head(newly))) = Range(queue) \union {Head(newly)}
      BY <1>2, <3>1, AppendRange DEF OutputType
    <3>3. \/ UNCHANGED <<newly, queue>> /\ pc' = "collect" /\ outcome' = "refused"
          \/ /\ queue' = Append(queue, Head(newly)) /\ newly' = Tail(newly)
             /\ UNCHANGED <<pc, outcome>>
      BY <2>3, <3>1 DEF Queue, Stop
    <3>4. Kept'
      BY <1>1, <2>1, <3>1, <3>2, <3>3 DEF Kept, store, tables
    <3>5. ChargedFirst'
      BY <1>1, <2>1, <2>3, <3>3 DEF ChargedFirst, Ended, Queue
    <3>6. QED
      BY <1>1, <2>1, <3>3, <3>4, <3>5, SameStore DEF store, works
  <2>4. CASE PastLimit
    <3>1. newly' = <<>> /\ queue' = queue /\ UNCHANGED <<pc, outcome>>
      BY <2>4 DEF PastLimit
    <3>2. Range(newly') = {}
      BY <3>1 DEF Range
    <3>3. Kept' /\ ChargedFirst'
      BY <1>1, <2>1, <3>1, <3>2 DEF Kept, ChargedFirst, store, tables
    <3>4. QED
      BY <1>1, <2>1, <3>1, <3>3, SameStore DEF store, works
  <2>5. QED
    BY <1>3, <2>2, <2>3, <2>4
<1>4. CASE ReclaimEntry
  BY <1>4, Reclaiming
<1>5. CASE \/ HarvestAll \/ HarvestForRoom \/ LookForSpace \/ FullHarvested \/ FullFlushed
           \/ WaitForSpace \/ Restarted \/ Undecodable \/ Shown \/ Reclaimed \/ Flushed \/ Return
  <2>1. UNCHANGED <<store, output, tables, status>>
    BY <1>5, StoreUnchanged, OutputUnchanged, TablesUnchanged, WorksUnchanged
       DEF works, HarvestAll, HarvestForRoom, Harvest
  <2>2. Kept'
    BY <1>1, <2>1 DEF Kept, store, output, tables
  <2>3. ChargedFirst' /\ outcome' # "internal"
    <3>1. CASE HarvestAll \/ HarvestForRoom \/ LookForSpace \/ FullHarvested \/ FullFlushed
               \/ WaitForSpace \/ Undecodable
      BY <1>1, <2>1, <3>1 DEF HarvestAll, HarvestForRoom, LookForSpace, FullHarvested, FullFlushed,
         WaitForSpace, Undecodable, HasRoom, ChargedFirst, Charging, Ended, Goto, Reclaim, Stop, output
    <3>2. CASE Restarted
      BY <1>1, <2>1, <3>2 DEF Restarted, Continue, ChargedFirst, Charging, Ended, Goto, Stop, output, Kept
    <3>3. CASE Shown \/ Reclaimed \/ Flushed \/ Return
      BY <1>1, <2>1, <3>3 DEF Shown, Reclaimed, Flushed, Return, Charged, ChargedFirst, Charging, Ended,
         Goto, Reclaim, Stop, output
    <3>4. QED
      BY <1>5, <3>1, <3>2, <3>3
  <2>4. QED
    BY <2>1, <2>2, <2>3, SameStore DEF store
<1>6. CASE Prepared
  <2>1. UNCHANGED <<fixed, hdr, store, works, output, pending, result>> /\ newly = <<>>
    BY <1>6 DEF Prepared, Charged
  <2>2. Values(slot') \subseteq Values(slot)
    BY <1>6 DEF Prepared, Values
  <2>3. Kept' /\ ChargedFirst'
    BY <1>1, <2>1, <2>2 DEF Kept, ChargedFirst, store, output
  <2>4. outcome' # "internal"
    <3>1. CASE hdr.restart
      BY <1>1, <1>6, <3>1 DEF Prepared, Reclaim
    <3>2. CASE ~hdr.restart
      <4>1. Continue(Values(slot'))
        BY <1>6, <3>2 DEF Prepared
      <4>2. Values(slot') \subseteq tracked
        BY <1>1, <2>2 DEF Kept
      <4>3. QED
        BY <1>1, <4>1, <4>2 DEF Continue, Goto, Stop
    <3>3. QED
      BY <3>1, <3>2
  <2>5. QED
    BY <2>1, <2>3, <2>4, SameStore DEF store, works
<1>7. CASE ReadHeader \/ EndOfStream \/ Refreshed
  <2>1. UNCHANGED <<fixed, store, works, queue, delivered, slot, result>>
    BY <1>7 DEF ReadHeader, EndOfStream, Refreshed
  <2>2. Values(pending') \subseteq Values(pending) /\ Range(newly') \subseteq tracked
        /\ ChargedFirst' /\ outcome' # "internal"
    <3>1. CASE ReadHeader
      <4>1. PICK flushed \in Orders(Values(pending)) :
              /\ Schedule(flushed)
              /\ pending' = [s \in Slots |-> IF pending[s] \in Range(flushed) THEN None ELSE pending[s]]
        BY <3>1 DEF ReadHeader
      <4>2. Range(flushed) \subseteq Values(pending)
        BY <1>2, <4>1, ValuesAreFew, OrdersAreSequences DEF TablesType
      <4>3. Values(pending') \subseteq Values(pending)
        BY <4>1 DEF Values
      <4>4. pc' = "prepared" /\ outcome' = outcome
        BY <3>1 DEF ReadHeader, Goto
      <4>5. QED
        BY <1>1, <4>1, <4>2, <4>3, <4>4 DEF Schedule, Kept, ChargedFirst, Charging
    <3>2. CASE EndOfStream
      <4>1. CASE Stop("unreadable") /\ UNCHANGED <<scheduled, newly, pending, scan>>
        BY <1>1, <4>1 DEF Kept, ChargedFirst, Stop, Ended
      <4>2. CASE /\ \E flushed \in Orders(Values(pending)) : Schedule(flushed)
                 /\ pending' = [s \in Slots |-> None] /\ Goto("ended")
        <5>1. PICK flushed \in Orders(Values(pending)) : Schedule(flushed)
          BY <4>2
        <5>2. Range(flushed) \subseteq Values(pending)
          BY <1>2, <5>1, ValuesAreFew, OrdersAreSequences DEF TablesType
        <5>3. Values(pending') \subseteq Values(pending)
          BY <4>2 DEF Values
        <5>4. QED
          BY <1>1, <4>2, <5>1, <5>2, <5>3 DEF Schedule, Kept, ChargedFirst, Charging, Goto
      <4>3. QED
        BY <3>2, <4>1, <4>2 DEF EndOfStream
    <3>3. CASE Refreshed /\ hdr.show = "immediate"
      <4>1. PICK before \in Orders(Values(pending)), behind \in Orders(Values(pending)) :
              /\ Schedule(before \o <<count>> \o behind)
              /\ pending' = [s \in Slots |-> IF pending[s] \in Range(before) \union Range(behind)
                                             THEN None ELSE pending[s]]
        BY <3>3 DEF Refreshed
      <4>2. /\ before \in Seq(Frames) /\ behind \in Seq(Frames)
            /\ Range(before) \subseteq Values(pending) /\ Range(behind) \subseteq Values(pending)
        BY <1>2, <4>1, ValuesAreFew, OrdersAreSequences, SeqMonotonic DEF TablesType
      <4>3. count \in tracked /\ count \in Frames
        BY <3>3, StoredIsFinite DEF Refreshed, Charged, Shape, StoreInv
      <4>5. before \o <<count>> \in Seq(Frames)
        BY <4>2, <4>3, SingletonRange
      <4>6. Range(before \o <<count>> \o behind) = Range(before) \union {count} \union Range(behind)
        <5>1. Range(before \o <<count>>) = Range(before) \union {count}
          BY <4>2, <4>3, SingletonRange
        <5>2. Range(before \o <<count>> \o behind) = Range(before \o <<count>>) \union Range(behind)
          BY <4>2, <4>5, ConcatRange
        <5>3. QED
          BY <5>1, <5>2
      <4>7. Values(pending') \subseteq Values(pending)
        BY <4>1 DEF Values
      <4>8. pc' = "shown" /\ outcome' = outcome
        BY <3>3 DEF Refreshed, Goto
      <4>9. QED
        BY <1>1, <4>1, <4>2, <4>3, <4>6, <4>7, <4>8 DEF Schedule, Kept, ChargedFirst, Charging
    <3>4. CASE Refreshed /\ hdr.show # "immediate"
      BY <1>1, <3>4 DEF Refreshed, Charged, Reclaim, Kept, ChargedFirst
    <3>5. QED
      BY <1>7, <3>1, <3>2, <3>3, <3>4
  <2>3. Kept'
    BY <1>1, <2>1, <2>2 DEF Kept, store
  <2>4. QED
    BY <2>1, <2>2, <2>3, SameStore DEF store, works
<1>8. CASE ShowExisting
  <2>1. pc = "decode"
    BY <1>8 DEF ShowExisting
  <2>2. PICK source \in Values(slot) :
          /\ Settled(source)
          /\ IF status[source] = "failed"
             THEN /\ Stop("failedSlot")
                  /\ UNCHANGED <<fixed, hdr, store, status, output, tables, scan, result>>
             ELSE /\ Push(count + 1) /\ Ready(count + 1)
                  /\ sample' = [sample EXCEPT ![count + 1] = sample[source]]
                  /\ UNCHANGED retained
    BY <1>8 DEF ShowExisting
  <2>3. CASE status[source] = "failed"
    <3>1. Kept' /\ ChargedFirst' /\ outcome' # "internal"
      BY <1>1, <2>2, <2>3 DEF Kept, ChargedFirst, Stop, Ended, store, output, tables
    <3>2. QED
      BY <2>2, <2>3, <3>1, SameStore DEF store
  <2>4. CASE status[source] # "failed"
    BY <2>1, <2>2, <2>4, SharedSamples DEF Settled
  <2>5. QED
    BY <2>3, <2>4
<1>9. CASE DecodeInline \/ DeferFilters \/ DeferTip \/ DeferSplit
  <2>1. pc = "decode" /\ UNCHANGED sample
    BY <1>9 DEF DecodeInline, DeferFilters, DeferTip, DeferSplit, Defer, HasRoom
  <2>2. \A f \in Frames : f # count + 1 => status'[f] = status[f]
    BY <1>2, <1>9 DEF DecodeInline, DeferFilters, DeferTip, DeferSplit, Defer, Ready, WorkType
  <2>3. \/ Push(count + 1) /\ retained' = retained + 1
        \/ /\ Stop("undecodable")
           /\ UNCHANGED <<fixed, hdr, count, tracked, retained, output, tables, scan, result>>
    BY <1>9 DEF DecodeInline, DeferFilters, DeferTip, DeferSplit, Defer
  <2>4. CASE Push(count + 1) /\ retained' = retained + 1
    BY <2>1, <2>2, <2>4, OwnSamples DEF WorkInv
  <2>5. CASE /\ Stop("undecodable")
             /\ UNCHANGED <<fixed, hdr, count, tracked, retained, output, tables, scan, result>>
    <3>1. Kept' /\ ChargedFirst' /\ outcome' # "internal"
      BY <1>1, <2>5 DEF Kept, ChargedFirst, Stop, Ended, output, tables
    <3>2. tracked \subseteq 1 .. count /\ count \in Nat /\ tracked \subseteq Frames
      BY StoredIsFinite DEF StoreInv, TypeOK
    <3>3. \A f \in tracked : status'[f] = status[f]
      BY <2>2, <3>2
    <3>4. Sources'
      BY <2>1, <2>5, <3>2, <3>3 DEF StoreInv, Sources
    <3>5. QED
      BY <2>1, <2>5, <3>1, <3>4 DEF StoreInv, BytesAreThoseStored
  <2>6. QED
    BY <2>3, <2>4, <2>5
<1>10. CASE \E f \in Frames : Work(f)
  <2>1. UNCHANGED <<pc, store, output, tables, outcome>>
    BY <1>10 DEF Work, Settle, Leave
  <2>2. \A f \in Frames : status[f] = "ready" => status'[f] = "ready"
    BY <1>2, <1>10 DEF Work, Settle, Leave, WorkInv, WorkStages, WorkType
  <2>3. tracked \subseteq Frames
    BY StoredIsFinite DEF StoreInv
  <2>4. Sources'
    BY <2>1, <2>2, <2>3 DEF StoreInv, Sources, store
  <2>5. QED
    BY <1>1, <2>1, <2>4 DEF StoreInv, Kept, ChargedFirst, BytesAreThoseStored, store, output, tables
<1>11. CASE UNCHANGED vars
  BY <1>1, <1>11, SameStore DEF vars, store, works, output, tables, Kept, ChargedFirst
<1>12. QED
  BY <1>3, <1>4, <1>5, <1>6, <1>7, <1>8, <1>9, <1>10, <1>11 DEF Next, Loop

LEMMA StoreIsKept == Spec => [](TypeOK /\ Shape /\ WorkInv /\ StoreInv)
  BY InitType, TypeNext, InitWork, WorkNext, InitStore, StoreNext, PTL DEF Spec

(* The bytes counted are those of the frames stored, however often a       *)
(* show-existing frame shares them and in whatever order they are          *)
(* reclaimed (retained_frame_bytes).                                       *)
THEOREM BytesAreCounted == Spec => []BytesAreThoseStored
<1>1. TypeOK /\ Shape /\ WorkInv /\ StoreInv => BytesAreThoseStored
  BY DEF StoreInv
<1>2. QED
  BY <1>1, StoreIsKept, PTL

(* No frame is reclaimed that a reference, an output or the loop still     *)
(* needs, the byte count never underflows, and a read of a failed frame is *)
(* never what the caller hears of (reclaim_unowned_frames, drive_frames).  *)
THEOREM NothingNeededIsReclaimed == Spec => []NoInternalError
<1>1. TypeOK /\ Shape /\ WorkInv /\ StoreInv => NoInternalError
  <2> SUFFICES ASSUME TypeOK, Shape, WorkInv, StoreInv PROVE NoInternalError
    OBVIOUS
  <2>1. result # "failedSlot"
    <3> SUFFICES ASSUME result = "failedSlot" PROVE FALSE
      OBVIOUS
    <3>1. pc = "returned"
      BY DEF Shape
    <3>2. ring = <<>> /\ failure = 0 /\ outcome = "failedSlot"
      BY <3>1 DEF WorkInv, Reported
    <3>3. Failed # {} /\ Range(ring) = {}
      BY <3>2 DEF WorkInv, Reported, Range
    <3>4. QED
      BY <3>2, <3>3 DEF WorkInv, Collected, Failed
  <2>2. QED
    BY <2>1 DEF StoreInv, NoInternalError
<1>2. QED
  BY <1>1, StoreIsKept, PTL
=============================================================================
