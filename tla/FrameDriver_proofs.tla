------------------------- MODULE FrameDriver_proofs -------------------------
(***************************************************************************)
(* Proofs about the frame loop for every stream, number of slots, depth    *)
(* and limit.                                                              *)
(***************************************************************************)
EXTENDS FrameDriver, FiniteSetTheorems, SequenceTheorems, TLAPS

LEMMA Sizes ==
    /\ NumFrames \in Nat /\ NumSlots \in Nat \ {0} /\ MaxRef \in Nat
    /\ Depths \subseteq Nat \ {0} /\ Limits \subseteq Nat
    /\ Frames \subseteq Nat \ {0} /\ 0 \notin Frames /\ None \notin Frames
  BY SizeAssumption DEF Frames

(* A header the loop decodes: the fields and what the parser makes sure of *)
LEMMA HeaderFields ==
  ASSUME NEW h \in Headers \union {Key}
  PROVE  /\ h.kind \in Kinds /\ h.refresh \subseteq Slots /\ h.restart \in BOOLEAN
         /\ h.show \in {"immediate", "implicit", "hidden"}
         /\ h.kind = "sef" => h.refresh = {} /\ h.show = "immediate"
<1>1. CASE h \in Headers
  BY <1>1, HeadersAssumption
<1>2. CASE h = Key
  BY <1>2 DEF Key, Kinds
<1>3. QED
  BY <1>1, <1>2

(* The image of a finite set under a function is no larger.                *)
LEMMA ImageIsFinite ==
  ASSUME NEW S, IsFiniteSet(S), NEW g, g = [x \in S |-> g[x]]
  PROVE  /\ IsFiniteSet({g[x] : x \in S})
         /\ Cardinality({g[x] : x \in S}) <= Cardinality(S)
<1>1. g \in Surjection(S, {g[x] : x \in S})
  BY DEF Surjection
<1>2. QED
  BY <1>1, FS_Surjection

(* A slot table holds at most one frame a slot.                            *)
LEMMA ValuesAreFew ==
  ASSUME NEW table \in [Slots -> Frames \union {None}]
  PROVE  /\ Values(table) \subseteq Frames
         /\ IsFiniteSet(Values(table)) /\ Cardinality(Values(table)) <= NumSlots
<1>1. IsFiniteSet(Slots) /\ Cardinality(Slots) = NumSlots
  BY FS_Interval, Sizes DEF Slots
<1>2. table = [s \in Slots |-> table[s]]
  OBVIOUS
<1>3. /\ IsFiniteSet({table[s] : s \in Slots})
      /\ Cardinality({table[s] : s \in Slots}) <= NumSlots
  BY <1>1, <1>2, ImageIsFinite
<1>4. Values(table) \in SUBSET {table[s] : s \in Slots}
  BY DEF Values
<1>5. IsFiniteSet(Values(table)) /\ Cardinality(Values(table)) <= Cardinality({table[s] : s \in Slots})
  BY <1>3, <1>4, FS_Subset
<1>6. Cardinality(Values(table)) \in Nat /\ Cardinality({table[s] : s \in Slots}) \in Nat
  BY <1>3, <1>5, FS_CardinalityType
<1>7. QED
  BY <1>3, <1>5, <1>6, Sizes DEF Values

(* An order of a finite set is a sequence of its members without repeats.  *)
LEMMA OrdersAreSequences ==
  ASSUME NEW S, IsFiniteSet(S), NEW q \in Orders(S)
  PROVE  /\ q \in Seq(S) /\ Range(q) \subseteq S /\ DOMAIN q = 1 .. Len(q) /\ Len(q) \in Nat
         /\ \A i, j \in DOMAIN q : q[i] = q[j] => i = j
<1>1. Cardinality(S) \in Nat
  BY FS_CardinalityType
<1>2. PICK n \in 0 .. Cardinality(S) : q \in [1 .. n -> S]
  BY DEF Orders
<1>3. n \in Nat
  BY <1>1, <1>2
<1>4. q \in Seq(S)
  BY <1>2, <1>3, SeqDef
<1>5. QED
  BY <1>4 DEF Orders, Range

LEMMA PendingOrders ==
  ASSUME TypeOK, NEW f \in Frames, NEW q,
         q \in Orders(Values(pending)) \/ q \in Orders(Values(pending) \union {f})
  PROVE  /\ q \in Seq(Frames) /\ DOMAIN q = 1 .. Len(q) /\ Len(q) \in Nat
         /\ Range(q) \subseteq Values(pending) \union {f}
         /\ q \in Orders(Values(pending)) => Range(q) \subseteq Values(pending)
         /\ \A i, j \in DOMAIN q : q[i] = q[j] => i = j
<1>1. Values(pending) \subseteq Frames /\ IsFiniteSet(Values(pending))
  BY ValuesAreFew DEF TypeOK
<1>2. IsFiniteSet(Values(pending) \union {f})
  BY <1>1, FS_AddElement
<1>3. CASE q \in Orders(Values(pending))
  BY <1>1, <1>3, OrdersAreSequences, SeqMonotonic
<1>4. CASE q \in Orders(Values(pending) \union {f}) /\ q \notin Orders(Values(pending))
  BY <1>1, <1>2, <1>4, OrdersAreSequences, SeqMonotonic
<1>5. QED
  BY <1>3, <1>4

-----------------------------------------------------------------------------
(* Type correctness, with what the places of the loop say of the header,   *)
(* the frame number and the outcome.                                       *)

Decoding == {"prepared", "restart", "decode"}
Storing == {"refreshed", "shown"}
Ended == {"collect", "returned"}

Shape ==
    /\ pc \in Decoding \union Storing => hdr \in Headers \union {Key}
    /\ pc \in Decoding => count < NumFrames
    /\ pc = "refreshed" => count \in tracked
    /\ scan \subseteq tracked
    /\ pc \notin Ended => outcome = "running"
    /\ pc # "returned" => result = "running"
    /\ outcome # "frameFailed"

LoopType ==
    /\ pc \in Places /\ depth \in Depths /\ limit \in Limits
    /\ hdr \in Headers \union {Key, None}
    /\ scan \subseteq Frames /\ outcome \in Outcomes /\ result \in Outcomes

StoreType ==
    /\ count \in 0 .. NumFrames /\ tracked \subseteq 1 .. count
    /\ sample \in [Frames -> Frames] /\ retained \in Nat

WorkType ==
    /\ status \in [Frames -> {"none", "pending", "ready", "failed"}]
    /\ work \in [Frames -> {"none", "running", "settled", "reported", "gone", "jammed"}]
    /\ refs \in [Frames -> SUBSET Frames]
    /\ splits \in Seq(Frames) /\ Len(splits) <= depth
    /\ ring \in Seq(Frames) /\ Len(ring) <= depth
    /\ failure \in Frames \union {0}

OutputType ==
    /\ scheduled \in Seq(Frames) /\ newly \in Seq(Frames)
    /\ queue \in Seq(Frames) /\ delivered \in Seq(Frames)

TablesType ==
    /\ slot \in [Slots -> Frames \union {None}]
    /\ pending \in [Slots -> Frames \union {None}]

LEMMA TypeParts ==
    TypeOK <=> LoopType /\ StoreType /\ WorkType /\ OutputType /\ TablesType
  BY DEF TypeOK, LoopType, StoreType, WorkType, OutputType, TablesType

LEMMA InitType == Init => TypeOK /\ Shape
<1> SUFFICES ASSUME Init PROVE TypeOK /\ Shape
  OBVIOUS
<1> USE Sizes DEF Init
<1>1. LoopType
  BY DEF LoopType, Places, Outcomes
<1>2. StoreType /\ TablesType
  BY DEF StoreType, TablesType
<1>3. WorkType
  BY DEF WorkType
<1>4. OutputType
  BY DEF OutputType
<1>5. Shape
  BY DEF Shape, Decoding, Storing, Ended
<1>6. QED
  BY <1>1, <1>2, <1>3, <1>4, <1>5, TypeParts

(* What each action leaves alone.                                          *)
LEMMA WorksUnchanged ==
  ASSUME \/ Deliver \/ Queue \/ PastLimit \/ ReclaimEntry \/ LookForSpace \/ FullHarvested
         \/ FullFlushed \/ WaitForSpace \/ ReadHeader \/ EndOfStream \/ Prepared \/ Restarted
         \/ Undecodable \/ Refreshed \/ Shown \/ Reclaimed \/ Flushed \/ Return
  PROVE  UNCHANGED works
<1>1. CASE Deliver \/ Queue \/ PastLimit \/ ReclaimEntry \/ LookForSpace \/ FullHarvested
  BY <1>1 DEF Deliver, Queue, PastLimit, ReclaimEntry, LookForSpace, FullHarvested
<1>2. CASE FullFlushed \/ WaitForSpace \/ ReadHeader \/ EndOfStream \/ Prepared \/ Restarted
  BY <1>2 DEF FullFlushed, WaitForSpace, ReadHeader, EndOfStream, Prepared, Restarted
<1>3. CASE Undecodable \/ Refreshed \/ Shown \/ Reclaimed \/ Flushed \/ Return
  BY <1>3 DEF Undecodable, Refreshed, Shown, Reclaimed, Flushed, Return
<1>4. QED
  BY <1>1, <1>2, <1>3

LEMMA StoreUnchanged ==
  ASSUME \/ HarvestAll \/ HarvestForRoom \/ Deliver \/ Queue \/ PastLimit \/ LookForSpace
         \/ FullHarvested \/ FullFlushed \/ WaitForSpace \/ ReadHeader \/ EndOfStream \/ Prepared
         \/ Restarted \/ Undecodable \/ Refreshed \/ Shown \/ Reclaimed \/ Flushed \/ Return
         \/ \E f \in Frames : Work(f)
  PROVE  UNCHANGED store
<1>1. CASE HarvestAll \/ HarvestForRoom \/ Deliver \/ Queue \/ PastLimit \/ LookForSpace
  BY <1>1 DEF HarvestAll, HarvestForRoom, Deliver, Queue, PastLimit, LookForSpace
<1>2. CASE FullHarvested \/ FullFlushed \/ WaitForSpace \/ ReadHeader \/ EndOfStream \/ Prepared
  BY <1>2 DEF FullHarvested, FullFlushed, WaitForSpace, ReadHeader, EndOfStream, Prepared
<1>3. CASE Restarted \/ Undecodable \/ Refreshed \/ Shown \/ Reclaimed \/ Flushed \/ Return
  BY <1>3 DEF Restarted, Undecodable, Refreshed, Shown, Reclaimed, Flushed, Return
<1>4. CASE \E f \in Frames : Work(f)
  BY <1>4 DEF Work, Settle, Leave
<1>5. QED
  BY <1>1, <1>2, <1>3, <1>4

LEMMA OutputUnchanged ==
  ASSUME \/ HarvestAll \/ HarvestForRoom \/ ReclaimEntry \/ LookForSpace
         \/ FullHarvested \/ FullFlushed \/ WaitForSpace \/ Prepared
         \/ Restarted \/ Undecodable \/ Shown \/ Reclaimed \/ Flushed \/ Return
         \/ \E f \in Frames : Work(f)
  PROVE  UNCHANGED output
<1>1. CASE HarvestAll \/ HarvestForRoom \/ ReclaimEntry \/ LookForSpace
  BY <1>1 DEF HarvestAll, HarvestForRoom, ReclaimEntry, LookForSpace
<1>2. CASE FullHarvested \/ FullFlushed \/ WaitForSpace \/ Prepared
  BY <1>2 DEF FullHarvested, FullFlushed, WaitForSpace, Prepared
<1>3. CASE Restarted \/ Undecodable \/ Shown \/ Reclaimed \/ Flushed \/ Return
  BY <1>3 DEF Restarted, Undecodable, Shown, Reclaimed, Flushed, Return
<1>4. CASE \E f \in Frames : Work(f)
  BY <1>4 DEF Work, Settle, Leave
<1>5. QED
  BY <1>1, <1>2, <1>3, <1>4

LEMMA TablesUnchanged ==
  ASSUME \/ HarvestAll \/ HarvestForRoom \/ Deliver \/ Queue \/ PastLimit \/ ReclaimEntry
         \/ LookForSpace \/ FullHarvested \/ FullFlushed \/ WaitForSpace
         \/ Restarted \/ Undecodable \/ Shown \/ Reclaimed \/ Flushed \/ Return
         \/ \E f \in Frames : Work(f)
  PROVE  UNCHANGED tables
<1>1. CASE HarvestAll \/ HarvestForRoom \/ Deliver \/ Queue \/ PastLimit \/ ReclaimEntry
  BY <1>1 DEF HarvestAll, HarvestForRoom, Deliver, Queue, PastLimit, ReclaimEntry
<1>2. CASE LookForSpace \/ FullHarvested \/ FullFlushed \/ WaitForSpace
  BY <1>2 DEF LookForSpace, FullHarvested, FullFlushed, WaitForSpace
<1>3. CASE Restarted \/ Undecodable \/ Shown \/ Reclaimed \/ Flushed \/ Return
  BY <1>3 DEF Restarted, Undecodable, Shown, Reclaimed, Flushed, Return
<1>4. CASE \E f \in Frames : Work(f)
  BY <1>4 DEF Work, Settle, Leave
<1>5. QED
  BY <1>1, <1>2, <1>3, <1>4

(* What Push does to the types.                                            *)
LEMMA PushTypes ==
  ASSUME TypeOK, Shape, pc = "decode", Push(count + 1)
  PROVE  /\ count + 1 \in Frames /\ count' = count + 1
         /\ tracked' = tracked \union {count + 1} /\ tracked' \subseteq 1 .. count'
         /\ pc' = "refreshed" /\ UNCHANGED <<fixed, hdr, queue, delivered, result, outcome, scan>>
         /\ OutputType' /\ TablesType'
<1>1. hdr \in Headers \union {Key} /\ count < NumFrames
  BY DEF Shape, Decoding
<1>2. StoreType /\ OutputType /\ TablesType /\ LoopType
  BY TypeParts
<1>3. count + 1 \in Frames
  BY <1>1, <1>2, Sizes DEF StoreType, Frames
<1>4. tracked' = tracked \union {count + 1} /\ count' = count + 1 /\ pc' = "refreshed"
  BY DEF Push, Goto
<1>5. tracked' \subseteq 1 .. count'
  BY <1>2, <1>4, Sizes DEF StoreType
<1>6. UNCHANGED <<fixed, hdr, queue, delivered, result, outcome, scan>>
  BY DEF Push, Goto
<1>7. PICK frames :
        /\ frames \in Orders(Values(pending)) \/ frames \in Orders(Values(pending) \union {count + 1})
        /\ Schedule(frames)
        /\ \A s \in Slots : pending'[s] \in {pending[s], count + 1, None}
        /\ DOMAIN pending' = Slots /\ pending' = [s \in Slots |-> pending'[s]]
  BY DEF Push
<1>8. frames \in Seq(Frames)
  BY <1>3, <1>7, PendingOrders
<1>9. OutputType'
  BY <1>2, <1>6, <1>7, <1>8, ConcatProperties DEF OutputType, Schedule
<1>10. TablesType'
  <2>1. pending' \in [Slots -> Frames \union {None}]
    BY <1>2, <1>3, <1>7 DEF TablesType
  <2>2. slot' \in [Slots -> Frames \union {None}]
    BY <1>2, <1>3 DEF TablesType, Push
  <2>3. QED
    BY <2>1, <2>2 DEF TablesType
<1>11. QED
  BY <1>3, <1>4, <1>5, <1>6, <1>9, <1>10

(* Harvesting shortens the ring.                                           *)
LEMMA HarvestTypes ==
  ASSUME WorkType, depth \in Nat, depth' = depth, Harvest
  PROVE  WorkType'
<1>1. ring # <<>> /\ ring' = Tail(ring) /\ UNCHANGED <<status, work, refs, splits>>
  BY DEF Harvest
<1>2. ring' \in Seq(Frames) /\ Len(ring') = Len(ring) - 1 /\ Head(ring) \in Frames /\ Len(ring) \in Nat
  BY <1>1, HeadTailProperties DEF WorkType
<1>3. failure' \in Frames \union {0}
  BY <1>2 DEF Harvest, WorkType
<1>4. QED
  BY <1>1, <1>2, <1>3 DEF WorkType

(* A deferred frame: its work, and the frame stored or not.                *)
LEMMA DeferTypes ==
  ASSUME TypeOK, Shape, HasRoom, NEW handles \in SUBSET Frames, Defer(count + 1, handles),
         splits' \in Seq(Frames), Len(splits') <= depth
  PROVE  TypeOK' /\ Shape'
<1>1. hdr \in Headers \union {Key} /\ count < NumFrames /\ outcome = "running" /\ result = "running"
      /\ pc = "decode" /\ Len(ring) < depth
  BY DEF Shape, Decoding, HasRoom, Ended
<1>2. LoopType /\ StoreType /\ WorkType /\ OutputType /\ TablesType
  BY TypeParts
<1>3. count + 1 \in Frames
  BY <1>1, <1>2, Sizes DEF StoreType, Frames
<1>4. depth \in Nat
  BY <1>2, Sizes DEF LoopType
<1>5. /\ status' = [status EXCEPT ![count + 1] = "pending"]
      /\ work' = [work EXCEPT ![count + 1] = "running"]
      /\ refs' = [refs EXCEPT ![count + 1] = handles]
      /\ ring' = Append(ring, count + 1)
      /\ UNCHANGED <<sample, failure>>
  BY DEF Defer
<1>6. ring' \in Seq(Frames) /\ Len(ring') <= depth
  BY <1>1, <1>2, <1>3, <1>4, <1>5, AppendProperties DEF WorkType
<1>7. CASE Push(count + 1) /\ retained' = retained + 1
  <2>1. /\ count' = count + 1 /\ tracked' = tracked \union {count + 1}
        /\ tracked' \subseteq 1 .. count' /\ pc' = "refreshed"
        /\ UNCHANGED <<fixed, hdr, queue, delivered, result, outcome, scan>>
        /\ OutputType' /\ TablesType'
    BY <1>1, <1>7, PushTypes
  <2>2. LoopType'
    BY <1>2, <2>1 DEF LoopType, Places, fixed
  <2>3. StoreType'
    BY <1>2, <1>3, <1>5, <1>7, <2>1 DEF StoreType, Frames
  <2>4. WorkType'
    BY <1>2, <1>3, <1>5, <1>6, <2>1 DEF WorkType, fixed
  <2>5. Shape'
    BY <1>1, <2>1 DEF Shape, Decoding, Storing, Ended
  <2>6. QED
    BY <2>1, <2>2, <2>3, <2>4, <2>5 DEF TypeOK, LoopType, StoreType, WorkType, OutputType, TablesType
<1>8. CASE /\ Stop("undecodable")
           /\ UNCHANGED <<fixed, hdr, count, tracked, retained, output, tables, scan, result>>
  <2>1. LoopType'
    BY <1>2, <1>8 DEF LoopType, Places, Outcomes, fixed, Stop
  <2>2. StoreType' /\ OutputType' /\ TablesType'
    BY <1>2, <1>5, <1>8 DEF StoreType, OutputType, TablesType, output, tables
  <2>3. WorkType'
    BY <1>2, <1>3, <1>5, <1>6, <1>8 DEF WorkType, fixed
  <2>4. Shape'
    BY <1>1, <1>8 DEF Shape, Decoding, Storing, Ended, Stop
  <2>5. QED
    BY <2>1, <2>2, <2>3, <2>4 DEF TypeOK, LoopType, StoreType, WorkType, OutputType, TablesType
<1>9. QED
  BY <1>7, <1>8 DEF Defer

LEMMA TypeNext == TypeOK /\ Shape /\ [Next]_vars => TypeOK' /\ Shape'
<1> SUFFICES ASSUME TypeOK, Shape, [Next]_vars PROVE TypeOK' /\ Shape'
  OBVIOUS
<1>1. LoopType /\ StoreType /\ WorkType /\ OutputType /\ TablesType
  BY TypeParts
<1>2. depth \in Nat /\ count \in Nat
  BY <1>1, Sizes DEF LoopType, StoreType
<1>3. /\ tracked \subseteq Frames
      /\ pc \notin Ended => outcome = "running" /\ result = "running"
  BY <1>1, <1>2, Sizes DEF StoreType, Shape, Ended, Frames
<1>4. CASE HarvestAll \/ HarvestForRoom
  <2>1. UNCHANGED <<pc, fixed, hdr, store, output, tables, scan, outcome, result>> /\ Harvest
    BY <1>4 DEF HarvestAll, HarvestForRoom
  <2>2. WorkType'
    BY <1>1, <1>2, <2>1, HarvestTypes DEF fixed
  <2>3. LoopType' /\ StoreType' /\ OutputType' /\ TablesType'
    BY <1>1, <2>1 DEF LoopType, StoreType, OutputType, TablesType, fixed, store, output, tables
  <2>4. Shape'
    BY <2>1 DEF Shape, store
  <2>5. QED
    BY <2>2, <2>3, <2>4 DEF TypeOK, LoopType, StoreType, WorkType, OutputType, TablesType
<1>5. CASE Deliver \/ Queue \/ PastLimit
  <2>1. UNCHANGED <<fixed, hdr, store, works, tables, scan, result>>
    BY <1>5 DEF Deliver, Queue, PastLimit
  <2>2. OutputType'
    <3>1. CASE Deliver
      <4>1. UNCHANGED output \/ (/\ queue # <<>> /\ delivered' = Append(delivered, Head(queue))
                                 /\ queue' = Tail(queue) /\ UNCHANGED <<scheduled, newly>>)
        BY <3>1 DEF Deliver
      <4>2. CASE UNCHANGED output
        BY <1>1, <4>2 DEF OutputType, output
      <4>3. CASE queue # <<>>
        <5>1. Head(queue) \in Frames /\ Tail(queue) \in Seq(Frames)
          BY <1>1, <4>3, HeadTailProperties DEF OutputType
        <5>2. Append(delivered, Head(queue)) \in Seq(Frames)
          BY <1>1, <5>1, AppendProperties DEF OutputType
        <5>3. QED
          BY <1>1, <4>1, <5>1, <5>2 DEF OutputType, output
      <4>4. QED
        BY <4>1, <4>2, <4>3
    <3>2. CASE Queue
      <4>1. /\ newly # <<>> /\ UNCHANGED <<scheduled, delivered>>
            /\ UNCHANGED <<newly, queue>>
               \/ (queue' = Append(queue, Head(newly)) /\ newly' = Tail(newly))
        BY <3>2 DEF Queue
      <4>2. Head(newly) \in Frames /\ Tail(newly) \in Seq(Frames)
        BY <1>1, <4>1, HeadTailProperties DEF OutputType
      <4>3. Append(queue, Head(newly)) \in Seq(Frames)
        BY <1>1, <4>2, AppendProperties DEF OutputType
      <4>4. QED
        BY <1>1, <4>1, <4>2, <4>3 DEF OutputType
    <3>3. CASE PastLimit
      BY <1>1, <3>3 DEF OutputType, PastLimit
    <3>4. QED
      BY <1>5, <3>1, <3>2, <3>3
  <2>3. \/ UNCHANGED <<pc, outcome>>
        \/ pc' = "collect" /\ outcome' \in {"internal", "failedSlot", "refused"}
    BY <1>5 DEF Deliver, Queue, PastLimit, Stop
  <2>4. pc \notin Ended
    BY <1>5 DEF Deliver, Queue, PastLimit, Charging, Flushing, Ended
  <2>5. LoopType'
    BY <1>1, <2>1, <2>3 DEF LoopType, fixed, Places, Outcomes
  <2>6. StoreType' /\ WorkType' /\ TablesType'
    BY <1>1, <2>1 DEF StoreType, WorkType, TablesType, fixed, store, works, tables
  <2>7. Shape'
    BY <1>3, <2>1, <2>3, <2>4 DEF Shape, store, Ended, Decoding, Storing
  <2>8. QED
    BY <2>2, <2>5, <2>6, <2>7 DEF TypeOK, LoopType, StoreType, WorkType, OutputType, TablesType
<1>6. CASE ReclaimEntry
  <2>1. UNCHANGED <<fixed, hdr, count, sample, works, output, tables, result>>
    BY <1>6 DEF ReclaimEntry
  <2>2. PICK f \in scan :
            /\ scan' = scan \ {f}
            /\ \/ UNCHANGED <<pc, outcome, tracked, retained>>
               \/ Stop("internal") /\ UNCHANGED <<tracked, retained>>
               \/ /\ tracked' = tracked \ {f}
                  /\ \E bytes \in {0, 1} : retained >= bytes /\ retained' = retained - bytes
                  /\ UNCHANGED <<pc, outcome>>
    <3>1. PICK f \in scan :
            /\ scan' = scan \ {f}
            /\ IF ~Reclaimable(f)
               THEN UNCHANGED <<pc, outcome, tracked, retained>>
               ELSE LET bytes == IF Shares(f) THEN 0 ELSE 1
                    IN  IF retained < bytes
                        THEN Stop("internal") /\ UNCHANGED <<tracked, retained>>
                        ELSE /\ tracked' = tracked \ {f}
                             /\ retained' = retained - bytes
                             /\ UNCHANGED <<pc, outcome>>
      BY <1>6 DEF ReclaimEntry
    <3> DEFINE bytes == IF Shares(f) THEN 0 ELSE 1
    <3>2. bytes \in {0, 1} /\ retained \in Nat
      BY <1>1 DEF StoreType
    <3>3. CASE Reclaimable(f) /\ ~(retained < bytes)
      <4>1. /\ tracked' = tracked \ {f} /\ retained' = retained - bytes /\ UNCHANGED <<pc, outcome>>
        BY <3>1, <3>3
      <4>2. retained >= bytes
        BY <3>2, <3>3
      <4>3. \E b \in {0, 1} : retained >= b /\ retained' = retained - b
        BY <3>2, <4>1, <4>2
      <4>4. QED
        BY <3>1, <4>1, <4>3
    <3>4. CASE ~(Reclaimable(f) /\ ~(retained < bytes))
      BY <3>1, <3>4
    <3>5. QED
      BY <3>3, <3>4
  <2>3. pc \in {"restart", "reclaim", "wait", "endReclaim"}
    BY <1>6 DEF ReclaimEntry
  <2>4. LoopType'
    BY <1>1, <2>1, <2>2 DEF LoopType, fixed, Places, Outcomes, Stop
  <2>5. StoreType'
    <3>1. retained' \in Nat
      BY <1>1, <2>2 DEF StoreType
    <3>2. tracked' \subseteq 1 .. count'
      BY <1>1, <2>1, <2>2 DEF StoreType
    <3>3. QED
      BY <1>1, <2>1, <3>1, <3>2 DEF StoreType
  <2>6. WorkType' /\ OutputType' /\ TablesType'
    BY <1>1, <2>1 DEF WorkType, OutputType, TablesType, fixed, works, output, tables
  <2>7. Shape'
    BY <2>1, <2>2, <2>3 DEF Shape, Ended, Decoding, Storing, Stop
  <2>8. QED
    BY <2>4, <2>5, <2>6, <2>7 DEF TypeOK, LoopType, StoreType, WorkType, OutputType, TablesType
<1>7. CASE \/ LookForSpace \/ FullHarvested \/ FullFlushed \/ WaitForSpace \/ Restarted
           \/ Undecodable \/ Shown \/ Reclaimed \/ Flushed \/ Return
  <2>1. UNCHANGED <<fixed, store, works, output, tables>>
    BY <1>7 DEF LookForSpace, FullHarvested, FullFlushed, WaitForSpace, Restarted,
                Undecodable, Shown, Reclaimed, Flushed, Return
  <2>2. StoreType' /\ WorkType' /\ OutputType' /\ TablesType'
    BY <1>1, <2>1 DEF StoreType, WorkType, OutputType, TablesType, fixed, store, works, output, tables
  <2>3. LoopType' /\ Shape'
    <3> USE <1>1, <1>3, <2>1 DEF LoopType, Shape, fixed, store, Places, Outcomes, Ended,
                                 Decoding, Storing, Goto, Reclaim, Stop
    <3>1. CASE LookForSpace \/ FullHarvested \/ FullFlushed \/ WaitForSpace
      BY <3>1 DEF LookForSpace, FullHarvested, FullFlushed, WaitForSpace
    <3>2. CASE Restarted
      BY <3>2 DEF Restarted, Continue
    <3>3. CASE Undecodable \/ Shown \/ Reclaimed
      BY <3>3 DEF Undecodable, HasRoom, Shown, Charged, Reclaimed
    <3>4. CASE Flushed
      BY <3>4 DEF Flushed, Charged
    <3>5. CASE Return
      BY <3>5 DEF Return
    <3>6. QED
      BY <1>7, <3>1, <3>2, <3>3, <3>4, <3>5
  <2>4. QED
    BY <2>2, <2>3 DEF TypeOK, LoopType, StoreType, WorkType, OutputType, TablesType
<1>8. CASE ReadHeader \/ EndOfStream \/ Refreshed
  <2>1. UNCHANGED <<fixed, store, works, queue, delivered, slot, result>>
    BY <1>8 DEF ReadHeader, EndOfStream, Refreshed
  <2>2. OutputType' /\ TablesType'
    <3>1. \/ UNCHANGED <<scheduled, newly, pending>>
          \/ /\ \E frames \in Seq(Frames) : Schedule(frames)
             /\ pending' \in [Slots -> Frames \union {None}]
      <4>1. CASE ReadHeader
        <5>1. PICK flushed \in Orders(Values(pending)) :
                /\ Schedule(flushed)
                /\ pending' = [s \in Slots |->
                                  IF pending[s] \in Range(flushed) THEN None ELSE pending[s]]
          BY <4>1 DEF ReadHeader
        <5>2. flushed \in Seq(Frames)
          BY <1>1, <5>1, ValuesAreFew, OrdersAreSequences, SeqMonotonic DEF TablesType
        <5>3. QED
          BY <1>1, <5>1, <5>2 DEF TablesType
      <4>2. CASE EndOfStream
        <5>1. CASE UNCHANGED <<scheduled, newly, pending>>
          BY <5>1
        <5>2. CASE \E flushed \in Orders(Values(pending)) :
                      Schedule(flushed) /\ pending' = [s \in Slots |-> None]
          <6>1. PICK flushed \in Orders(Values(pending)) :
                  Schedule(flushed) /\ pending' = [s \in Slots |-> None]
            BY <5>2
          <6>2. flushed \in Seq(Frames)
            BY <1>1, <6>1, ValuesAreFew, OrdersAreSequences, SeqMonotonic DEF TablesType
          <6>3. QED
            BY <6>1, <6>2
        <5>3. QED
          BY <4>2, <5>1, <5>2 DEF EndOfStream
      <4>3. CASE Refreshed /\ hdr.show = "immediate"
        <5>1. PICK before \in Orders(Values(pending)), behind \in Orders(Values(pending)) :
                /\ Schedule(before \o <<count>> \o behind)
                /\ pending' = [s \in Slots |-> IF pending[s] \in Range(before) \union Range(behind)
                                               THEN None ELSE pending[s]]
          BY <4>3 DEF Refreshed
        <5>2. before \in Seq(Frames) /\ behind \in Seq(Frames)
          BY <1>1, <5>1, ValuesAreFew, OrdersAreSequences, SeqMonotonic DEF TablesType
        <5>3. count \in Frames
          BY <1>3, <4>3 DEF Refreshed, Charged, Shape
        <5>4. <<count>> \in Seq(Frames)
          BY <5>3
        <5>5. before \o <<count>> \o behind \in Seq(Frames)
          BY <5>2, <5>4, ConcatProperties
        <5>6. QED
          BY <1>1, <5>1, <5>5 DEF TablesType
      <4>4. CASE Refreshed /\ hdr.show # "immediate"
        BY <4>4 DEF Refreshed
      <4>5. QED
        BY <1>8, <4>1, <4>2, <4>3, <4>4
    <3>2. OutputType'
      BY <1>1, <2>1, <3>1, ConcatProperties DEF OutputType, Schedule
    <3>3. TablesType'
      BY <1>1, <2>1, <3>1 DEF TablesType
    <3>4. QED
      BY <3>2, <3>3
  <2>3. StoreType' /\ WorkType'
    BY <1>1, <2>1 DEF StoreType, WorkType, fixed, store, works
  <2>4. LoopType' /\ Shape'
    <3> USE <1>1, <1>3, <2>1 DEF LoopType, Shape, fixed, store, Places, Outcomes, Ended,
                                 Decoding, Storing, Goto, Reclaim, Stop
    <3>1. CASE ReadHeader
      BY <3>1 DEF ReadHeader
    <3>2. CASE EndOfStream
      BY <3>2 DEF EndOfStream
    <3>3. CASE Refreshed
      BY <3>3 DEF Refreshed, Charged
    <3>4. QED
      BY <1>8, <3>1, <3>2, <3>3
  <2>5. QED
    BY <2>2, <2>3, <2>4 DEF TypeOK, LoopType, StoreType, WorkType, OutputType, TablesType
<1>9. CASE Prepared
  <2>1. UNCHANGED <<fixed, hdr, store, works, output, pending, result>>
    BY <1>9 DEF Prepared
  <2>2. StoreType' /\ WorkType' /\ OutputType'
    BY <1>1, <2>1 DEF StoreType, WorkType, OutputType, fixed, store, works, output
  <2>3. TablesType'
    BY <1>1, <1>9, <2>1 DEF TablesType, Prepared
  <2>4. LoopType' /\ Shape'
    BY <1>1, <1>3, <1>9, <2>1 DEF LoopType, Shape, fixed, store, Places, Outcomes, Ended,
        Decoding, Storing, Goto, Reclaim, Stop, Prepared, Charged, Continue
  <2>5. QED
    BY <2>2, <2>3, <2>4 DEF TypeOK, LoopType, StoreType, WorkType, OutputType, TablesType
<1>10. CASE ShowExisting
  <2>1. pc = "decode" /\ hdr.kind = "sef" /\ UNCHANGED <<work, refs, splits, ring, failure>>
    BY <1>10 DEF ShowExisting
  <2>2. PICK source \in Values(slot) :
            \/ /\ Stop("failedSlot")
               /\ UNCHANGED <<fixed, hdr, store, status, output, tables, scan, result>>
            \/ /\ Push(count + 1) /\ Ready(count + 1)
               /\ sample' = [sample EXCEPT ![count + 1] = sample[source]]
               /\ UNCHANGED retained
    BY <1>10 DEF ShowExisting
  <2>3. source \in Frames
    BY <1>1, ValuesAreFew DEF TablesType
  <2>4. CASE /\ Stop("failedSlot")
             /\ UNCHANGED <<fixed, hdr, store, status, output, tables, scan, result>>
    <3>1. StoreType' /\ WorkType' /\ OutputType' /\ TablesType'
      BY <1>1, <2>1, <2>4 DEF StoreType, WorkType, OutputType, TablesType, fixed, store, output, tables
    <3>2. LoopType' /\ Shape'
      BY <1>1, <1>3, <2>1, <2>4 DEF LoopType, Shape, fixed, store, Places, Outcomes, Ended,
        Decoding, Storing, Stop
    <3>3. QED
      BY <3>1, <3>2 DEF TypeOK, LoopType, StoreType, WorkType, OutputType, TablesType
  <2>5. CASE /\ Push(count + 1) /\ Ready(count + 1)
             /\ sample' = [sample EXCEPT ![count + 1] = sample[source]]
             /\ UNCHANGED retained
    <3>1. /\ count + 1 \in Frames /\ count' = count + 1
          /\ tracked' = tracked \union {count + 1} /\ tracked' \subseteq 1 .. count'
          /\ pc' = "refreshed" /\ UNCHANGED <<fixed, hdr, queue, delivered, result, outcome, scan>>
          /\ OutputType' /\ TablesType'
      BY <2>1, <2>5, PushTypes
    <3>2. StoreType'
      BY <1>1, <2>3, <2>5, <3>1 DEF StoreType, Frames
    <3>3. WorkType'
      BY <1>1, <2>1, <2>5, <3>1 DEF WorkType, Ready, fixed
    <3>4. LoopType' /\ Shape'
      BY <1>1, <1>3, <2>1, <3>1 DEF LoopType, Shape, fixed, Places, Outcomes, Ended, Decoding, Storing
    <3>5. QED
      BY <3>1, <3>2, <3>3, <3>4 DEF TypeOK, LoopType, StoreType, WorkType, OutputType, TablesType
  <2>6. QED
    BY <2>2, <2>4, <2>5
<1>11. CASE DecodeInline
  <2>1. /\ pc = "decode" /\ Push(count + 1) /\ Ready(count + 1) /\ retained' = retained + 1
        /\ UNCHANGED <<sample, work, refs, splits, ring, failure>>
    BY <1>11 DEF DecodeInline, HasRoom
  <2>2. /\ count + 1 \in Frames /\ count' = count + 1
        /\ tracked' = tracked \union {count + 1} /\ tracked' \subseteq 1 .. count'
        /\ pc' = "refreshed" /\ UNCHANGED <<fixed, hdr, queue, delivered, result, outcome, scan>>
        /\ OutputType' /\ TablesType'
    BY <2>1, PushTypes
  <2>3. StoreType'
    BY <1>1, <2>1, <2>2 DEF StoreType, Frames
  <2>4. WorkType'
    BY <1>1, <2>1, <2>2 DEF WorkType, Ready, fixed
  <2>5. LoopType' /\ Shape'
    BY <1>1, <1>3, <2>1, <2>2 DEF LoopType, Shape, fixed, Places, Outcomes, Ended, Decoding, Storing
  <2>6. QED
    BY <2>2, <2>3, <2>4, <2>5 DEF TypeOK, LoopType, StoreType, WorkType, OutputType, TablesType
<1>12. CASE DeferFilters \/ DeferTip
  <2>1. splits' \in Seq(Frames) /\ Len(splits') <= depth /\ HasRoom
    BY <1>1, <1>12 DEF DeferFilters, DeferTip, WorkType
  <2>2. Defer(count + 1, {}) \/ Defer(count + 1, Values(slot))
    BY <1>12 DEF DeferFilters, DeferTip
  <2>3. Values(slot) \in SUBSET Frames
    BY <1>1, ValuesAreFew DEF TablesType
  <2>4. QED
    BY <2>1, <2>2, <2>3, DeferTypes
<1>13. CASE DeferSplit
  <2>1. HasRoom /\ Defer(count + 1, Values(slot))
    BY <1>13 DEF DeferSplit
  <2>2. Values(slot) \in SUBSET Frames
    BY <1>1, ValuesAreFew DEF TablesType
  <2>3. count + 1 \in Frames
    BY <1>1, <2>1, Sizes DEF StoreType, Frames, Shape, HasRoom, Decoding
  <2>4. splits' \in Seq(Frames) /\ Len(splits') <= depth
    <3>1. splits \in Seq(Frames) /\ Len(splits) <= depth /\ Len(splits) \in Nat
      BY <1>1, LenProperties DEF WorkType
    <3>2. CASE Len(splits) < depth
      <4>1. splits' = Append(splits, count + 1)
        BY <1>13, <3>2 DEF DeferSplit
      <4>2. QED
        BY <1>2, <2>3, <3>1, <3>2, <4>1, AppendProperties
    <3>3. CASE ~(Len(splits) < depth)
      <4>1. splits' = Append(Tail(splits), count + 1) /\ splits # <<>>
        BY <1>1, <1>2, <1>13, <3>1, <3>3, Sizes DEF DeferSplit, LoopType
      <4>2. Tail(splits) \in Seq(Frames) /\ Len(Tail(splits)) = Len(splits) - 1
        BY <3>1, <4>1, HeadTailProperties
      <4>3. QED
        BY <1>2, <2>3, <3>1, <4>1, <4>2, AppendProperties
    <3>4. QED
      BY <3>2, <3>3
  <2>5. QED
    BY <2>1, <2>2, <2>4, DeferTypes
<1>14. CASE \E f \in Frames : Work(f)
  <2>1. UNCHANGED <<pc, fixed, hdr, store, refs, splits, ring, failure, output, tables, scan,
                    outcome, result>>
    BY <1>14 DEF Work, Settle, Leave
  <2>2. LoopType' /\ StoreType' /\ OutputType' /\ TablesType' /\ Shape'
    BY <1>1, <2>1 DEF LoopType, StoreType, OutputType, TablesType, Shape, fixed, store, output, tables
  <2>3. \E f \in Frames :
          /\ \E w \in {"settled", "reported", "gone", "jammed"} : work' = [work EXCEPT ![f] = w]
          /\ \E w \in {"ready", "failed", status[f]} : status' = [status EXCEPT ![f] = w]
    BY <1>1, <1>14 DEF WorkType, Work, Settle, Leave
  <2>4. WorkType'
    BY <1>1, <2>1, <2>3 DEF WorkType, fixed
  <2>5. QED
    BY <2>2, <2>4 DEF TypeOK, LoopType, StoreType, WorkType, OutputType, TablesType
<1>15. CASE UNCHANGED vars
  <2>1. LoopType' /\ StoreType' /\ WorkType' /\ OutputType' /\ TablesType' /\ Shape'
    BY <1>1, <1>15 DEF LoopType, StoreType, WorkType, OutputType, TablesType, Shape, vars, fixed,
        store, works, output, tables
  <2>2. QED
    BY <2>1 DEF TypeOK, LoopType, StoreType, WorkType, OutputType, TablesType
<1>16. QED
  BY <1>4, <1>5, <1>6, <1>7, <1>8, <1>9, <1>10, <1>11, <1>12, <1>13, <1>14, <1>15 DEF Next, Loop

(* Every variable keeps its type, whatever the stream, depth and limit.    *)
THEOREM DriverTypeCorrect == Spec => []TypeOK
<1>1. Spec => [](TypeOK /\ Shape)
  BY InitType, TypeNext, PTL DEF Spec
<1>2. QED
  BY <1>1, PTL

-----------------------------------------------------------------------------
(* Failures.  A failed frame is in the ring until its error is harvested,  *)
(* and the harvested error of the lowest frame is kept.                    *)

Fresh == pc \notin Ended =>
    \A f \in Frames : f > count =>
        status[f] = "none" /\ work[f] = "none" /\ sample[f] = f /\ refs[f] = {}

WorkStages == \A f \in Frames :
    /\ work[f] = "running" => status[f] = "pending"
    /\ work[f] \in {"settled", "reported", "gone", "jammed"} => Settled(f)
    /\ work[f] = "none" => status[f] \in {"none", "ready"}

Collected == \A f \in Frames :
    /\ work[f] \in {"running", "settled"} => f \in Range(ring)
    /\ status[f] = "failed" => f \in Range(ring) \/ (failure # 0 /\ failure <= f)

Reported ==
    /\ failure # 0 => status[failure] = "failed"
    /\ outcome = "failedSlot" => Failed # {}
    /\ pc = "returned" =>
        /\ ring = <<>> /\ \A f \in Frames : work[f] = "none" \/ f \in Over
        /\ result = IF failure # 0 THEN "frameFailed" ELSE outcome

WorkInv == Fresh /\ WorkStages /\ Collected /\ Reported

LEMMA InitWork == Init => WorkInv
  BY Sizes DEF Init, WorkInv, Fresh, WorkStages, Collected, Reported, Settled, Range

(* The members of a sequence are its head and those of its tail.           *)
LEMMA HeadAndTail ==
  ASSUME NEW S, NEW s \in Seq(S), s # <<>>
  PROVE  /\ Range(s) = Range(Tail(s)) \union {Head(s)} /\ Head(s) \in Range(s)
         /\ Range(Tail(s)) \subseteq S /\ Range(s) \subseteq S
<1>1. /\ Tail(s) \in Seq(S) /\ Len(Tail(s)) = Len(s) - 1 /\ Len(s) \in Nat \ {0}
      /\ Head(s) = s[1] /\ \A i \in 1 .. Len(Tail(s)) : Tail(s)[i] = s[i + 1]
  BY HeadTailProperties, EmptySeq
<1>2. DOMAIN s = 1 .. Len(s) /\ DOMAIN Tail(s) = 1 .. Len(Tail(s))
  BY <1>1, LenProperties
<1>3. \A i \in 1 .. Len(s) : i = 1 \/ (i - 1 \in 1 .. Len(Tail(s)) /\ s[i] = Tail(s)[i - 1])
  BY <1>1
<1>4. \A i \in 1 .. Len(Tail(s)) : i + 1 \in 1 .. Len(s)
  BY <1>1
<1>5. Range(s) = {s[i] : i \in 1 .. Len(s)} /\ Range(Tail(s)) = {Tail(s)[i] : i \in 1 .. Len(Tail(s))}
  BY <1>2 DEF Range
<1>6. 1 \in 1 .. Len(s)
  BY <1>1
<1>7. \A x \in Range(s) : x \in Range(Tail(s)) \union {Head(s)}
  BY <1>1, <1>3, <1>5
<1>8. Head(s) \in Range(s) /\ \A x \in Range(Tail(s)) : x \in Range(s)
  BY <1>1, <1>4, <1>5, <1>6
<1>9. Range(s) \subseteq S
  BY <1>2, <1>5, ElementOfSeq
<1>10. QED
  BY <1>7, <1>8, <1>9

LEMMA AppendRange ==
  ASSUME NEW S, NEW s \in Seq(S), NEW e \in S
  PROVE  Range(Append(s, e)) = Range(s) \union {e}
<1>1. /\ Append(s, e) \in Seq(S) /\ Len(Append(s, e)) = Len(s) + 1 /\ Len(s) \in Nat
      /\ \A i \in 1 .. Len(s) : Append(s, e)[i] = s[i]
      /\ Append(s, e)[Len(s) + 1] = e
  BY AppendProperties, LenProperties
<1>2. DOMAIN s = 1 .. Len(s) /\ DOMAIN Append(s, e) = 1 .. Len(s) + 1
  BY <1>1, LenProperties
<1>3. \A i \in 1 .. Len(s) + 1 : i \in 1 .. Len(s) \/ i = Len(s) + 1
  BY <1>1
<1>4. QED
  BY <1>1, <1>2, <1>3 DEF Range

LEMMA WorkNext == TypeOK /\ Shape /\ WorkInv /\ [Next]_vars => WorkInv'
<1> SUFFICES ASSUME TypeOK, Shape, WorkInv, [Next]_vars PROVE WorkInv'
  OBVIOUS
<1>1. LoopType /\ StoreType /\ WorkType /\ OutputType /\ TablesType
  BY TypeParts
<1>2. /\ pc \notin Ended => outcome = "running" /\ result = "running"
      /\ count \in Nat
  BY <1>1, Sizes DEF Shape, Ended, StoreType
<1>3. Fresh /\ WorkStages /\ Collected /\ Reported
  BY DEF WorkInv
<1>4. CASE HarvestAll \/ HarvestForRoom
  <2>1. UNCHANGED <<pc, hdr, count, sample, outcome, result, status, work, refs>>
    BY <1>4 DEF HarvestAll, HarvestForRoom, Harvest, store
  <2>2. /\ ring # <<>> /\ ring' = Tail(ring) /\ work[Head(ring)] \in {"reported", "gone", "jammed"}
        /\ failure' = IF status[Head(ring)] = "failed" /\ (failure = 0 \/ Head(ring) < failure)
                      THEN Head(ring) ELSE failure
    BY <1>4 DEF HarvestAll, HarvestForRoom, Harvest, Over
  <2>3. Head(ring) \in Frames /\ Range(ring) = Range(ring') \union {Head(ring)}
    BY <1>1, <2>2, HeadAndTail DEF WorkType
  <2>4. pc # "returned"
    BY <1>4 DEF HarvestAll, HarvestForRoom
  <2>5. Collected'
    <3> SUFFICES ASSUME NEW f \in Frames
                 PROVE  /\ work[f] \in {"running", "settled"} => f \in Range(ring')
                        /\ status[f] = "failed" => f \in Range(ring') \/ (failure' # 0 /\ failure' <= f)
      BY <2>1 DEF Collected
    <3>1. f \in Nat /\ Head(ring) \in Nat \ {0} /\ failure \in Nat
      <4>1. failure \in Frames \union {0}
        BY <1>1 DEF WorkType
      <4>2. \A x \in Frames \union {0} : x \in Nat /\ (x \in Frames => x # 0)
        BY Sizes
      <4>3. QED
        BY <2>3, <4>1, <4>2
    <3>2. CASE f = Head(ring)
      BY <1>3, <2>2, <3>1, <3>2 DEF Collected
    <3>3. CASE f # Head(ring)
      BY <1>3, <2>2, <2>3, <3>1, <3>3 DEF Collected
    <3>4. QED
      BY <3>2, <3>3
  <2>6. Fresh' /\ WorkStages'
    BY <1>3, <2>1 DEF Fresh, WorkStages, Settled
  <2>7. Reported'
    BY <1>3, <2>1, <2>2, <2>4 DEF Reported, Failed
  <2>8. QED
    BY <2>5, <2>6, <2>7 DEF WorkInv
<1>5. CASE \/ Deliver \/ Queue \/ PastLimit \/ ReclaimEntry \/ LookForSpace \/ FullHarvested
           \/ FullFlushed \/ WaitForSpace \/ ReadHeader \/ EndOfStream \/ Prepared \/ Restarted
           \/ Undecodable \/ Refreshed \/ Shown \/ Reclaimed \/ Flushed \/ Return
  <2>1. UNCHANGED works
    BY <1>5, WorksUnchanged
  <2>2. UNCHANGED <<count, sample>>
    <3>1. CASE ReclaimEntry
      BY <3>1 DEF ReclaimEntry
    <3>2. CASE ~ReclaimEntry
      BY <1>5, <3>2, StoreUnchanged DEF store
    <3>3. QED
      BY <3>1, <3>2
  <2>3. pc \in Ended => pc' \in Ended
    BY <1>5 DEF Deliver, Queue, PastLimit, LookForSpace, FullHarvested,
                FullFlushed, WaitForSpace, ReadHeader, EndOfStream, Prepared, Restarted,
                Undecodable, Refreshed, Shown, Reclaimed, Flushed, Return, Ended, Charging, Flushing,
                HasRoom, Charged, ReclaimEntry
  <2>4. Fresh' /\ WorkStages' /\ Collected'
    BY <1>3, <2>1, <2>2, <2>3 DEF Fresh, WorkStages, Collected, Settled, works
  <2>5. outcome' = "failedSlot" => Failed # {} \/ outcome = "failedSlot"
    <3>1. CASE Deliver
      <4>1. queue # <<>>
        BY <3>1 DEF Deliver
      <4>2. Head(queue) \in Frames
        BY <1>1, <4>1, HeadTailProperties DEF OutputType
      <4>3. QED
        BY <1>2, <3>1, <4>2 DEF Deliver, Stop, Failed
    <3>2. CASE Undecodable
      <4>1. Values(slot) \subseteq Frames
        BY <1>1, ValuesAreFew DEF TablesType
      <4>2. QED
        BY <3>2, <4>1 DEF Undecodable, Stop, Failed
    <3>3. CASE Queue \/ PastLimit \/ ReclaimEntry \/ LookForSpace \/ FullHarvested
               \/ FullFlushed \/ WaitForSpace \/ ReadHeader
      BY <3>3 DEF Queue, PastLimit, ReclaimEntry, LookForSpace, FullHarvested,
                  FullFlushed, WaitForSpace, ReadHeader, Stop, Goto, Reclaim
    <3>4. CASE EndOfStream \/ Prepared \/ Restarted \/ Refreshed \/ Shown \/ Reclaimed
               \/ Flushed \/ Return
      BY <3>4 DEF EndOfStream, Prepared, Restarted, Refreshed, Shown, Reclaimed, Flushed, Return,
                  Continue, Charged, Stop, Goto, Reclaim
    <3>5. QED
      BY <1>5, <3>1, <3>2, <3>3, <3>4
  <2>6. pc' = "returned" =>
            /\ ring' = <<>> /\ \A f \in Frames : work'[f] = "none" \/ f \in Over'
            /\ result' = IF failure' # 0 THEN "frameFailed" ELSE outcome'
    <3>1. CASE Return
      BY <2>1, <3>1 DEF Return, works, Over
    <3>2. CASE ~Return
      <4>1. pc' # "returned"
        BY <1>5, <3>2 DEF Deliver, Queue, PastLimit, ReclaimEntry, LookForSpace, FullHarvested,
            FullFlushed, WaitForSpace, ReadHeader, EndOfStream, Prepared, Restarted, Undecodable,
            Refreshed, Shown, Reclaimed, Flushed, Continue, HasRoom, Charged, Stop, Goto, Reclaim,
            Charging, Flushing
      <4>2. QED
        BY <4>1
    <3>3. QED
      BY <3>1, <3>2
  <2>7. Reported'
    BY <1>3, <2>1, <2>5, <2>6 DEF Reported, Failed, works
  <2>8. QED
    BY <2>4, <2>7 DEF WorkInv
<1>6. CASE \E f \in Frames : Work(f)
  <2>1. UNCHANGED <<pc, fixed, hdr, store, refs, splits, ring, failure, output, tables, scan,
                    outcome, result>>
    BY <1>6 DEF Work, Settle, Leave
  <2>2. PICK f \in Frames :
          \/ /\ work[f] = "running" /\ work' = [work EXCEPT ![f] = "settled"]
             /\ \E x \in {"ready", "failed"} : status' = [status EXCEPT ![f] = x]
          \/ /\ work[f] = "settled" /\ work' = [work EXCEPT ![f] = "reported"]
             /\ status' = status
          \/ /\ work[f] = "reported" /\ work' = [work EXCEPT ![f] = "gone"]
             /\ status' = status
          \/ /\ work[f] = "reported" /\ work' = [work EXCEPT ![f] = "jammed"]
             /\ status' = status
    BY <1>6 DEF Work, Settle, Leave
  <2>3. Fresh'
    BY <1>1, <1>3, <2>1, <2>2 DEF Fresh, store, WorkType
  <2>4. WorkStages'
    BY <1>1, <1>3, <2>2 DEF WorkStages, Settled, WorkType
  <2>5. Collected'
    BY <1>1, <1>3, <2>1, <2>2 DEF Collected, WorkType
  <2>6. failure # 0 => status'[failure] = "failed"
    BY <1>1, <1>3, <2>2 DEF WorkStages, Reported, WorkType
  <2>7. Failed \subseteq Failed'
    BY <1>1, <1>3, <2>2 DEF WorkStages, Failed, WorkType
  <2>8. pc # "returned"
    BY <1>3, <2>2 DEF Reported, Over
  <2>9. Reported'
    BY <1>3, <2>1, <2>6, <2>7, <2>8 DEF Reported
  <2>10. QED
    BY <2>3, <2>4, <2>5, <2>9 DEF WorkInv
<1>7. CASE ShowExisting \/ DecodeInline \/ DeferFilters \/ DeferTip \/ DeferSplit
  <2>1. pc = "decode" /\ count + 1 \in Frames /\ outcome = "running"
    BY <1>1, <1>2, <1>7, Sizes DEF ShowExisting, DecodeInline, DeferFilters, DeferTip, DeferSplit,
        HasRoom, Shape, Decoding, StoreType, Frames, Ended
  <2>2. /\ work[count + 1] = "none" /\ status[count + 1] = "none"
        /\ \A f \in Frames : f > count => status[f] = "none" /\ work[f] = "none"
                                          /\ sample[f] = f /\ refs[f] = {}
    BY <1>2, <1>3, <2>1 DEF Fresh, Ended
  <2>3. failure # count + 1
    BY <1>3, <2>1, <2>2, Sizes DEF Reported
  <2>4. CASE UNCHANGED <<status, works>>
    <3>1. ShowExisting
      <4>1. CASE DecodeInline
        BY <1>1, <2>1, <2>2, <2>4, <4>1 DEF DecodeInline, Ready, WorkType
      <4>2. CASE DeferFilters \/ DeferTip \/ DeferSplit
        BY <1>1, <2>1, <2>2, <2>4, <4>2 DEF DeferFilters, DeferTip, DeferSplit, Defer, WorkType
      <4>3. QED
        BY <1>7, <4>1, <4>2
    <3>2. /\ Stop("failedSlot") /\ \E s \in Values(slot) : status[s] = "failed"
          /\ UNCHANGED <<store, result>>
      <4>1. PICK s \in Values(slot) :
              IF status[s] = "failed"
              THEN Stop("failedSlot") /\ UNCHANGED <<store, result>>
              ELSE Ready(count + 1)
        BY <3>1 DEF ShowExisting
      <4>2. ~Ready(count + 1)
        BY <1>1, <2>1, <2>2, <2>4 DEF Ready, WorkType
      <4>3. QED
        BY <4>1, <4>2
    <3>3. Values(slot) \subseteq Frames
      BY <1>1, ValuesAreFew DEF TablesType
    <3>4. Failed # {}
      BY <3>2, <3>3 DEF Failed
    <3>5. QED
      BY <1>3, <2>4, <3>2, <3>4 DEF WorkInv, Fresh, WorkStages, Collected, Reported, Failed, Settled,
          works, Stop, Ended
  <2>5. CASE /\ status' = [status EXCEPT ![count + 1] = "ready"]
             /\ UNCHANGED <<work, refs, splits, ring, failure, outcome, result>>
             /\ count' = count + 1 /\ pc' = "refreshed"
             /\ \A f \in Frames : f # count + 1 => sample'[f] = sample[f]
    <3>1. Fresh'
      BY <1>1, <1>2, <2>1, <2>2, <2>5 DEF Fresh, WorkType, Frames
    <3>2. WorkStages' /\ Collected'
      BY <1>1, <1>3, <2>1, <2>2, <2>5 DEF WorkStages, Collected, Settled, WorkType
    <3>3. Reported'
      BY <1>1, <1>3, <2>1, <2>2, <2>3, <2>5 DEF Reported, WorkType
    <3>4. QED
      BY <3>1, <3>2, <3>3 DEF WorkInv
  <2>6. CASE /\ status' = [status EXCEPT ![count + 1] = "pending"]
             /\ work' = [work EXCEPT ![count + 1] = "running"]
             /\ \E handles \in SUBSET Frames : refs' = [refs EXCEPT ![count + 1] = handles]
             /\ ring' = Append(ring, count + 1) /\ UNCHANGED <<sample, failure, result>>
             /\ \/ count' = count + 1 /\ pc' = "refreshed" /\ UNCHANGED outcome
                \/ Stop("undecodable")
    <3>1. Range(ring') = Range(ring) \union {count + 1}
      BY <1>1, <2>1, <2>6, AppendRange DEF WorkType
    <3>2. Fresh'
      BY <1>1, <1>2, <2>1, <2>2, <2>6 DEF Fresh, WorkType, Frames, Stop, Ended
    <3>3. WorkStages' /\ Collected'
      BY <1>1, <1>3, <2>1, <2>2, <2>6, <3>1 DEF WorkStages, Collected, Settled, WorkType
    <3>4. Reported'
      BY <1>1, <1>3, <2>1, <2>2, <2>3, <2>6 DEF Reported, WorkType, Stop
    <3>5. QED
      BY <3>2, <3>3, <3>4 DEF WorkInv
  <2>7. CASE ShowExisting
    <3>1. PICK source \in Values(slot) :
            \/ Stop("failedSlot") /\ UNCHANGED status
            \/ /\ Push(count + 1) /\ Ready(count + 1)
               /\ sample' = [sample EXCEPT ![count + 1] = sample[source]]
      BY <2>7 DEF ShowExisting
    <3>2. UNCHANGED <<work, refs, splits, ring, failure>>
      BY <2>7 DEF ShowExisting
    <3>3. CASE Stop("failedSlot") /\ UNCHANGED status
      BY <2>4, <3>2, <3>3 DEF works
    <3>4. CASE /\ Push(count + 1) /\ Ready(count + 1)
               /\ sample' = [sample EXCEPT ![count + 1] = sample[source]]
      <4>1. count' = count + 1 /\ pc' = "refreshed" /\ UNCHANGED <<outcome, result>>
        BY <2>1, <3>4, PushTypes
      <4>2. QED
        BY <1>1, <2>5, <3>2, <3>4, <4>1 DEF Ready, StoreType
    <3>5. QED
      BY <3>1, <3>3, <3>4
  <2>8. CASE DecodeInline
    <3>1. Push(count + 1) /\ Ready(count + 1) /\ UNCHANGED <<sample, work, refs, splits, ring, failure>>
      BY <2>8 DEF DecodeInline
    <3>2. count' = count + 1 /\ pc' = "refreshed" /\ UNCHANGED <<outcome, result>>
      BY <2>1, <3>1, PushTypes
    <3>3. QED
      BY <2>5, <3>1, <3>2 DEF Ready
  <2>9. CASE DeferFilters \/ DeferTip \/ DeferSplit
    <3>1. Values(slot) \in SUBSET Frames /\ {} \in SUBSET Frames
      BY <1>1, ValuesAreFew DEF TablesType
    <3>2. PICK handles \in SUBSET Frames : Defer(count + 1, handles)
      BY <2>9, <3>1 DEF DeferFilters, DeferTip, DeferSplit
    <3>3. \/ count' = count + 1 /\ pc' = "refreshed" /\ UNCHANGED <<outcome, result>>
          \/ Stop("undecodable") /\ UNCHANGED result
      BY <2>1, <3>2, PushTypes DEF Defer
    <3>4. QED
      BY <2>6, <3>2, <3>3 DEF Defer
  <2>10. QED
    BY <1>7, <2>7, <2>8, <2>9
<1>8. CASE UNCHANGED vars
  BY <1>3, <1>8 DEF WorkInv, Fresh, WorkStages, Collected, Reported, Settled, Failed, Over, vars, works, store
<1>9. QED
  BY <1>4, <1>5, <1>6, <1>7, <1>8 DEF Next, Loop

(* The caller sees the failure of the lowest failed frame, whatever order  *)
(* the works settle, fail and leave in (drive_frames, harvest_oldest).     *)
THEOREM EarliestFailureReported == Spec => []EarliestFailureIsReported
<1>1. Spec => [](TypeOK /\ Shape /\ WorkInv)
  BY InitType, TypeNext, InitWork, WorkNext, PTL DEF Spec
<1>2. TypeOK /\ Shape /\ WorkInv => EarliestFailureIsReported
  <2> SUFFICES ASSUME TypeOK, Shape, WorkInv, pc = "returned"
               PROVE  IF Failed = {} THEN result # "frameFailed"
                      ELSE result = "frameFailed" /\ failure \in Failed /\ \A f \in Failed : failure <= f
    BY DEF EarliestFailureIsReported
  <2>1. ring = <<>> /\ result = IF failure # 0 THEN "frameFailed" ELSE outcome
    BY DEF WorkInv, Reported
  <2>2. Range(ring) = {}
    BY <2>1 DEF Range
  <2>3. failure # 0 => failure \in Failed
    BY DEF WorkInv, Reported, Failed, TypeOK
  <2>4. \A f \in Failed : failure # 0 /\ failure <= f
    BY <2>2 DEF WorkInv, Collected, Failed
  <2>5. QED
    BY <2>1, <2>3, <2>4 DEF Shape
<1>3. QED
  BY <1>1, <1>2, PTL
=============================================================================
