---------------------------- MODULE FrameDriver ----------------------------
(***************************************************************************)
(* The frame loop of one streaming decode (pipeline/mod.rs) over the parts *)
(* it owns: the frame store (frame_store.rs), the ring of frames whose     *)
(* work is not collected (inflight.rs), the emission queue                 *)
(* (output_schedule.rs) and the split-frame slots that keep the handles of *)
(* the frames they worked on (frame_tasks.rs).  The works of the deferred  *)
(* frames run beside the loop.                                             *)
(*                                                                         *)
(* A frame is its number.  A frame header says how the frame is decoded,   *)
(* which reference slots it refreshes and how it is shown.  Which pending  *)
(* frames leave at an output event, and in what order, is any choice here; *)
(* module OutputOrder has the rule.  A decoded frame is one byte.          *)
(***************************************************************************)
EXTENDS Naturals, Sequences, FiniteSets, Functions

CONSTANTS
    NumFrames,   \* frames of a stream: bounds the run
    NumSlots,    \* NumRefFrames of the sequence
    MaxRef,      \* MAX_REF_FRAMES
    Depths,      \* pipeline capacities to choose from
    Limits,      \* output frame limits to choose from, 0 for none
    MaxFaults,   \* frames whose own work may fail: bounds the run
    Headers,     \* the frame headers a stream is made of
    DetachHeld,  \* DecodeSession::detach_held: the streaming decoder's is TRUE
    None         \* Option::None

Frames == 1 .. NumFrames
Slots == 1 .. NumSlots

ASSUME SizeAssumption ==
    /\ NumFrames \in Nat /\ NumSlots \in Nat \ {0} /\ MaxRef \in Nat
    /\ Depths \subseteq Nat \ {0} /\ Limits \subseteq Nat /\ MaxFaults \in Nat
    /\ NumSlots <= MaxRef
    /\ None \notin Nat

Kinds == {"split", "tip", "walk", "inline", "sef"}

(* A show-existing frame refreshes nothing and is shown; an implicit frame *)
(* is stored; only a key frame starts a new sequence.                      *)
ASSUME HeadersAssumption ==
    /\ Headers \subseteq [kind : Kinds, refresh : SUBSET Slots, restart : BOOLEAN,
                          show : {"immediate", "implicit", "hidden"}]
    /\ \A h \in Headers :
        /\ h.kind = "sef" => h.refresh = {} /\ h.show = "immediate" /\ ~h.restart
        /\ h.show = "implicit" => h.refresh # {}
        /\ h.kind = "tip" => ~h.restart

VARIABLES
    pc,         \* where the loop is
    depth,      \* InflightRing::capacity and SplitFrames::depth
    limit,      \* DecodeOptions::output_frame_limit
    hdr,        \* the header being decoded
    count,      \* FrameStore::count
    tracked,    \* frames in the store's entries
    sample,     \* the frame whose samples a frame shares: itself, but for a sef
    status,     \* a frame's slot: none, pending, ready or failed
    work,       \* a frame's work: none, running, settled, reported, gone or jammed
    refs,       \* frames whose handles a frame's work was given
    splits,     \* frames the split slots last worked on, oldest first
    ring,       \* InflightRing::entries
    failure,    \* InflightRing::failure, 0 for none
    slot,       \* RuntimeReferenceBuffer: the frame of every slot
    pending,    \* OutputScheduler::pending: the frame every slot owes
    scheduled,  \* frames ordered for output: emitted_count is its length
    newly,      \* those of them not charged yet
    queue,      \* EmissionQueue::pending
    delivered,  \* frames emit was called with
    retained,   \* retained_frame_bytes
    scan,       \* frames the reclamation has still to visit
    outcome,    \* what the loop ended with
    result      \* what the caller gets

store == <<count, tracked, sample, retained>>
works == <<status, work, refs, splits, ring, failure>>
output == <<scheduled, newly, queue, delivered>>
tables == <<slot, pending>>
fixed == <<depth, limit>>
vars == <<pc, fixed, hdr, store, works, output, tables, scan, outcome, result>>

-----------------------------------------------------------------------------
Entries == 2 * MaxRef + depth + 1

Values(table) == {table[s] : s \in Slots} \ {None}

Settled(f) == status[f] \in {"ready", "failed"}

(* Works that have left the scheduler.  The slot of a jammed one cannot be *)
(* reset: its frame failed and left a handle behind (module SplitFrame).   *)
Over == {f \in Frames : work[f] \in {"gone", "jammed"}}

(* Works that still have the handles of the frames they read: a split slot *)
(* keeps them until it is used again, a TIP work drops them as it settles. *)
Readers == Range(splits) \union {f \in Frames : work[f] = "running"}

SoleHandle(f) == \A r \in Readers : f \notin refs[r]

(* Mutant: a frame shares its samples with itself.                         *)
SharesWithItself(f) ==
    status[f] = "ready" /\ \E g \in tracked : status[g] = "ready" /\ sample[g] = sample[f]

Shares(f) ==
    status[f] = "ready" /\ \E g \in tracked \ {f} : status[g] = "ready" /\ sample[g] = sample[f]

(* The caller keeps every picture it was given.                            *)
HeldByCaller(f) == \E g \in Range(delivered) : sample[g] = sample[f]

(* Entries not available: those with a frame, and those whose last frame's *)
(* handles a split slot or a show-existing frame still has.                *)
Occupied == tracked \union Range(splits) \union {sample[f] : f \in tracked}

HasSpace == Cardinality(Occupied) < Entries

LimitReached == limit # 0 /\ Len(scheduled) >= limit

(* Sequences of distinct members of S.                                     *)
Orders(S) ==
    {q \in UNION {[1 .. n -> S] : n \in 0 .. Cardinality(S)} :
        \A i, j \in DOMAIN q : q[i] = q[j] => i = j}

Key == [kind |-> "inline", refresh |-> Slots, restart |-> TRUE, show |-> "hidden"]

Init ==
    /\ pc = "space"
    /\ depth \in Depths
    /\ limit \in Limits
    /\ hdr = None
    /\ count = 0
    /\ tracked = {}
    /\ sample = [f \in Frames |-> f]
    /\ status = [f \in Frames |-> "none"]
    /\ work = [f \in Frames |-> "none"]
    /\ refs = [f \in Frames |-> {}]
    /\ splits = <<>>
    /\ ring = <<>>
    /\ failure = 0
    /\ slot = [s \in Slots |-> None]
    /\ pending = [s \in Slots |-> None]
    /\ scheduled = <<>> /\ newly = <<>> /\ queue = <<>> /\ delivered = <<>>
    /\ retained = 0
    /\ scan = {}
    /\ outcome = "running"
    /\ result = "running"

(* An error leaves the loop for the end of drive_frames.                   *)
Stop(reason) == pc' = "collect" /\ outcome' = reason

-----------------------------------------------------------------------------
(* The ring.                                                               *)

(* Mutant: the error harvested first is kept.                              *)
HarvestFirst ==
    /\ ring # <<>>
    /\ work[Head(ring)] = "reported" \/ Head(ring) \in Over
    /\ ring' = Tail(ring)
    /\ failure' = IF status[Head(ring)] = "failed" THEN Head(ring) ELSE failure
    /\ UNCHANGED <<status, work, refs, splits>>

(* harvest_oldest: waits for the oldest work's report and keeps the error  *)
(* of the lowest frame.                                                    *)
Harvest ==
    /\ ring # <<>>
    /\ work[Head(ring)] = "reported" \/ Head(ring) \in Over
    /\ ring' = Tail(ring)
    /\ failure' = IF status[Head(ring)] = "failed" /\ (failure = 0 \/ Head(ring) < failure)
                  THEN Head(ring) ELSE failure
    /\ UNCHANGED <<status, work, refs, splits>>

(* harvest_all in a full store, at the end of the loop and after it.       *)
HarvestAll ==
    /\ pc \in {"full", "end", "collect"}
    /\ Harvest
    /\ UNCHANGED <<pc, fixed, hdr, store, output, tables, scan, outcome, result>>

(* InflightRing::reserve, before a frame is decoded.                       *)
HarvestForRoom ==
    /\ pc = "decode"
    /\ hdr.kind # "sef"
    /\ Len(ring) >= depth
    /\ Harvest
    /\ UNCHANGED <<pc, fixed, hdr, store, output, tables, scan, outcome, result>>

-----------------------------------------------------------------------------
(* The emission queue.                                                     *)

Charging == {"prepared", "refreshed", "shown", "ended"}
Flushing == {"fullFlush", "flush", "endFlush"}

(* One turn of EmissionQueue::drain.  Charging stops at a frame that has   *)
(* not settled, flushing waits for it.  The caller's emit may refuse it.   *)
Deliver ==
    /\ pc \in Charging \union Flushing
    /\ queue # <<>>
    /\ LET f == Head(queue)
       IN  IF f \notin tracked
           THEN Stop("internal") /\ UNCHANGED output
           ELSE /\ Settled(f)
                /\ IF status[f] = "failed"
                   THEN Stop("failedSlot") /\ UNCHANGED output
                   ELSE \/ Stop("refused") /\ UNCHANGED output
                        \/ /\ delivered' = Append(delivered, f)
                           /\ queue' = Tail(queue)
                           /\ UNCHANGED <<pc, outcome, scheduled, newly>>
    /\ UNCHANGED <<fixed, hdr, store, works, tables, scan, result>>

Drained == IF queue = <<>> THEN TRUE ELSE Head(queue) \in tracked /\ ~Settled(Head(queue))

(* Mutant: the limit is compared before the frame is counted.              *)
WithinLimitByOne == limit = 0 \/ Len(scheduled) - Len(newly) <= limit

WithinLimit == limit = 0 \/ Len(scheduled) - Len(newly) < limit

(* charge_emitted_outputs for the next frame: drained behind the ones      *)
(* already owed, refused or queued.                                        *)
Queue ==
    /\ pc \in Charging
    /\ newly # <<>>
    /\ WithinLimit
    /\ Drained
    /\ IF Head(newly) \notin tracked
       THEN Stop("internal") /\ UNCHANGED <<newly, queue>>
       ELSE \/ Stop("refused") /\ UNCHANGED <<newly, queue>>
            \/ /\ queue' = Append(queue, Head(newly))
               /\ newly' = Tail(newly)
               /\ UNCHANGED <<pc, outcome>>
    /\ UNCHANGED <<fixed, hdr, store, works, scheduled, delivered, tables, scan, result>>

PastLimit ==
    /\ pc \in Charging
    /\ newly # <<>>
    /\ ~WithinLimit
    /\ newly' = <<>>
    /\ UNCHANGED <<pc, fixed, hdr, store, works, scheduled, queue, delivered, tables, scan,
                   outcome, result>>

Schedule(frames) == scheduled' = scheduled \o frames /\ newly' = frames

-----------------------------------------------------------------------------
(* Reclamation.                                                            *)

(* Mutant: frames waiting in the emission queue are not asked for.         *)
ReclaimableQueued(f) ==
    /\ f \notin Values(slot) \union Values(pending) \union Range(ring)
    /\ Settled(f)
    /\ SoleHandle(f)
    /\ HeldByCaller(f) => Shares(f) \/ DetachHeld

(* Mutant: frames the caller keeps are never detached.                     *)
ReclaimableUnheld(f) ==
    /\ f \notin Values(slot) \union Values(pending) \union Range(queue) \union Range(ring)
    /\ Settled(f)
    /\ SoleHandle(f)
    /\ ~HeldByCaller(f)

Reclaimable(f) ==
    /\ f \notin Values(slot) \union Values(pending) \union Range(queue) \union Range(ring)
    /\ Settled(f)
    /\ SoleHandle(f)
    /\ HeldByCaller(f) => Shares(f) \/ DetachHeld

(* reclaim_unowned_frames at one entry, in any order of the entries.       *)
ReclaimEntry ==
    /\ pc \in {"restart", "reclaim", "wait", "endReclaim"}
    /\ \E f \in scan :
        /\ scan' = scan \ {f}
        /\ IF ~Reclaimable(f)
           THEN UNCHANGED <<pc, outcome, tracked, retained>>
           ELSE LET bytes == IF Shares(f) THEN 0 ELSE 1
                IN  IF retained < bytes
                    THEN Stop("internal") /\ UNCHANGED <<tracked, retained>>
                    ELSE /\ tracked' = tracked \ {f}
                         /\ retained' = retained - bytes
                         /\ UNCHANGED <<pc, outcome>>
    /\ UNCHANGED <<fixed, hdr, count, sample, works, output, tables, result>>

-----------------------------------------------------------------------------
(* The loop.                                                               *)

Goto(place) == pc' = place /\ UNCHANGED <<outcome, scan>>

Reclaim(place) == pc' = place /\ scan' = tracked /\ UNCHANGED outcome

(* The top of the loop: an entry for the next frame, or the work, output   *)
(* and readers that keep one from being free are waited for.               *)
LookForSpace ==
    /\ pc = "space"
    /\ Goto(IF HasSpace THEN "header" ELSE "full")
    /\ UNCHANGED <<fixed, hdr, store, works, output, tables, result>>

FullHarvested ==
    /\ pc = "full"
    /\ ring = <<>>
    /\ Goto("fullFlush")
    /\ UNCHANGED <<fixed, hdr, store, works, output, tables, result>>

FullFlushed ==
    /\ pc = "fullFlush"
    /\ queue = <<>>
    /\ Reclaim("wait")
    /\ UNCHANGED <<fixed, hdr, store, works, output, tables, result>>

WaitForSpace ==
    /\ pc = "wait"
    /\ scan = {}
    /\ IF HasSpace THEN Goto("header") ELSE Reclaim("wait")
    /\ UNCHANGED <<fixed, hdr, store, works, output, tables, result>>

(* A header is read and the frames it flushes are scheduled: all of them   *)
(* at a new sequence, some at the end of an open loop or at a restricted   *)
(* switch.                                                                 *)
ReadHeader ==
    /\ pc = "header"
    /\ count < NumFrames
    /\ \E h \in IF count = 0 THEN {Key} ELSE Headers :
        /\ hdr' = h
        /\ h.kind \in {"tip", "sef"} => Values(slot) # {}
        /\ \E flushed \in Orders(Values(pending)) :
            /\ h.restart => Range(flushed) = Values(pending)
            /\ Schedule(flushed)
            /\ pending' = [s \in Slots |->
                              IF pending[s] \in Range(flushed) THEN None ELSE pending[s]]
    /\ Goto("prepared")
    /\ UNCHANGED <<fixed, store, works, queue, delivered, slot, result>>

(* The stream has no more frames, or the next unit has an error.           *)
EndOfStream ==
    /\ pc = "header"
    /\ count > 0
    /\ \/ /\ \E flushed \in Orders(Values(pending)) :
              Range(flushed) = Values(pending) /\ Schedule(flushed)
          /\ pending' = [s \in Slots |-> None]
          /\ Goto("ended")
       \/ Stop("unreadable") /\ UNCHANGED <<scheduled, newly, pending, scan>>
    /\ UNCHANGED <<fixed, hdr, store, works, queue, delivered, slot, result>>

Charged(place) == pc = place /\ newly = <<>> /\ Drained

(* The next frame is decoded unless the limit is reached; an error when    *)
(* the store no longer has one of its references, or in the header.        *)
Continue(references) ==
    IF LimitReached THEN Goto("flush")
    ELSE IF references \subseteq tracked
    THEN \/ Goto("decode")
         \/ Stop("undecodable") /\ UNCHANGED scan
    ELSE Stop("internal") /\ UNCHANGED scan

(* A new sequence starts the reference buffer again.  Behind an open loop  *)
(* some slots lose their frames (finish_open_loop), which are still owed.  *)
Prepared ==
    /\ Charged("prepared")
    /\ IF hdr.restart
       THEN slot' = [s \in Slots |-> None] /\ Reclaim("restart")
       ELSE \E kept \in IF LimitReached THEN {Slots} ELSE SUBSET Slots :
                LET left == [s \in Slots |-> IF s \in kept THEN slot[s] ELSE None]
                IN  /\ hdr.kind \in {"tip", "sef"} => Values(left) # {}
                    /\ slot' = left
                    /\ Continue(Values(left))
    /\ UNCHANGED <<fixed, hdr, store, works, output, pending, result>>

Restarted ==
    /\ pc = "restart"
    /\ scan = {}
    /\ Continue(Values(slot))
    /\ UNCHANGED <<fixed, hdr, store, works, output, tables, result>>

(* FrameStore::push, the scheduler's refresh and the reference update.     *)
(* Refresh orders the frames it displaces, others with them, and the new   *)
(* frame too when a later slot's displaced frame is ordered behind it.  A  *)
(* key frame and a switch, which any other frame may be, keep only the     *)
(* first of the slots they refresh valid.                                  *)
Push(f) ==
    /\ count' = f
    /\ tracked' = tracked \union {f}
    /\ LET first == {s \in hdr.refresh : \A t \in hdr.refresh : s <= t}
           implicit == hdr.show = "implicit"
           displaced == {pending[s] : s \in hdr.refresh} \ {None}
           early == IF implicit /\ Cardinality(hdr.refresh) > 1 THEN {f} ELSE {}
       IN  \E valid \in IF hdr.restart THEN {first} ELSE {first, hdr.refresh} :
           \E frames \in Orders(Values(pending) \union early) :
            LET held == [s \in Slots |-> IF s \notin hdr.refresh THEN slot[s]
                                         ELSE IF s \in valid THEN f ELSE None]
                owing == [s \in Slots |-> IF s \notin hdr.refresh THEN pending[s]
                                          ELSE IF implicit /\ s \in valid THEN f ELSE None]
            IN  /\ displaced \subseteq Range(frames)
                /\ displaced = {} => frames = <<>>
                /\ Schedule(frames)
                /\ slot' = held
                /\ pending' = [s \in Slots |->
                                   IF owing[s] \in Range(frames) THEN None ELSE owing[s]]
    /\ Goto("refreshed")
    /\ UNCHANGED <<fixed, hdr, queue, delivered, result>>

Ready(f) == status' = [status EXCEPT ![f] = "ready"]

(* A show-existing frame waits for its source and shares its samples.      *)
ShowExisting ==
    /\ pc = "decode"
    /\ hdr.kind = "sef"
    /\ \E source \in Values(slot) :
        /\ Settled(source)
        /\ IF status[source] = "failed"
           THEN /\ Stop("failedSlot")
                /\ UNCHANGED <<fixed, hdr, store, status, output, tables, scan, result>>
           ELSE /\ Push(count + 1)
                /\ Ready(count + 1)
                /\ sample' = [sample EXCEPT ![count + 1] = sample[source]]
                /\ UNCHANGED retained
    /\ UNCHANGED <<work, refs, splits, ring, failure>>

(* Mutant: the ring takes one entry more than its capacity.                *)
HasRoomForOne == pc = "decode" /\ Len(ring) <= depth

HasRoom == pc = "decode" /\ Len(ring) < depth

(* SplitFrames::reserve: the oldest slot is used again once its work has   *)
(* left the scheduler and it could be reset.                               *)
SlotFree == IF Len(splits) < depth THEN TRUE ELSE work[Head(splits)] = "gone"

(* Decoding fails in the loop: on the frame itself or, when the loop reads *)
(* its references, on a failed one.                                        *)
Undecodable ==
    /\ HasRoom
    /\ hdr.kind = "split" => SlotFree
    /\ \/ Stop("undecodable")
       \/ /\ hdr.kind \in {"inline", "walk"}
          /\ \E f \in Values(slot) : status[f] = "failed"
          /\ Stop("failedSlot")
    /\ UNCHANGED <<fixed, hdr, store, works, output, tables, scan, result>>

(* A frame the walk leaves final is ready when it is stored.               *)
DecodeInline ==
    /\ HasRoom
    /\ hdr.kind = "inline"
    /\ Push(count + 1)
    /\ Ready(count + 1)
    /\ retained' = retained + 1
    /\ UNCHANGED <<sample, work, refs, splits, ring, failure>>

(* A frame's slot joins the ring and its work, given some frames' handles, *)
(* the scheduler.  What the loop still reads of the frame may fail behind  *)
(* it, and then the frame is not stored.                                   *)
Defer(f, handles) ==
    /\ status' = [status EXCEPT ![f] = "pending"]
    /\ work' = [work EXCEPT ![f] = "running"]
    /\ refs' = [refs EXCEPT ![f] = handles]
    /\ ring' = Append(ring, f)
    /\ \/ Push(f) /\ retained' = retained + 1
       \/ /\ Stop("undecodable")
          /\ UNCHANGED <<fixed, hdr, count, tracked, retained, output, tables, scan, result>>
    /\ UNCHANGED <<sample, failure>>

(* A walked frame's filters are deferred: they read no other frame.        *)
DeferFilters ==
    /\ HasRoom
    /\ hdr.kind = "walk"
    /\ Defer(count + 1, {})
    /\ UNCHANGED splits

DeferTip ==
    /\ HasRoom
    /\ hdr.kind = "tip"
    /\ Defer(count + 1, Values(slot))
    /\ UNCHANGED splits

(* A split slot drops what it has of its last frame as it is used again;   *)
(* the loop waits for that in reserve, for ever if the slot is jammed.     *)
DeferSplit ==
    /\ HasRoom
    /\ hdr.kind = "split"
    /\ SlotFree
    /\ splits' = Append(IF Len(splits) < depth THEN splits ELSE Tail(splits), count + 1)
    /\ Defer(count + 1, Values(slot))

(* on_immediate: pending frames may leave before and behind the frame.     *)
Refreshed ==
    /\ Charged("refreshed")
    /\ IF hdr.show = "immediate"
       THEN /\ \E before, behind \in Orders(Values(pending)) :
                /\ Range(before) \cap Range(behind) = {}
                /\ Schedule(before \o <<count>> \o behind)
                /\ pending' = [s \in Slots |->
                    IF pending[s] \in Range(before) \union Range(behind) THEN None ELSE pending[s]]
            /\ Goto("shown")
       ELSE Reclaim("reclaim") /\ UNCHANGED <<pending, scheduled, newly>>
    /\ UNCHANGED <<fixed, hdr, store, works, queue, delivered, slot, result>>

Shown ==
    /\ Charged("shown")
    /\ Reclaim("reclaim")
    /\ UNCHANGED <<fixed, hdr, store, works, output, tables, result>>

Reclaimed ==
    /\ pc = "reclaim"
    /\ scan = {}
    /\ hdr' = None
    /\ Goto(IF LimitReached THEN "flush" ELSE "space")
    /\ UNCHANGED <<fixed, store, works, output, tables, result>>

(* The end of the loop, at the limit and at the end of the stream.         *)
Flushed ==
    /\ \/ Charged("ended") /\ Goto("endFlush")
       \/ pc = "endFlush" /\ queue = <<>> /\ Goto("end")
       \/ pc = "end" /\ ring = <<>> /\ Reclaim("endReclaim")
       \/ pc = "endReclaim" /\ scan = {} /\ Stop("ok") /\ UNCHANGED scan
       \/ pc = "flush" /\ queue = <<>> /\ Stop("ok") /\ UNCHANGED scan
    /\ UNCHANGED <<fixed, hdr, store, works, output, tables, result>>

(* drive_frames: the works are collected and drained, and the failure of   *)
(* the lowest frame outranks what the loop ended with.                     *)
Return ==
    /\ pc = "collect"
    /\ ring = <<>>
    /\ \A f \in Frames : work[f] = "none" \/ f \in Over
    /\ pc' = "returned"
    /\ result' = IF failure # 0 THEN "frameFailed" ELSE outcome
    /\ UNCHANGED <<fixed, hdr, store, works, output, tables, scan, outcome>>

-----------------------------------------------------------------------------
(* The works of the deferred frames.                                       *)

Failed == {f \in Frames : status[f] = "failed"}

(* The slot settles: with samples, or as failed by the work's own error or *)
(* a failed frame it was given.                                            *)
Settle(f) ==
    /\ work[f] = "running"
    /\ work' = [work EXCEPT ![f] = "settled"]
    /\ \E outcomeOf \in {"ready", "failed"} :
        /\ outcomeOf = "failed" => Cardinality(Failed) < MaxFaults \/ refs[f] \cap Failed # {}
        /\ status' = [status EXCEPT ![f] = outcomeOf]
    /\ UNCHANGED <<pc, fixed, hdr, store, refs, splits, ring, failure, output, tables, scan,
                   outcome, result>>

(* The report is set behind it, then the work leaves the scheduler; a      *)
(* split frame that failed may leave its slot jammed.                      *)
Leave(f) ==
    /\ \/ work[f] = "settled" /\ work' = [work EXCEPT ![f] = "reported"]
       \/ work[f] = "reported" /\ work' = [work EXCEPT ![f] = "gone"]
       \/ /\ work[f] = "reported"
          /\ f \in Range(splits) /\ status[f] = "failed"
          /\ work' = [work EXCEPT ![f] = "jammed"]
    /\ UNCHANGED <<pc, fixed, hdr, store, status, refs, splits, ring, failure, output, tables,
                   scan, outcome, result>>

Loop ==
    \/ HarvestAll \/ HarvestForRoom \/ Deliver \/ Queue \/ PastLimit \/ ReclaimEntry
    \/ LookForSpace \/ FullHarvested \/ FullFlushed \/ WaitForSpace
    \/ ReadHeader \/ EndOfStream \/ Prepared \/ Restarted
    \/ ShowExisting \/ Undecodable \/ DecodeInline
    \/ DeferFilters \/ DeferTip \/ DeferSplit
    \/ Refreshed \/ Shown \/ Reclaimed \/ Flushed \/ Return

Work(f) == Settle(f) \/ Leave(f)

Next == Loop \/ \E f \in Frames : Work(f)

Spec == Init /\ [][Next]_vars

(* The loop goes on when it can, a work on the scheduler finishes.         *)
FairSpec == Spec /\ WF_vars(Loop) /\ \A f \in Frames : WF_vars(Work(f))

-----------------------------------------------------------------------------
(* Properties.                                                             *)

Places == {"space", "full", "fullFlush", "wait", "header", "prepared", "restart", "decode",
           "refreshed", "shown", "reclaim", "flush", "ended", "endFlush", "end", "endReclaim",
           "collect", "returned"}

Outcomes == {"running", "ok", "refused", "unreadable", "undecodable", "failedSlot", "internal",
             "frameFailed"}

TypeOK ==
    /\ pc \in Places
    /\ depth \in Depths /\ limit \in Limits
    /\ hdr \in Headers \union {Key, None}
    /\ count \in 0 .. NumFrames
    /\ tracked \subseteq 1 .. count
    /\ sample \in [Frames -> Frames]
    /\ status \in [Frames -> {"none", "pending", "ready", "failed"}]
    /\ work \in [Frames -> {"none", "running", "settled", "reported", "gone", "jammed"}]
    /\ refs \in [Frames -> SUBSET Frames]
    /\ splits \in Seq(Frames) /\ Len(splits) <= depth
    /\ ring \in Seq(Frames) /\ Len(ring) <= depth
    /\ failure \in Frames \union {0}
    /\ slot \in [Slots -> Frames \union {None}]
    /\ pending \in [Slots -> Frames \union {None}]
    /\ {scheduled, newly, queue, delivered} \subseteq Seq(Frames)
    /\ retained \in Nat
    /\ scan \subseteq Frames
    /\ outcome \in Outcomes
    /\ result \in Outcomes

(* No frame is reclaimed that a reference slot, an output or a show-       *)
(* existing frame still asks the store for, and the bytes never underflow; *)
(* the error of a read of a failed frame never reaches the caller, who     *)
(* gets that frame's own error.                                            *)
NoInternalError == outcome # "internal" /\ result # "failedSlot"

(* retained_frame_bytes counts the samples of the tracked frames once,     *)
(* however many show-existing frames share them and in whatever order they *)
(* are reclaimed.                                                          *)
BytesAreThoseStored == retained = Cardinality({sample[f] : f \in tracked})

(* The caller gets the frames in the order they were scheduled, none twice *)
(* and none past the limit, and after a decode without an error all.       *)
Owed == IF limit # 0 /\ limit < Len(scheduled) THEN SubSeq(scheduled, 1, limit) ELSE scheduled

DeliveredInOrder ==
    /\ Len(delivered) <= Len(Owed)
    /\ \A i \in DOMAIN delivered : delivered[i] = Owed[i] /\ status[delivered[i]] = "ready"
    /\ \A i, j \in DOMAIN scheduled : scheduled[i] = scheduled[j] => i = j
    /\ result = "ok" => delivered = Owed

(* The caller sees the failure a serial decode would have met first: that  *)
(* of the lowest frame, whatever order the works failed in and whatever    *)
(* the loop ran into because of it.                                        *)
EarliestFailureIsReported ==
    pc = "returned" =>
        IF Failed = {} THEN result # "frameFailed"
        ELSE result = "frameFailed" /\ failure \in Failed /\ \A f \in Failed : failure <= f

(* The loop waits for an entry only while some work has still to publish   *)
(* (inflight.rs:511: "the driver parks until the work it waits for         *)
(* publishes"): if every work is done, some frame can be reclaimed.        *)
DriverWaitsForWork ==
    pc = "wait" /\ ~HasSpace /\ (\A f \in tracked : ~Reclaimable(f)) =>
        \E f \in Frames : work[f] \in {"running", "settled", "reported"}

(* The decode ends, though the caller keeps every picture, unless it comes *)
(* to one of two waits the code can leave it in for good: in reserve, for  *)
(* a jammed slot (frame_tasks.rs:630-638), or for space (mod.rs:1034) when *)
(* every frame in the store is still needed or is held by idle split slots *)
(* alone.                                                                  *)
ReserveSpins ==
    /\ pc = "decode" /\ hdr.kind = "split" /\ Len(ring) < depth
    /\ Len(splits) = depth /\ work[Head(splits)] = "jammed"

IdleHandles == UNION {refs[r] : r \in Range(splits) \cap Over}

WaitsForNobody ==
    /\ pc = "wait" /\ ~HasSpace
    /\ \A f \in Frames : work[f] = "none" \/ f \in Over
    /\ tracked \subseteq Values(slot) \union Values(pending) \union IdleHandles

DriveReturns == <>(pc = "returned" \/ ReserveSpins \/ WaitsForNobody)
=============================================================================
