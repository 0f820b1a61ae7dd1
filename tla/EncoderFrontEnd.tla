-------------------------- MODULE EncoderFrontEnd --------------------------
(***************************************************************************)
(* The encoder between its caller and its frame coder, encoder.rs: frames  *)
(* are queued, planned into mini-GOPs, coded in waves of frames that read  *)
(* the same references, committed one by one, and packed into temporal     *)
(* units.  A call runs to its end before the next one; receive_packet is   *)
(* split into its steps, as the coder may fail at each.                    *)
(*                                                                         *)
(* A frame is its display index.  What its pixels decide is chosen: a      *)
(* scene cut, the size of a coded frame, a coding error.                   *)
(***************************************************************************)
EXTENDS GopPlanner, RateControl

LOCAL INSTANCE FiniteSets
LOCAL INSTANCE FiniteSetsExt
LOCAL INSTANCE SequencesExt

CONSTANTS
    Settings,       \* keyint, mini-GOP and lookahead of the encoder, and
                    \* its bounds: frames of the input, cuts the lookahead sees,
                    \* the bits a coded frame may take
    Backlog,        \* frames queued past the lookahead
    OrderHintBits,  \* order_hint_bits of the sequence header
    ShowBits        \* the bits of a show-existing frame

(* A preset with the mini-GOP past the lookahead is refused.               *)
Validated(s) == s.keyint \in Nat \ {0} /\ s.gop \in 1 .. MaxGop /\ s.look \in s.gop .. 255

(* A mini-GOP fits half the range of the coded hints, and its hidden       *)
(* frames, one per bisection, leave a slot for the newest shown frame and  *)
(* one to refresh.                                                         *)
ASSUME SettingsAssumption ==
    /\ \A s \in Settings : /\ Validated(s)
                           /\ s.frames \in Nat /\ s.cuts \in Nat /\ s.sizes \subseteq Nat
    /\ MaxGop < 2 ^ (OrderHintBits - 1) /\ MaxGop <= 2 ^ (NumSlots - 2)
    /\ Backlog \in Nat /\ ShowBits \in Nat

VARIABLES
    cfg,      \* the settings
    state,    \* State
    queued,   \* how many frames are pending
    planner,  \* the GopPlanner
    rate,     \* the ledger of the rate controller
    refs,     \* EncoderReferences, by slot
    window,   \* the planned frames of the lookahead window
    job,      \* the mini-GOP being coded, None between calls
    ready,    \* packets not yet returned
    answer,   \* what the last call returned
    given,    \* how many packets were returned
    seen,     \* display indices the lookahead called scene cuts
    owed,     \* bits spent beyond the budgets of the frames themselves
    fault     \* an error the encoder's own plan caused

code == <<cfg, state, queued, planner, rate, refs, window, job, ready>>
vars == <<code, answer, given, seen, owed, fault>>

Sent == planner.next + queued
Ended == state = "flushed"

Init ==
    /\ cfg \in Settings
    /\ state = "accepting" /\ queued = 0 /\ planner = NewPlanner
    /\ rate = NoFrames /\ refs = Empty /\ window = <<>> /\ job = None /\ ready = <<>>
    /\ answer = "ok" /\ given = 0 /\ seen = {} /\ owed = 0 /\ fault = FALSE

-----------------------------------------------------------------------------
(* The caller's side.                                                      *)

(* A refused call changes nothing: sends after a flush, any after an error.*)
Send(cut) ==
    /\ job = None /\ state = "accepting"
    /\ Sent < cfg.frames /\ queued < cfg.look + Backlog
    /\ cut => Sent > 0 /\ Cardinality(seen) < cfg.cuts
    /\ queued' = queued + 1
    /\ planner' = IF cut THEN ForceKey(planner, cfg.keyint, cfg.gop, Sent) ELSE planner
    /\ seen' = IF cut THEN seen \cup {Sent} ELSE seen
    /\ answer' = "ok"
    /\ UNCHANGED <<cfg, state, rate, refs, window, job, ready, given, owed, fault>>

Flush ==
    /\ job = None /\ state = "accepting"
    /\ state' = "flushed" /\ answer' = "ok"
    /\ UNCHANGED <<cfg, queued, planner, rate, refs, window, job, ready, given, seen, owed, fault>>

(* How many frames receive_packet codes now.                               *)
NextMiniGop ==
    IF ready = <<>> /\ (Ended \/ queued >= cfg.look)
    THEN NextLen(planner, cfg.gop, queued, Ended) ELSE 0

(* The end of receive_packet.                                              *)
PopReady ==
    /\ ready' = IF ready = <<>> THEN ready ELSE Tail(ready)
    /\ given' = IF ready = <<>> THEN given ELSE given + 1
    /\ answer' = IF ready = <<>> THEN "none" ELSE "packet"

(* receive_packet with a packet ready, or too few frames.                  *)
Receive ==
    /\ job = None /\ state # "failed" /\ NextMiniGop = 0
    /\ PopReady
    /\ UNCHANGED <<cfg, state, queued, planner, rate, refs, window, job, seen, owed, fault>>

-----------------------------------------------------------------------------
(* Coding a mini-GOP.                                                      *)

IsCode(s) == s.op = "code"
Coded(steps) == SelectSeq(steps, IsCode)
Displays(steps) == {steps[i].display : i \in DOMAIN steps}

(* The plan of the next frames as if no others followed.                   *)
Lookahead(frames) ==
    LET Further(a, i) ==
            LET len == NextLen(a.planner, cfg.gop, a.left, TRUE)
                next == Plan(a.planner, cfg.keyint, len)
            IN  IF len = 0 \/ ~a.planner.ok THEN a
                ELSE [planner |-> next, left |-> a.left - len,
                      window |-> a.window \o Coded(next.steps)]
    IN  FoldLeft(Further, [planner |-> planner, left |-> frames, window |-> <<>>],
                 [i \in 1 .. frames |-> i])

(* The call returns an error, and the encoder stays failed.                *)
Broken(own) ==
    /\ state' = "failed" /\ job' = None /\ answer' = "error" /\ fault' = own
    /\ UNCHANGED <<cfg, refs, ready, given, seen, owed>>

StartMiniGop ==
    /\ job = None /\ state # "failed" /\ NextMiniGop > 0
    /\ LET ahead == Lookahead(IF queued < cfg.look THEN queued ELSE cfg.look)
           plan == Plan(planner, cfg.keyint, NextMiniGop)
       IN  /\ window' = ahead.window
           /\ rate' = PlanWindow(rate, Len(ahead.window))
           /\ queued' = queued - NextMiniGop
           /\ planner' = plan
           /\ IF ahead.planner.ok /\ plan.ok
              THEN /\ job' = [first |-> planner.next, len |-> NextMiniGop, todo |-> plan.steps,
                              wave |-> 0, against |-> refs, unit |-> <<>>, keys |-> {},
                              ending |-> Ending(rate, Len(ahead.window))]
                   /\ UNCHANGED <<cfg, state, refs, ready, answer, given, seen, owed, fault>>
              ELSE Broken(TRUE)

(* get_disp_order_hint: the hint with the coded low bits that is nearest   *)
(* the highest one of the frames shown when coded.                         *)
DerivedHint(hint, slots) ==
    LET range == 2 ^ OrderHintBits
        low == hint % range
        top == Max({0} \cup {slots[i].hint : i \in {j \in Held(slots) : slots[j].shown}})
        limit == range \div 2 + low
    IN  IF top < limit THEN low ELSE low + ((top - limit) \div range + 1) * range

(* A frame's header as the decoder will read it against the references.    *)
HeaderIsRight(s, slots) ==
    IF s.key THEN s.opens
    ELSE s.primary \in Held(slots) /\ DerivedHint(s.hint, slots) = s.hint

(* The quantizers of a wave's frames, then the frames.                     *)
EncodeWave ==
    /\ job # None /\ job.wave = 0 /\ job.todo # <<>>
    /\ LET wave == SubSeq(job.todo, 1, WaveLen(job.todo))
           Quantize(r, s) == FrameQp(r, s.frame, s.display)
           right == \A i \in DOMAIN Coded(wave) :
                        /\ Coded(wave)[i].display \in Displays(window)
                        /\ HeaderIsRight(Coded(wave)[i], refs)
       IN  /\ rate' = FoldLeft(Quantize, rate, Coded(wave))
           /\ UNCHANGED <<queued, planner, window>>
           /\ IF right
              THEN /\ job' = [job EXCEPT !.wave = Len(wave), !.against = refs]
                   /\ UNCHANGED <<cfg, state, refs, ready, answer, given, seen, owed, fault>>
              ELSE Broken(TRUE)

(* The step is done: its bytes join the temporal unit, which an output ends. *)
Finished(step, output) ==
    LET unit == Append(job.unit, step)
        keys == IF IsCode(step) /\ step.key THEN job.keys \cup {step.display} ELSE job.keys
    IN  /\ job' = [job EXCEPT !.todo = Tail(@), !.wave = @ - 1, !.keys = keys,
                              !.unit = IF output THEN <<>> ELSE unit]
        /\ ready' = IF output
                    THEN Append(ready, [pts |-> step.display, key |-> step.display \in keys,
                                        unit |-> unit])
                    ELSE ready
        /\ UNCHANGED <<cfg, state, queued, planner, window, answer, given, seen, fault>>

(* RuntimeReferenceBuffer::update: a key frame is valid in one slot.       *)
Refreshed(slots, s) ==
    [i \in Slots |->
        CASE i \notin s.refresh -> slots[i]
          [] i \in s.refresh /\ s.key /\ i # 0 -> None
          [] OTHER -> [display |-> s.display, hint |-> s.hint, shown |-> s.shown, out |-> FALSE]]

Bounded(n) == Clamp(n, -Under, Over)

Commit(bits) ==
    /\ job # None /\ job.wave > 0 /\ IsCode(Head(job.todo))
    /\ LET s == Head(job.todo)
       IN  /\ refs' = Refreshed(refs, s)
           /\ rate' = Update(rate, s.frame, bits)
           /\ owed' = Bounded(owed + bits - Budget(s.display))
           /\ Finished(s, s.shown)

(* The slot holds a hidden frame that was not shown yet.                   *)
CanShow(slot) == slot \in Held(refs) /\ ~refs[slot].shown /\ ~refs[slot].out

CommitShow ==
    /\ job # None /\ job.wave > 0 /\ ~IsCode(Head(job.todo))
    /\ LET s == Head(job.todo)
       IN  IF CanShow(s.slot)
           THEN /\ refs' = [refs EXCEPT ![s.slot].out = TRUE]
                /\ rate' = UpdateShowExisting(rate, ShowBits)
                /\ owed' = Bounded(owed + ShowBits)
                /\ Finished(s, TRUE)
           ELSE /\ UNCHANGED <<queued, planner, rate, window>>
                /\ Broken(TRUE)

EndMiniGop ==
    /\ job # None /\ job.todo = <<>>
    /\ job' = None
    /\ PopReady
    /\ UNCHANGED <<cfg, state, queued, planner, rate, refs, window, seen, owed, fault>>

(* The coder fails.                                                        *)
Fail ==
    /\ job # None /\ job.todo # <<>>
    /\ Broken(fault)
    /\ UNCHANGED <<queued, planner, rate, window>>

Next ==
    \/ \E cut \in BOOLEAN : Send(cut)
    \/ Flush
    \/ Receive
    \/ StartMiniGop
    \/ EncodeWave
    \/ \E bits \in cfg.sizes : Commit(bits)
    \/ CommitShow
    \/ EndMiniGop
    \/ Fail

Spec == Init /\ [][Next]_vars

-----------------------------------------------------------------------------
(* The state is what the code's types say, and what it counts stays in     *)
(* its bounds.                                                             *)
HeldFrame == [display : Nat, hint : Nat, shown : BOOLEAN, out : BOOLEAN]

TypeOK ==
    /\ cfg \in Settings
    /\ state \in {"accepting", "flushed", "failed"}
    /\ queued \in 0 .. cfg.look + Backlog
    /\ planner.ok => Sent <= cfg.frames
    /\ DOMAIN refs = Slots /\ \A i \in Slots : refs[i] # None => refs[i] \in HeldFrame
    /\ rate.drift \in -Under .. Over /\ Len(rate.planned) <= PlanCap
    /\ job # None => /\ job.wave \in 0 .. Len(job.todo)
                     /\ job.len \in 1 .. cfg.gop
    /\ answer \in {"ok", "packet", "none", "error"} /\ fault \in BOOLEAN

(* The key frames, from the input alone: one every keyint frames, or where *)
(* a scene cut comes a mini-GOP or more after the one before.              *)
KeysUpTo[frame \in Nat] ==
    IF frame = 0 THEN {0}
    ELSE LET keys == KeysUpTo[frame - 1]
             before == Max(keys)
         IN  IF \/ frame = before + cfg.keyint
                \/ frame \in seen /\ frame - before >= cfg.gop
             THEN keys \cup {frame} ELSE keys

KeyFrames == KeysUpTo[Sent]

(* The packets, in the order receive_packet returns them, show each sent   *)
(* frame once, in display order.  A packet starts where a temporal         *)
(* delimiter was written, holds one output, its last frame, and says       *)
(* whether that frame is a key frame; no coded byte is left out of them.   *)
(* An encoder that was flushed and says none is ready has returned all.    *)
Opens(step) == ~IsCode(step) \/ step.opens
Outputs(step) == ~IsCode(step) \/ step.shown

UnitsShowFramesInOrder ==
    LET keys == KeyFrames
        Whole(packet) ==
            /\ packet.key <=> packet.pts \in keys
            /\ packet.unit[Len(packet.unit)].display = packet.pts
            /\ \A j \in DOMAIN packet.unit :
                 /\ Outputs(packet.unit[j]) <=> j = Len(packet.unit)
                 /\ Opens(packet.unit[j]) <=> j = 1
    IN  /\ \A i \in DOMAIN ready : ready[i].pts = given + i - 1 /\ Whole(ready[i])
        /\ job # None /\ job.todo = <<>> => job.unit = <<>>
        /\ Ended /\ answer = "none" => given = Sent

(* A decoder finds each frame as the encoder coded it.  The frames of a    *)
(* wave were coded against the references as they were before it, and a    *)
(* decoder has decoded all frames before; the two hold the same frames.    *)
(* They are those the plan counted on, with the CDFs the frame starts      *)
(* from, and the hint its header codes comes out as planned.  A shown slot *)
(* holds the frame the plan put there.  The plan never makes an error.     *)
Contents(slots) ==
    [i \in Slots |-> IF slots[i] = None THEN None
                     ELSE <<slots[i].display, slots[i].hint, slots[i].shown>>]

CodedAsDecoded ==
    /\ ~fault
    /\ job # None /\ job.wave > 0 =>
         LET s == Head(job.todo)
         IN  IF IsCode(s)
             THEN /\ Contents(job.against) = Contents(refs)
                  /\ HeaderIsRight(s, refs)
                  /\ ~s.key => s.refs = Held(refs)
             ELSE CanShow(s.slot) /\ refs[s.slot].display = s.display

(* What is coded depends on the input alone, not on how the caller mixed   *)
(* its calls: where the mini-GOP ends, which frames are key frames and     *)
(* what their hints count from, the frames of the lookahead window, and    *)
(* those the temporal filter may read, none past the next key frame.       *)
UpTo(n) == IF n < Sent THEN n ELSE Sent

PlanFollowsTheInput ==
    job # None =>
        LET first == job.first
            lookTo == first + cfg.look
            keys == KeyFrames
            nextKey == Min({UpTo(lookTo)} \cup {k \in keys : k > first})
        IN  /\ state = "accepting" => lookTo <= Sent
            /\ job.len = IF first \in keys THEN 1 ELSE Min({cfg.gop, nextKey - first})
            /\ \A i \in DOMAIN job.todo :
                 LET s == job.todo[i]
                 IN  IsCode(s) => /\ s.key <=> s.display \in keys
                                  /\ s.hint = s.display - Max({k \in keys : k <= s.display})
            /\ Len(window) = UpTo(lookTo) - first
            /\ Displays(window) = first .. UpTo(lookTo) - 1
            /\ \A i \in DOMAIN window : window[i].key <=> window[i].display \in keys
            /\ UpTo(Min({lookTo, NextKey(planner)})) = nextKey

(* The drift is the bits spent beyond the budgets of the frames they were  *)
(* spent on, although the budgets are looked up in a queue that forgets.   *)
(* The controller repays all of it only in the last window of the input.   *)
SpendingIsCharged ==
    /\ rate.drift = owed
    /\ job # None /\ job.ending => Ended /\ job.first + Len(window) = Sent
=============================================================================
