---------------------------- MODULE OutputOrder ----------------------------
(***************************************************************************)
(* Which decoded frames the pipeline hands over for display, and in what   *)
(* order.  Two tables decide it together, one entry per reference slot:    *)
(* the output scheduler's pending frames (pipeline/output_schedule.rs) and *)
(* the reference buffer (reference/buffer.rs).  The frame loop             *)
(* (pipeline/mod.rs) updates both for every frame header it reads.         *)
(*                                                                         *)
(* A frame header is a member of a small set.  Its OrderHint is chosen,    *)
(* not derived, and only the fields output depends on are kept.  One       *)
(* embedded layer is decoded, so a restricted switch restricts every slot. *)
(* Frame numbers of frames no table holds any more are used again.         *)
(***************************************************************************)
EXTENDS Naturals, Sequences, SequencesExt

CONSTANTS
    NumSlots,       \* NumRefFrames of the sequence
    MaxHint,        \* largest OrderHint
    None,           \* Option::None
    Headers         \* the frame headers a stream is made of

ASSUME SizeAssumption == NumSlots \in Nat \ {0} /\ MaxHint \in Nat

ASSUME NoneAssumption ==
    /\ None \notin Nat
    /\ None \notin [frame : 0 .. NumSlots, ordering : 0 .. MaxHint]

Slots == 0 .. NumSlots - 1
Hints == 0 .. MaxHint
Frames == 0 .. NumSlots

(* u32::MAX, the hint of a reference a restricted switch has marked.       *)
Restricted == MaxHint + 1

Shows == {"immediate", "implicit", "hidden"}

VARIABLES
    pending,    \* OutputScheduler::pending, by slot
    emitted,    \* OutputScheduler::emitted, the frames still tracked
    openLoop,   \* open_loop_active and open_loop_order_hint
    slots,      \* RuntimeReferenceBuffer::slots, None when not valid
    loop,       \* RuntimeReferenceBuffer::open_loop
    phase,      \* where the frame loop is in the current header
    hdr,        \* the header being decoded
    new,        \* its frame number
    todo,       \* slots its refresh has still to visit
    out         \* pictures the last step released

vars == <<pending, emitted, openLoop, slots, loop, phase, hdr, new, todo, out>>

-----------------------------------------------------------------------------
(* Headers.                                                                *)

Kinds == {"CLK", "OLK", "Regular", "Leading", "Switch", "RegularSef", "LeadingSef"}

IsKey(h) == h.kind \in {"CLK", "OLK"}
IsSef(h) == h.kind \in {"RegularSef", "LeadingSef"}
IsKeyOrSwitch(h) == IsKey(h) \/ h.kind = "Switch"
IsRegular(h) == h.kind \in {"OLK", "Regular", "Switch", "RegularSef"}

AllHeaders ==
    [kind : Kinds, first : BOOLEAN, hint : Hints, flags : SUBSET Slots, show : Shows,
     long : BOOLEAN, restricted : BOOLEAN, slot : Slots, derive : BOOLEAN]

(* What the parser makes of the kinds: a show-existing frame refreshes     *)
(* nothing and is immediate, only a switch can be restricted, only a key   *)
(* frame names a long-term id.                                             *)
WellFormed(h) ==
    /\ IsSef(h) => h.flags = {} /\ h.show = "immediate"
    /\ ~IsSef(h) => h.slot = 0 /\ ~h.derive
    /\ h.restricted => h.kind = "Switch"
    /\ h.long => IsKey(h)
    /\ h.derive => h.hint = 0

ASSUME HeadersAssumption ==
    Headers \subseteq AllHeaders /\ \A h \in Headers : WellFormed(h)

(* The hint an output of h is ordered by: a show-existing frame that       *)
(* derives it takes the one stored with its slot.                          *)
Ordering(h) == IF h.derive THEN slots[h.slot].hint ELSE h.hint

-----------------------------------------------------------------------------
(* The scheduler's tables as one value, and what its operations make of it *)

Tables == [pending |-> pending, emitted |-> emitted, newly |-> <<>>]

Held(p) == {i \in Slots : p[i] # None}

Lower(p, k) == {i \in Held(p) : p[i].ordering < k}

(* Mutant: output_successive stops after the next hint.                    *)
SuccessiveOnce(p, k) == {i \in Held(p) : p[i].ordering = k + 1}

(* The slots output_successive releases: their hints follow k in a row.    *)
Successive(p, k) ==
    {i \in Held(p) :
        /\ k < p[i].ordering
        /\ \A h \in k + 1 .. p[i].ordering : \E j \in Held(p) : p[j].ordering = h}

(* The frames of the slots in I by hint, the first slot first on a tie.    *)
InOrder(p, I) ==
    LET leads == {i \in I : \A j \in I : p[j].frame = p[i].frame => i <= j}
        sooner(i, j) == \/ p[i].ordering < p[j].ordering
                        \/ p[i].ordering = p[j].ordering /\ i < j
        order == SetToSortSeq(leads, sooner)
    IN  [n \in DOMAIN order |-> p[order[n]].frame]

(* emit for every frame pending in the slots I.                            *)
Release(s, I) ==
    [pending |-> [i \in Slots |-> IF i \in I THEN None ELSE s.pending[i]],
     emitted |-> s.emitted \union {s.pending[i].frame : i \in I},
     newly |-> s.newly \o InOrder(s.pending, {i \in I : s.pending[i].frame \notin s.emitted})]

FlushLowerThan(s, k) == Release(s, Lower(s.pending, k))

OutputSuccessive(s, k) == Release(s, Successive(s.pending, k))

Emit(s, f) ==
    [pending |-> [i \in Slots |-> IF i \in Held(s.pending) /\ s.pending[i].frame = f
                                  THEN None ELSE s.pending[i]],
     emitted |-> s.emitted \union {f},
     newly |-> IF f \in s.emitted THEN s.newly ELSE Append(s.newly, f)]

ImmediateInto(s, f, k) == OutputSuccessive(Emit(FlushLowerThan(s, k), f), k)

FlushAll(s) == Release(s, Held(s.pending))

(* Mutant: refresh owes a frame at slots that its update invalidates.      *)
RefreshSlotInvalid(s, i, f, k, implicit, valid) ==
    LET t == IF s.pending[i] = None
             THEN s
             ELSE ImmediateInto(s, s.pending[i].frame, s.pending[i].ordering)
        owed == implicit /\ f \notin t.emitted
    IN  [t EXCEPT !.pending[i] = IF owed THEN [frame |-> f, ordering |-> k] ELSE None]

(* One visited slot of refresh: the displaced frame is output first, which *)
(* may output frame f itself from a slot visited earlier.                  *)
RefreshSlot(s, i, f, k, implicit, valid) ==
    LET t == IF s.pending[i] = None
             THEN s
             ELSE ImmediateInto(s, s.pending[i].frame, s.pending[i].ordering)
        owed == implicit /\ valid /\ f \notin t.emitted
    IN  [t EXCEPT !.pending[i] = IF owed THEN [frame |-> f, ordering |-> k] ELSE None]

-----------------------------------------------------------------------------
(* Which header may come next in a conforming stream.                      *)

(* The header ends an open loop: the first regular picture of a later TU.  *)
EndsOpenLoop(h) == openLoop.active /\ h.first /\ IsRegular(h)

(* Slots finish_open_loop leaves valid.                                    *)
Retained == {i \in Slots : slots[i] # None /\ (i \in loop.flags \/ slots[i].long)}

Flushed == IF openLoop.limit = None THEN Held(pending) ELSE Lower(pending, openLoop.limit)

Usable(h) == IF EndsOpenLoop(h) THEN Retained ELSE {i \in Slots : slots[i] # None}

(* A show-existing frame names a valid slot, and derives its hint only from *)
(* a frame that was stored hidden and has not been shown since.            *)
CanShow(h) ==
    /\ h.slot \in Usable(h)
    /\ h.derive => slots[h.slot].show = "hidden"

(* What the mirrored standard asks of a stream (7.4.4, 6.17); a limit that *)
(* an open loop has never set is undefined in it.                          *)
Conforming(h) ==
    /\ h.kind = "CLK" => h.first
    /\ ~openLoop.active => h.first
    /\ h.kind = "OLK" => h.show # "immediate"
    /\ ~IsKey(h) => Usable(h) # {}
    /\ h.kind \in {"Leading", "LeadingSef"} => openLoop.active /\ loop.flags \cap h.flags = {}
    /\ EndsOpenLoop(h) => openLoop.limit # None
    /\ ~IsSef(h) /\ h.show # "immediate" => h.flags # {}
    /\ IsSef(h) => CanShow(h)

-----------------------------------------------------------------------------
Closed == [active |-> FALSE, limit |-> None]

Init ==
    /\ pending = [i \in Slots |-> None]
    /\ emitted = {}
    /\ openLoop = Closed
    /\ slots = [i \in Slots |-> None]
    /\ loop = None
    /\ phase = "header"
    /\ hdr = None
    /\ new = None
    /\ todo = {}
    /\ out = <<>>

(* The pictures of a list of released frames.                              *)
Pictures(newly) == [n \in DOMAIN newly |-> [frame |-> newly[n], again |-> FALSE]]

Apply(s) ==
    /\ pending' = s.pending
    /\ emitted' = s.emitted
    /\ out' = Pictures(s.newly)

(* The frames some table holds.                                            *)
TrackedBy(p, r) == {p[i].frame : i \in Held(p)} \union {r[i].frame : i \in Held(r)}

Tracked == TrackedBy(pending, slots)

Fresh == CHOOSE f \in Frames : f \notin Tracked

(* Mutant: a frame that refreshes nothing still waits for its slots.       *)
EnterRefresh(h) ==
    /\ phase = "header"
    /\ hdr' = h
    /\ new' = Fresh
    /\ todo' = h.flags
    /\ phase' = "refresh"

(* A new frame is read: the loop's arm for its kind is entered.            *)
Enter(h) ==
    /\ phase = "header"
    /\ hdr' = h
    /\ new' = Fresh
    /\ todo' = h.flags
    /\ phase' = IF h.flags = {} THEN "show" ELSE "refresh"

(* A closed-loop key frame flushes every pending frame and starts both     *)
(* tables again.                                                           *)
StartNewSequence(h) ==
    /\ h.kind = "CLK"
    /\ Conforming(h)
    /\ Enter(h)
    /\ Apply(FlushAll(Tables))
    /\ openLoop' = Closed
    /\ slots' = [i \in Slots |-> None]
    /\ loop' = None

(* Every other frame: prepare_for_frame on both tables, then the slots of  *)
(* a restricted switch.                                                    *)
PrepareForFrame(h) ==
    /\ h.kind # "CLK"
    /\ Conforming(h)
    /\ Enter(h)
    /\ LET ends == EndsOpenLoop(h)
           s == IF ends THEN Release(Tables, Flushed) ELSE Tables
           kept == [i \in Slots |-> IF ends /\ i \notin Retained THEN None ELSE slots[i]]
       IN  /\ Apply(IF h.restricted THEN FlushAll(s) ELSE s)
           /\ slots' = [i \in Slots |->
                           IF h.restricted /\ kept[i] # None
                           THEN [kept[i] EXCEPT !.hint = Restricted]
                           ELSE kept[i]]
           /\ openLoop' = IF ends THEN Closed ELSE openLoop
           /\ loop' = IF ends THEN None ELSE loop

(* refresh and update at the next refreshed slot.  The code runs the two   *)
(* loops one after the other; neither reads the other's table.             *)
Refresh ==
    /\ phase = "refresh"
    /\ \E i \in todo :
        /\ \A j \in todo : i <= j
        /\ LET valid == ~IsKeyOrSwitch(hdr) \/ todo = hdr.flags
           IN  /\ Apply(RefreshSlot(Tables, i, new, hdr.hint, hdr.show = "implicit", valid))
               /\ slots' = [slots EXCEPT ![i] =
                    IF valid
                    THEN [frame |-> new, hint |-> hdr.hint, show |-> hdr.show,
                          long |-> hdr.long]
                    ELSE None]
        /\ todo' = todo \ {i}
    /\ phase' = IF todo' = {} THEN "show" ELSE "refresh"
    /\ UNCHANGED <<openLoop, loop, hdr, new>>

(* note_frame of the scheduler.                                            *)
NoteOutput(h) ==
    IF h.kind = "OLK"
    THEN [active |-> TRUE, limit |-> IF h.show = "implicit" THEN h.hint ELSE None]
    ELSE IF openLoop.active /\ IsRegular(h) /\ ~h.first /\ h.show # "hidden"
         THEN [openLoop EXCEPT !.limit = Ordering(h)]
         ELSE openLoop

(* note_frame of the reference buffer; a show-existing frame has none.     *)
NoteReference(h) ==
    IF h.kind = "OLK"
    THEN [flags |-> h.flags]
    ELSE IF ~h.first /\ h.kind \in {"Regular", "Switch"} /\ loop # None
         THEN [flags |-> loop.flags \union h.flags]
         ELSE loop

(* The last step of a header: the frame itself when it is immediate, then  *)
(* reclamation forgets the frames no table holds.  A show-existing frame   *)
(* is a new frame with the samples of the slot it names.                   *)
Show ==
    /\ phase = "show"
    /\ LET shows == hdr.show = "immediate" /\ new \notin emitted
           s == IF shows THEN ImmediateInto(Tables, new, Ordering(hdr)) ELSE Tables
       IN  /\ pending' = s.pending
           /\ emitted' = s.emitted \cap TrackedBy(s.pending, slots)
           /\ out' = [n \in DOMAIN s.newly |->
                        IF IsSef(hdr) /\ s.newly[n] = new
                        THEN [frame |-> slots[hdr.slot].frame, again |-> TRUE]
                        ELSE Pictures(s.newly)[n]]
    /\ slots' = IF hdr.derive THEN [slots EXCEPT ![hdr.slot].show = "shown"] ELSE slots
    /\ openLoop' = NoteOutput(hdr)
    /\ loop' = NoteReference(hdr)
    /\ phase' = "header"
    /\ hdr' = None
    /\ new' = None
    /\ UNCHANGED todo

(* The stream ends: every pending frame is flushed.                        *)
EndOfStream ==
    /\ phase = "header"
    /\ Apply(FlushAll(Tables))
    /\ phase' = "ended"
    /\ UNCHANGED <<openLoop, slots, loop, hdr, new, todo>>

Next ==
    \/ \E h \in Headers : StartNewSequence(h) \/ PrepareForFrame(h)
    \/ Refresh
    \/ Show
    \/ EndOfStream

Spec == Init /\ [][Next]_vars

-----------------------------------------------------------------------------
(* Properties.                                                             *)

Pendings == [frame : Frames, ordering : Hints]
References == [frame : Frames, hint : Hints \union {Restricted}, show : Shows \union {"shown"},
               long : BOOLEAN]

(* Every variable keeps the shape the code gives it.                       *)
TypeOK ==
    /\ pending \in [Slots -> Pendings \union {None}]
    /\ emitted \subseteq Frames
    /\ openLoop \in [active : BOOLEAN, limit : Hints \union {Restricted, None}]
    /\ slots \in [Slots -> References \union {None}]
    /\ loop \in [flags : SUBSET Slots] \union {None}
    /\ phase \in {"header", "refresh", "show", "ended"}
    /\ hdr \in Headers \union {None}
    /\ new \in Frames \union {None}
    /\ todo \subseteq Slots
    /\ (phase = "refresh") = (todo # {})

(* The slots whose pending frame the reference buffer has given up: past   *)
(* the limit of an open loop, at its end.                                  *)
Stranded == {i \in Held(pending) : slots[i] = None}

(* The slots of the reference buffer whose frame is still to be displayed. *)
Due ==
    {i \in Slots :
        /\ slots[i] # None
        /\ slots[i].show = "implicit"
        /\ slots[i].hint # Restricted
        /\ slots[i].frame \notin emitted}

(* The scheduler and the reference buffer walk the same headers apart:     *)
(* they agree on whether an open loop is running, the scheduler owes every *)
(* frame that a reference slot has still to display, with its hint, and    *)
(* nothing that is out, and what it owes beyond them is in no slot at all: *)
(* no frame is owed on account of a slot it has left while another has it. *)
TablesAgree ==
    /\ openLoop.active <=> loop # None
    /\ Held(pending) = Due \union Stranded
    /\ \A i \in Due :
        pending[i].frame = slots[i].frame /\ pending[i].ordering = slots[i].hint
    /\ \A i \in Stranded :
        /\ pending[i].frame \notin emitted
        /\ \A j \in Slots : slots[j] # None => slots[j].frame # pending[i].frame
=============================================================================
