------------------------------ MODULE GopPlanner ------------------------------
(***************************************************************************)
(* The reference structure of an encoded stream, gop.rs: which input       *)
(* frames are key frames, in which order the frames of a mini-GOP are      *)
(* coded, which slot each refreshes and when a hidden frame is shown.  A   *)
(* planner is a record, and each method an operator from a planner to the  *)
(* next one.  Frames are their display index.                              *)
(***************************************************************************)
EXTENDS Integers, Sequences

LOCAL INSTANCE SequencesExt
LOCAL INSTANCE FiniteSetsExt

CONSTANTS
    NumSlots,  \* REF_SLOTS
    MaxGop,    \* the longest mini-GOP
    None

ASSUME PlannerAssumption == NumSlots \in Nat \ {0} /\ MaxGop \in Nat \ {0}

Slots == 0 .. NumSlots - 1
Held(slots) == {i \in Slots : slots[i] # None}
Empty == [i \in Slots |-> None]

NewPlanner ==
    [slots |-> Empty, next |-> 0, frame |-> 0, key |-> 0, scheduled |-> 0, cuts |-> {},
     afterOutput |-> TRUE, last |-> 0, steps |-> <<>>, ok |-> TRUE]

(***************************************************************************)
(* Key frames.                                                             *)

NextKey(p) == Min(p.cuts \cup {p.scheduled})

(* Mutant: the scheduled key frames before a cut do not count.             *)
ForceKeyAfterCut(p, keyint, gop, display) ==
    LET latest == Max(p.cuts \cup {p.key})
    IN  IF display >= p.next /\ display - latest >= gop
        THEN [p EXCEPT !.cuts = @ \cup {display}] ELSE p

(* A scene cut is a key frame, unless it comes too soon after the one      *)
(* before it, which is a cut, the last key, or one that will be scheduled. *)
ForceKey(p, keyint, gop, display) ==
    LET latest == Max(p.cuts \cup {p.key})
        before == ((display - latest) \div keyint) * keyint + latest
    IN  IF display >= p.next /\ display - before >= gop
        THEN [p EXCEPT !.cuts = @ \cup {display}] ELSE p

(* The frames the next plan takes of those queued, 0 for none yet.         *)
NextLen(p, gop, queued, ended) ==
    LET toKey == NextKey(p) - p.next
        wanted == IF toKey <= 0 THEN 1 ELSE Min({toKey, gop})
    IN  IF queued > 0 /\ (queued >= wanted \/ ended) THEN Min({queued, wanted}) ELSE 0

(***************************************************************************)
(* The order of a mini-GOP, by the distance from the frame before it: the  *)
(* last frame of a span, those between, then that frame is shown.          *)

CodeItem(at, layer, shown) == [op |-> "code", at |-> at, layer |-> layer, shown |-> shown]
ShowItem(at) == [op |-> "show", at |-> at, layer |-> 0, shown |-> TRUE]

Moved(items, by, deeper) ==
    [i \in DOMAIN items |-> [items[i] EXCEPT !.at = @ + by, !.layer = @ + deeper]]

(* Mutant: the last frame of a span is shown before those between.        *)
PlaceShowsFirst(n, between) ==
    IF n = 1 THEN <<CodeItem(1, 0, TRUE)>>
    ELSE <<CodeItem(n, 0, FALSE), ShowItem(n)>> \o Moved(between, 0, 1)

Place(n, between) ==
    IF n = 1 THEN <<CodeItem(1, 0, TRUE)>>
    ELSE <<CodeItem(n, 0, FALSE)>> \o Moved(between, 0, 1) \o <<ShowItem(n)>>

Fill[n \in 0 .. MaxGop] ==
    LET middle == n \div 2
    IN  IF n <= 1 THEN <<>>
        ELSE Place(middle, Fill[middle]) \o Moved(Fill[n - middle], middle, 1)

(***************************************************************************)
(* Slots.                                                                  *)

(* An empty slot, else that of the oldest frame which is not waiting to be *)
(* shown and not the newest one shown when coded: no slot or one, as no    *)
(* frame is in two slots.                                                  *)
RefreshSlot(slots) ==
    LET shown == {slots[i].display : i \in {j \in Held(slots) : slots[j].shown}}
        old == {i \in Held(slots) : ~slots[i].awaiting
                                       /\ (shown # {} => slots[i].display # Max(shown))}
    IN  IF Held(slots) # Slots THEN {Min(Slots \ Held(slots))}
        ELSE {i \in old : \A j \in old : slots[i].display <= slots[j].display}

(* The slot whose CDFs a frame starts from: the closest layer not above    *)
(* its own, another frame rather than the key frame, the closest in        *)
(* display order, the lower slot.                                          *)
PrimarySlot(slots, key, display, layer) ==
    LET Least(S, Rank(_)) == {i \in S : \A j \in S : Rank(i) <= Rank(j)}
        below == {i \in Held(slots) : slots[i].layer <= layer}
        nearLayer == Least(below, LAMBDA i : layer - slots[i].layer)
        noKey == Least(nearLayer, LAMBDA i : IF slots[i].display = key THEN 1 ELSE 0)
        near == Least(noKey, LAMBDA i : LET d == slots[i].display - display
                                        IN  IF d < 0 THEN -d ELSE d)
    IN  IF near = {} THEN None ELSE Min(near)

(* Mutant: no frame shown when coded is kept.                              *)
IsLeafAlways(p, display, layer, shown) == shown /\ layer > 0

(* A frame no other is predicted from, but the last before the end of its  *)
(* mini-GOP, which is kept so that hints count from a recent frame.        *)
IsLeaf(p, display, layer, shown) == shown /\ layer > 0 /\ display + 1 # p.last

(* The plan of one coded frame.                                            *)
Code(p, display, isKey, shown, layer) ==
    LET key == IF isKey THEN display ELSE p.key
        slots == IF isKey THEN Empty ELSE p.slots
        leaf == ~isKey /\ IsLeaf(p, display, layer, shown)
        slot == CASE isKey -> {0} [] leaf -> {} [] OTHER -> RefreshSlot(slots)
        held == [display |-> display, layer |-> layer, awaiting |-> ~shown, shown |-> shown]
        step == [op |-> "code", frame |-> p.frame, display |-> display, key |-> isKey,
                 hint |-> display - key, shown |-> shown, layer |-> layer,
                 refresh |-> IF isKey THEN Slots ELSE slot, refs |-> Held(slots),
                 primary |-> PrimarySlot(slots, key, display, layer), opens |-> p.afterOutput]
    IN  [p EXCEPT !.slots = [i \in Slots |-> IF i \in slot THEN held ELSE slots[i]],
                  !.frame = @ + 1, !.key = key, !.afterOutput = shown,
                  !.steps = Append(@, step), !.ok = @ /\ (isKey \/ leaf \/ slot # {})]

(* The show-existing frame that ends a span, from the slot that holds it.  *)
Show(p, display) ==
    LET at == {i \in Held(p.slots) : p.slots[i].display = display /\ p.slots[i].awaiting}
    IN  IF at = {} THEN [p EXCEPT !.ok = FALSE]
        ELSE [p EXCEPT !.slots[Min(at)].awaiting = FALSE, !.afterOutput = TRUE,
                       !.steps = Append(@, [op |-> "show", slot |-> Min(at), display |-> display])]

(* The steps of the next frames, at least one; an error leaves ok false.   *)
Plan(p, keyint, length) ==
    LET first == p.next
        last == first + length - 1
        isKey == first = NextKey(p)
        fresh == [p EXCEPT !.steps = <<>>]
        keyed == IF isKey
                 THEN Code([fresh EXCEPT !.cuts = {c \in @ : c > first},
                                         !.scheduled = first + keyint], first, TRUE, TRUE, 0)
                 ELSE fresh
        anchor == IF isKey THEN first ELSE first - 1
        items == IF last > anchor
                 THEN Place(last - anchor, Fill[last - anchor]) ELSE <<>>
        Next(q, item) ==
            CASE ~q.ok -> q
              [] q.ok /\ item.op = "code" ->
                    Code(q, anchor + item.at, FALSE, item.shown, item.layer)
              [] OTHER -> Show(q, anchor + item.at)
    IN  [FoldLeft(Next, IF last > anchor THEN [keyed EXCEPT !.last = last] ELSE keyed, items)
            EXCEPT !.next = last + 1]

(* The first wave of some steps: up to a frame that refreshes a slot.      *)
WaveLen(steps) ==
    LET ends == {i \in DOMAIN steps : steps[i].op = "code" /\ steps[i].refresh # {}}
    IN  IF ends = {} THEN Len(steps) ELSE Min(ends)
=============================================================================
