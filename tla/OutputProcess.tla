--------------------------- MODULE OutputProcess ---------------------------
(***************************************************************************)
(* What a decoder displays and in what order, as the standard mirrored in  *)
(* src/docs/spec/av2/1.0.0 prescribes: the reference frame update process  *)
(* (7.23), the output processes (7.21.3 to 7.21.6), the decision of 7.2    *)
(* and the output steps of the frame header (5.18.2).  A slot whose        *)
(* RefValid is 0 holds None.  The processes are the standard's own loops;  *)
(* the frame being decoded is number new and is displayed as itself.       *)
(*                                                                         *)
(* Three constants name the places where a decoder may read the standard   *)
(* another way; the values given beside them are the standard's.           *)
(***************************************************************************)
EXTENDS Integers, Sequences

CONSTANTS
    NumSlots,
    None,
    Restricted,       \* RESTRICTED_OH in a reference slot
    RestrictedOrder,  \* its place among the hints: -1
    FirstOfTies,      \* a flush takes the first of tied slots: FALSE
    KeepsOwed         \* a slot that loses its frame still outputs it: FALSE

VARIABLES
    ref,      \* the reference slots: frame, hint, implicit, long, lost
    shown,    \* stored implicit frames the output process has output
    olk,      \* OlkEncountered, OlkTUOrderHint and OlkRefresh
    phase,
    hdr,      \* the frame header being decoded
    new,
    todo,     \* slots the update process has still to visit
    out       \* pictures output by the last step

vars == <<ref, shown, olk, phase, hdr, new, todo, out>>

Slots == 0 .. NumSlots - 1

RECURSIVE Flush(_, _), OutputLower(_, _), OutputMatching(_, _, _),
          OutputSuccessive(_, _, _), RestrictFrom(_, _)

(* The state an output process works on.                                   *)
Now == [ref |-> ref, shown |-> shown, out |-> <<>>]

Eligible(s, i) ==
    /\ s.ref[i] # None
    /\ s.ref[i].implicit
    /\ s.ref[i].frame \notin s.shown
    /\ s.ref[i].hint # Restricted

(* 7.21.1 for a stored frame.                                              *)
OutputSlot(s, i) ==
    [s EXCEPT !.shown = @ \union {s.ref[i].frame},
              !.out = Append(@, [frame |-> s.ref[i].frame, again |-> FALSE])]

(* The search of 7.21.5 among tied slots: its `<=` takes the last.         *)
Sooner(i, j) == IF FirstOfTies THEN i <= j ELSE i >= j

(* 7.21.5: a slot of the smallest output order.                            *)
Flush(s, limit) ==
    LET able == {i \in Slots : Eligible(s, i) /\ (limit = None \/ s.ref[i].hint < limit)}
    IN  IF able = {} THEN s
        ELSE LET i == CHOOSE i \in able : \A j \in able :
                        \/ s.ref[i].hint < s.ref[j].hint
                        \/ s.ref[i].hint = s.ref[j].hint /\ Sooner(i, j)
             IN  Flush(OutputSlot(s, i), limit)

(* 7.21.6, first part: the first slot among those of the smallest hint.    *)
OutputLower(s, k) ==
    LET able == {i \in Slots : Eligible(s, i) /\ s.ref[i].hint < k}
    IN  IF able = {} THEN s
        ELSE LET i == CHOOSE i \in able : \A j \in able :
                        \/ s.ref[i].hint < s.ref[j].hint
                        \/ s.ref[i].hint = s.ref[j].hint /\ i <= j
             IN  OutputLower(OutputSlot(s, i), k)

(* 7.21.4 from slot i on.                                                  *)
OutputMatching(s, i, target) ==
    IF i = NumSlots THEN s
    ELSE OutputMatching(
            IF Eligible(s, i) /\ s.ref[i].hint = target THEN OutputSlot(s, i) ELSE s,
            i + 1, target)

(* 7.21.3 from the k-th successor on.                                      *)
OutputSuccessive(s, hint, k) ==
    LET t == OutputMatching(s, 0, hint + k)
    IN  IF k > NumSlots \/ t = s THEN s ELSE OutputSuccessive(t, hint, k + 1)

(* 7.21.6 for a stored frame, and for the picture of the current frame.    *)
OutputStored(s, i) ==
    OutputSuccessive(OutputSlot(OutputLower(s, s.ref[i].hint), i), s.ref[i].hint, 1)

OutputPicture(s, picture, f, hint) ==
    LET t == OutputLower(s, hint)
    IN  OutputSuccessive([t EXCEPT !.shown = @ \union f, !.out = Append(@, picture)], hint, 1)

(* 5.18.2 for a restricted switch, from slot i on.                         *)
RestrictFrom(s, i) ==
    IF i = NumSlots THEN s
    ELSE LET t == IF Eligible(s, i) THEN OutputStored(s, i) ELSE s
         IN  RestrictFrom(
                IF t.ref[i] = None THEN t ELSE [t EXCEPT !.ref[i].hint = Restricted], i + 1)

-----------------------------------------------------------------------------
NoOlk == [encountered |-> FALSE, limit |-> None, refresh |-> {}]

Init ==
    /\ ref = [i \in Slots |-> None]
    /\ shown = {}
    /\ olk = NoOlk
    /\ phase = "header"
    /\ hdr = None
    /\ new = None
    /\ todo = {}
    /\ out = <<>>

(* The slots after s; a lost frame is gone once it is out.                 *)
Slotted(s) ==
    [i \in Slots |->
        IF s.ref[i] # None /\ s.ref[i].lost /\ s.ref[i].frame \in s.shown
        THEN None ELSE s.ref[i]]

Becomes(s) ==
    /\ ref' = Slotted(s)
    /\ shown' = s.shown
    /\ out' = s.out

IsSef(h) == h.kind \in {"RegularSef", "LeadingSef"}
IsRegular(h) == h.kind \in {"OLK", "Regular", "Switch", "RegularSef"}

(* The header is parsed: a closed-loop key frame flushes and starts anew,  *)
(* the first regular picture after an open-loop key frame flushes up to    *)
(* the limit and invalidates, a restricted switch marks every slot.        *)
Header(h) ==
    /\ phase = "header"
    /\ h # None
    /\ new' \notin {ref[i].frame : i \in {j \in Slots : ref[j] # None}}
    /\ todo' = h.flags
    /\ phase' = IF h.flags = {} THEN "show" ELSE "refresh"
    /\ LET ends == olk.encountered /\ h.first /\ IsRegular(h)
           s == IF ends THEN Flush(Now, olk.limit) ELSE Now
           t == [s EXCEPT !.ref = [i \in Slots |->
                    IF ~ends \/ s.ref[i] = None \/ i \in olk.refresh \/ s.ref[i].long
                    THEN s.ref[i]
                    ELSE IF KeepsOwed /\ Eligible(s, i)
                    THEN [s.ref[i] EXCEPT !.lost = TRUE] ELSE None]]
       IN  IF h.kind = "CLK"
           THEN Becomes([Flush(Now, None) EXCEPT !.ref = [i \in Slots |-> None]])
           ELSE Becomes(IF h.restricted THEN RestrictFrom(t, 0) ELSE t)
    /\ olk' = IF h.kind = "CLK" \/ (olk.encountered /\ h.first /\ IsRegular(h))
              THEN NoOlk ELSE olk

(* 7.23 for the next slot.                                                 *)
Update ==
    /\ phase = "refresh"
    /\ \E i \in todo :
        /\ \A j \in todo : i <= j
        /\ todo' = todo \ {i}
        /\ LET s == IF Eligible(Now, i) THEN OutputStored(Now, i) ELSE Now
               keySwitch == hdr.kind \in {"CLK", "OLK", "Switch"}
           IN  Becomes([s EXCEPT !.ref[i] =
                IF keySwitch /\ todo # hdr.flags THEN None
                ELSE [frame |-> new, hint |-> hdr.hint, implicit |-> hdr.show = "implicit",
                      long |-> hdr.long, lost |-> FALSE]])
    /\ phase' = IF todo' = {} THEN "show" ELSE "refresh"
    /\ UNCHANGED <<olk, hdr, new>>

(* 7.2: the decision that ends the frame, and what its header noted of an  *)
(* open loop.  What was output is remembered as long as a slot holds it.   *)
Decide ==
    /\ phase = "show"
    /\ LET stored == ref[hdr.slot].hint
           hint == IF ~hdr.derive THEN hdr.hint
                   ELSE IF stored = Restricted THEN RestrictedOrder ELSE stored
           s == IF IsSef(hdr)
                THEN OutputPicture(Now, [frame |-> ref[hdr.slot].frame, again |-> TRUE], {}, hint)
                ELSE IF hdr.show = "immediate" /\ new \notin shown
                THEN OutputPicture(Now, [frame |-> new, again |-> FALSE], {new}, hint)
                ELSE Now
       IN  /\ ref' = Slotted(s)
           /\ shown' = {f \in s.shown : \E i \in Slots : ref'[i] # None /\ ref'[i].frame = f}
           /\ out' = s.out
           /\ olk' =
                IF hdr.kind = "OLK"
                THEN [encountered |-> TRUE, refresh |-> hdr.flags,
                      limit |-> IF hdr.show = "implicit" THEN hdr.hint ELSE None]
                ELSE IF olk.encountered /\ IsRegular(hdr) /\ ~hdr.first
                THEN [olk EXCEPT !.refresh = @ \union hdr.flags,
                                 !.limit = IF hdr.show = "hidden" THEN @ ELSE hint]
                ELSE olk
    /\ phase' = "header"
    /\ hdr' = None
    /\ new' = None
    /\ UNCHANGED todo

(* After all other OBUs.                                                   *)
End ==
    /\ phase = "header"
    /\ Becomes(Flush(Now, None))
    /\ phase' = "ended"
    /\ UNCHANGED <<olk, hdr, new, todo>>

Next == Header(hdr') \/ Update \/ Decide \/ End

Spec == Init /\ [][Next]_vars
=============================================================================
