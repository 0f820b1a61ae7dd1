--------------------------- MODULE MCOutputOrder ---------------------------
(***************************************************************************)
(* The output tables checked against the standard's output processes.      *)
(* A reference slot of the code stands for the standard's slot, what was   *)
(* emitted for what was shown, and the two open-loop records for OLK       *)
(* state.                                                                  *)
(***************************************************************************)
EXTENDS OutputOrder

(* The streams: key frames start them with every slot refreshed, leading   *)
(* frames refresh one slot, hidden frames have the middle hint (a derived  *)
(* output of one finds lower, equal and following frames), and a switch,   *)
(* which leaves nothing pending, the largest.                              *)
Menu ==
    {h \in AllHeaders :
        /\ WellFormed(h)
        /\ ~h.long
        /\ h.kind = "CLK" => h.flags = Slots /\ h.hint = 0
        /\ h.kind = "Leading" => h.show # "hidden" /\ \E i \in Slots : h.flags = {i}
        /\ h.kind = "Switch" => h.restricted
        /\ h.kind \in {"OLK", "Switch", "Leading", "LeadingSef"} => h.first
        /\ h.show = "hidden" => h.first /\ h.hint = 1
        /\ h.kind = "Switch" => h.hint = 2 /\ h.show # "hidden"}

(* The standard's reference slots, read off the tables.  In the second     *)
(* reading a slot that has lost its frame keeps it while the frame is      *)
(* pending.                                                                *)
Valid(i) ==
    [frame |-> slots[i].frame, hint |-> slots[i].hint,
     implicit |-> slots[i].show = "implicit", long |-> slots[i].long, lost |-> FALSE]

Owing(i) ==
    [frame |-> pending[i].frame, hint |-> pending[i].ordering,
     implicit |-> TRUE, long |-> FALSE, lost |-> TRUE]

(* OlkEncountered, OlkTUOrderHint and OlkRefresh; restricted is the place  *)
(* of RESTRICTED_OH among the hints.                                       *)
Olk(restricted) ==
    [encountered |-> openLoop.active,
     limit |-> IF openLoop.limit = Restricted THEN restricted ELSE openLoop.limit,
     refresh |-> IF loop = None THEN {} ELSE loop.flags]

Standard == INSTANCE OutputProcess WITH
    RestrictedOrder <- -1, FirstOfTies <- FALSE, KeepsOwed <- FALSE,
    ref <- [i \in Slots |-> IF slots[i] = None THEN None ELSE Valid(i)],
    shown <- emitted, olk <- Olk(-1)

(* The standard with the three changes the code makes to it.               *)
Changed == INSTANCE OutputProcess WITH
    RestrictedOrder <- Restricted, FirstOfTies <- TRUE, KeepsOwed <- TRUE,
    ref <- [i \in Slots |-> IF slots[i] # None THEN Valid(i)
                            ELSE IF pending[i] # None THEN Owing(i) ELSE None],
    shown <- emitted, olk <- Olk(Restricted)

(* The situations in which a change can show: two owed frames of one hint, *)
(* at a flush; an owed frame that its slot has lost, in an earlier step or *)
(* at the end of an open loop that the header is; a show-existing frame    *)
(* that takes its hint from a restricted slot, or an open loop whose limit *)
(* came from one.                                                          *)
Tied ==
    /\ phase = "header"
    /\ \E i, j \in Held(pending) :
        pending[i].ordering = pending[j].ordering /\ pending[i].frame # pending[j].frame

Losing ==
    \/ Stranded # {}
    \/ /\ phase = "header"
       /\ hdr' # None
       /\ EndsOpenLoop(hdr')
       /\ ~(Held(pending) \subseteq Flushed \union Retained)

RestrictedShown ==
    \/ phase = "show" /\ hdr.derive /\ slots[hdr.slot].hint = Restricted
    \/ phase = "header" /\ openLoop.limit = Restricted

(* Every picture leaves in the step, and in the place, the standard's      *)
(* output processes give it; in the three situations, the place the        *)
(* changed standard gives it (flush_lower_than and prepare_for_frame take  *)
(* the first of a minimum, finish_open_loop does not tell the scheduler, a *)
(* restricted slot has the hint u32::MAX), and in no other.                *)
FollowsTheStandard ==
    /\ Standard!Init
    /\ [][\/ Standard!Next
          \/ (Tied \/ Losing \/ RestrictedShown) /\ Changed!Next]_vars

(* What the step before released decides nothing.                          *)
WithoutOutput == <<pending, emitted, openLoop, slots, loop, phase, hdr, new, todo>>
=============================================================================
