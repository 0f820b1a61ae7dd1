----------------------------- MODULE RateControl -----------------------------
(***************************************************************************)
(* The ledger of the bitrate controller of rate_control.rs: the frames it  *)
(* was asked a quantizer for, the budget each was promised, and the drift, *)
(* the bits spent beyond the budget.  Sizes are integers, kept in a word   *)
(* of the program where it keeps them in one; the size model that turns    *)
(* the drift into a quantizer is left out.                                 *)
(***************************************************************************)
EXTENDS Integers, Sequences

LOCAL INSTANCE SequencesExt

CONSTANTS
    FrameBits,     \* frame_bits: the mean budget of a frame
    MaxFrameBits,  \* MAX_FRAME_BITS
    FirstPass,     \* the bits of each input frame in a first pass
    PlanCap,       \* how many planned frames are remembered: 64
    Under, Over,   \* drift_limits
    MaxInt         \* i64::MAX

(* The largest budget and the limits of the drift are far below a word.    *)
ASSUME RateAssumption ==
    /\ MaxFrameBits \in Nat /\ FrameBits \in 1 .. MaxFrameBits /\ FirstPass \in Seq(Nat)
    /\ PlanCap \in Nat \ {0} /\ Under \in Nat /\ Over \in Nat
    /\ MaxInt \in Nat /\ Under + Over + MaxFrameBits <= MaxInt

Lesser(m, n) == IF m < n THEN m ELSE n
Greater(m, n) == IF m < n THEN n ELSE m
Clamp(n, low, high) == Lesser(Greater(n, low), high)

(* saturating_add and saturating_sub on 64 bits, given the exact result.   *)
Saturate(n) == Clamp(n, -MaxInt - 1, MaxInt)

(***************************************************************************)
(* A ledger is what the controller keeps between its calls.                *)

NoFrames == [planned |-> <<>>, drift |-> 0, longest |-> 0]

(* Vbr::budget: an input frame's share of the bits of all of them, or the  *)
(* mean past the end of the first pass.                                    *)
Budget(display) ==
    LET total == FoldSeq(+, 0, FirstPass)
    IN  IF display < Len(FirstPass) /\ total > 0
        THEN Lesser((FrameBits * Len(FirstPass) * FirstPass[display + 1]) \div total, MaxFrameBits)
        ELSE FrameBits

(* Vbr::spend.                                                             *)
Spend(drift, bits, budget) ==
    Clamp(Saturate(Saturate(drift + Lesser(bits, MaxInt)) - budget), -Under, Over)

(* Vbr::plan_window, of which a window shorter than an earlier one makes   *)
(* the controller repay the whole drift.                                   *)
PlanWindow(rate, length) == [rate EXCEPT !.longest = Greater(@, length)]
Ending(rate, length) == length < rate.longest

(* Mutant: no planned frame is forgotten.                                  *)
FrameQpKeepsAll(rate, index, display) ==
    [rate EXCEPT !.planned = Append(@, [index |-> index, budget |-> Budget(display)])]

(* Vbr::frame_qp.                                                          *)
FrameQp(rate, index, display) ==
    [rate EXCEPT !.planned =
        Append(IF Len(@) >= PlanCap THEN Tail(@) ELSE @,
               [index |-> index, budget |-> Budget(display)])]

(* Mutant: a frame is charged against the budget planned last.             *)
UpdateLast(rate, index, bits) ==
    [rate EXCEPT !.drift = Spend(@, bits, rate.planned[Len(rate.planned)].budget)]

(* Vbr::update: a frame that is not remembered has the mean budget.        *)
Update(rate, index, bits) ==
    LET own == SelectSeq(rate.planned, LAMBDA p : p.index = index)
    IN  [rate EXCEPT !.drift = Spend(@, bits, IF own = <<>> THEN FrameBits ELSE own[1].budget)]

(* Vbr::update_show_existing.                                              *)
UpdateShowExisting(rate, bits) == [rate EXCEPT !.drift = Spend(@, bits, 0)]
=============================================================================
