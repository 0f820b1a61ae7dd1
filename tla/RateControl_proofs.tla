------------------------ MODULE RateControl_proofs ------------------------
(***************************************************************************)
(* The ledger of the rate controller keeps the exact drift.                *)
(***************************************************************************)
EXTENDS RateControl, TLAPS

(* The limits are a range of integers within a word.                       *)
LEMMA LimitsFit ==
    /\ Under \in Nat /\ Over \in Nat /\ MaxInt \in Nat
    /\ FrameBits \in 1 .. MaxFrameBits /\ MaxFrameBits \in Nat
    /\ Under + Over + MaxFrameBits <= MaxInt
  BY RateAssumption

(* Vbr::spend (rate_control.rs:334-341) never wraps, and its saturation    *)
(* never shows: for every drift within the limits, every size of a frame   *)
(* and every budget, the drift after is the exact sum held within the      *)
(* limits, also for a size past 64 bits.                                   *)
THEOREM SpendIsExact ==
    ASSUME NEW drift \in -Under .. Over, NEW bits \in Nat, NEW budget \in 0 .. MaxFrameBits
    PROVE  /\ Spend(drift, bits, budget) = Clamp(drift + bits - budget, -Under, Over)
           /\ Spend(drift, bits, budget) \in -Under .. Over
<1> USE LimitsFit
<1>1. CASE bits <= MaxInt - Over
  <2>1. Lesser(bits, MaxInt) = bits
    BY <1>1 DEF Lesser
  <2>2. Saturate(drift + bits) = drift + bits
    BY <1>1 DEF Saturate, Clamp, Lesser, Greater
  <2>3. Saturate(drift + bits - budget) = drift + bits - budget
    BY <1>1 DEF Saturate, Clamp, Lesser, Greater
  <2>4. Spend(drift, bits, budget) = Clamp(drift + bits - budget, -Under, Over)
    BY <2>1, <2>2, <2>3 DEF Spend
  <2> QED
    BY <2>4 DEF Clamp, Lesser, Greater
<1>2. CASE bits > MaxInt - Over
  <2> DEFINE spent == Saturate(drift + Lesser(bits, MaxInt))
  <2>1. spent \in Int /\ spent - budget >= MaxInt - Over - Under - MaxFrameBits
    BY <1>2 DEF Saturate, Clamp, Lesser, Greater
  <2> QED
    BY <1>2, <2>1 DEF Spend, Saturate, Clamp, Lesser, Greater
<1> QED
  BY <1>1, <1>2

=============================================================================
