--------------------------- MODULE Decoder_proofs ---------------------------
(***************************************************************************)
(* Proofs about the streaming decoder for every capacity, input limit and  *)
(* display order.  The order of units and pictures is inductive only with  *)
(* the phase of the session: which control points the driver may be at     *)
(* before and after it records an outcome, and what it had decoded by the  *)
(* time its frame loop ended.                                              *)
(***************************************************************************)
EXTENDS Decoder, SequenceTheorems, TLAPS

(* Control points of the driver once an outcome is recorded. *)
After == {"tellFinish", "guard", "tellGuard", "exited"}

Phase ==
    /\ taken <= sent
    /\ outcome # "running" => dpc \in After
    /\ dpc \in After => outcome # "running" \/ dpc = "guard"
    /\ closing => cpc \notin {"idle", "wait", "woken"} /\ output = <<>>
    /\ ending => closing \/ (draining /\ taken = sent)
    /\ (dpc = "finish" /\ result = "ok") \/ outcome = "finished" => ending /\ emitted = taken

DInv ==
    /\ TypeOK /\ UnitsInOrder /\ PicturesInOrder /\ NoneAsksForData /\ Phase

LEMMA Constants == Capacity \in Nat /\ Capacity > 1 /\ MaxInput \in Nat
  BY DecoderAssumption

LEMMA InitDInv == Init => DInv
<1> SUFFICES ASSUME Init PROVE DInv
  OBVIOUS
<1> USE Constants DEF Init
<1>1. TypeOK
  <2>1. draining \in BOOLEAN /\ closing \in BOOLEAN /\ ending \in BOOLEAN
    OBVIOUS
  <2>2. input \in Seq(1 .. MaxInput) /\ output \in Seq(1 .. MaxInput)
    OBVIOUS
  <2>3. /\ sent \in 0 .. MaxInput /\ taken \in 0 .. MaxInput
        /\ emitted \in 0 .. MaxInput /\ got \in 0 .. MaxInput
    OBVIOUS
  <2>4. QED
    BY <2>1, <2>2, <2>3 DEF TypeOK
<1>2. UnitsInOrder
  BY DEF UnitsInOrder
<1>3. PicturesInOrder
  BY DEF PicturesInOrder
<1>4. NoneAsksForData /\ Phase
  BY DEF NoneAsksForData, Phase, After
<1>5. QED
  BY <1>1, <1>2, <1>3, <1>4 DEF DInv

(* Steps that only move the two threads between their control points. *)
LEMMA QuietDInv ==
  ASSUME DInv, Bump \/ AwaitOutcome \/ Join \/ Proceed \/ Return \/ Panic
               \/ WakeCaller("tellTaken", "work") \/ WakeCaller("tellPicture", "work")
               \/ WakeCaller("tellFinish", "guard") \/ WakeCaller("tellGuard", "exited")
  PROVE  DInv'
<1>1. UNCHANGED <<stateVars, reply, got, taken, emitted, ending>>
  BY DEF Bump, AwaitOutcome, Join, Proceed, Return, Panic, WakeCaller, driverVars, callerVars
<1>2. TypeOK' /\ Phase'
  <2> USE <1>1 DEF DInv, stateVars
  <2>1. CASE Bump
    BY <2>1 DEF Bump, TypeOK, Phase, After
  <2>2. CASE AwaitOutcome \/ Join
    BY <2>2 DEF AwaitOutcome, Join, TypeOK, Phase, After, driverVars
  <2>3. CASE Proceed \/ Panic
    BY <2>3 DEF Proceed, Panic, TypeOK, Phase, After, callerVars
  <2>4. CASE Return
    BY <2>4 DEF Return, Due, TypeOK, Phase, After, callerVars
  <2>5. CASE WakeCaller("tellTaken", "work") \/ WakeCaller("tellPicture", "work")
    BY <2>5 DEF WakeCaller, TypeOK, Phase, After
  <2>6. CASE WakeCaller("tellFinish", "guard") \/ WakeCaller("tellGuard", "exited")
    BY <2>6 DEF WakeCaller, TypeOK, Phase, After
  <2>7. QED
    BY <2>1, <2>2, <2>3, <2>4, <2>5, <2>6
<1>3. UnitsInOrder' /\ PicturesInOrder' /\ NoneAsksForData'
  BY <1>1 DEF DInv, stateVars, UnitsInOrder, PicturesInOrder, NoneAsksForData
<1>4. QED
  BY <1>2, <1>3 DEF DInv

(* Handing one more over appends the one that follows.                     *)
LEMMA AppendNext ==
  ASSUME NEW s \in Seq(1 .. MaxInput), NEW m \in Nat, NEW n \in Nat, m <= n, n < MaxInput,
         s = [i \in 1 .. n - m |-> m + i]
  PROVE  /\ Append(s, n + 1) \in Seq(1 .. MaxInput) /\ Len(Append(s, n + 1)) = Len(s) + 1
         /\ Append(s, n + 1) = [i \in 1 .. (n + 1) - m |-> m + i]
<1>1. Len(s) = n - m
  OBVIOUS
<1>2. n + 1 \in 1 .. MaxInput
  BY Constants
<1>3. QED
  BY <1>1, <1>2, Constants

(* The calls of the caller.  Accepting a unit is the one that counts: the  *)
(* unit goes behind those the driver has not taken.                        *)
LEMMA AnswerDInv ==
  ASSUME DInv, cpc \in {"idle", "woken"},
         UNCHANGED <<input, output, sent, draining, closing, outcome, got, driverVars>>,
         reply' \in {"accepted", "full", "draining", "limit", "error", "failed"},
         error' \in {"none", error}, cpc' = "idle"
  PROVE  DInv'
<1>2. TypeOK' /\ Phase'
  BY DEF DInv, TypeOK, Phase, driverVars
<1>3. UnitsInOrder' /\ PicturesInOrder' /\ NoneAsksForData'
  BY DEF DInv, UnitsInOrder, PicturesInOrder, NoneAsksForData, driverVars
<1>4. QED
  BY <1>2, <1>3 DEF DInv

LEMMA SendDInv ==
  ASSUME DInv, NEW empty \in BOOLEAN, SendData(empty)
  PROVE  DInv'
<1>1. CASE \/ TakeFailure \/ Answer("draining") \/ Answer("full")
           \/ Answer("accepted") \/ Answer("limit")
  <2>1. /\ cpc = "idle" /\ UNCHANGED driverVars
        /\ UNCHANGED <<input, output, sent, draining, closing, outcome, got>>
        /\ reply' \in {"accepted", "full", "draining", "limit", "error", "failed"}
        /\ error' \in {"none", error} /\ cpc' = "idle"
    BY <1>1 DEF SendData, Answer, TakeFailure, stateVars
  <2>2. QED
    BY <2>1, AnswerDInv
<1>2. CASE /\ outcome = "running" /\ ~draining
           /\ Len(input) < Capacity /\ sent < MaxInput
           /\ sent' = sent + 1
           /\ input' = Append(input, sent + 1)
           /\ reply' = "accepted"
           /\ cpc' = "bump"
           /\ UNCHANGED <<output, draining, closing, outcome, error, got>>
  <2>1. UNCHANGED driverVars
    BY DEF SendData
  <2>2. /\ sent \in Nat /\ taken \in Nat /\ taken <= sent /\ input \in Seq(1 .. MaxInput)
        /\ input = [i \in 1 .. sent - taken |-> taken + i]
    BY <1>2, Constants DEF DInv, TypeOK, Phase, UnitsInOrder
  <2>3. /\ input' \in Seq(1 .. MaxInput) /\ sent' \in 0 .. MaxInput
        /\ Len(input') = Len(input) + 1
    BY <1>2, <2>2, Constants
  <2>4. input' = [i \in 1 .. sent' - taken |-> taken + i]
    <3>1. Len(input) = sent - taken
      BY <2>2
    <3>2. QED
      BY <1>2, <2>2, <3>1
  <2>5. TypeOK'
    BY <1>2, <2>1, <2>3 DEF DInv, TypeOK, driverVars
  <2>6. Phase'
    BY <1>2, <2>1, <2>2 DEF DInv, Phase, driverVars
  <2>7. UnitsInOrder' /\ PicturesInOrder' /\ NoneAsksForData'
    <3>1. Len(input') <= Capacity
      BY <1>2, <2>2, <2>3, Constants
    <3>2. QED
      BY <1>2, <2>1, <2>4, <3>1 DEF DInv, UnitsInOrder, PicturesInOrder, NoneAsksForData, driverVars
  <2>8. QED
    BY <2>5, <2>6, <2>7 DEF DInv
<1>3. QED
  BY <1>1, <1>2 DEF SendData

(* Taking a picture removes the first of those in order. *)
LEMMA TakePicture ==
  ASSUME NEW s \in Seq(1 .. MaxInput), NEW m \in Nat, NEW n \in Nat, m <= n,
         s = [i \in 1 .. n - m |-> m + i], s # <<>>
  PROVE  /\ Head(s) = m + 1 /\ m < n
         /\ Tail(s) \in Seq(1 .. MaxInput) /\ Len(Tail(s)) = Len(s) - 1
         /\ Tail(s) = [i \in 1 .. n - (m + 1) |-> (m + 1) + i]
<1>1. Len(s) = n - m
  OBVIOUS
<1>2. n - m > 0
  BY <1>1
<1>3. Head(s) = s[1] /\ s[1] = m + 1
  BY <1>2
<1>4. /\ Len(Tail(s)) = Len(s) - 1 /\ Tail(s) \in Seq(1 .. MaxInput)
      /\ \A i \in 1 .. Len(Tail(s)) : Tail(s)[i] = s[i + 1]
  BY HeadTailProperties
<1>5. Tail(s) \in [1 .. n - (m + 1) -> 1 .. MaxInput]
  <2>1. Tail(s) \in [1 .. Len(Tail(s)) -> 1 .. MaxInput]
    BY <1>4, LenProperties
  <2>2. Len(Tail(s)) = n - (m + 1)
    BY <1>1, <1>2, <1>4
  <2>3. QED
    BY <2>1, <2>2
<1>6. Tail(s) = [i \in 1 .. n - (m + 1) |-> (m + 1) + i]
  <2>1. ASSUME NEW i \in 1 .. n - (m + 1) PROVE Tail(s)[i] = (m + 1) + i
    BY <1>1, <1>2, <1>4
  <2>2. QED
    BY <1>5, <2>1
<1>7. QED
  BY <1>2, <1>3, <1>4, <1>6

LEMMA GetPictureDInv == ASSUME DInv, GetPicture PROVE DInv'
<1>0. ~closing /\ UNCHANGED driverVars
  BY DEF GetPicture, DInv, Phase
<1>1. CASE /\ output # <<>>
           /\ output' = Tail(output)
           /\ got' = got + 1
           /\ reply' = "picture"
           /\ cpc' = "bump"
           /\ UNCHANGED <<input, sent, draining, closing, outcome, error>>
  <2>1. /\ output \in Seq(1 .. MaxInput) /\ got \in Nat /\ emitted \in 0 .. MaxInput /\ got <= emitted
        /\ output = [i \in 1 .. emitted - got |-> got + i]
    BY <1>0, Constants DEF DInv, TypeOK, PicturesInOrder
  <2>2. /\ got < emitted /\ output' \in Seq(1 .. MaxInput)
        /\ output' = [i \in 1 .. emitted - (got + 1) |-> (got + 1) + i]
    <3>1. emitted \in Nat /\ got \in Nat
      BY <2>1, Constants
    <3>2. QED
      BY <1>1, <2>1, <3>1, TakePicture
  <2>3. got' \in 0 .. MaxInput
    BY <1>1, <2>1, <2>2, Constants
  <2>4. TypeOK'
    BY <1>0, <1>1, <2>2, <2>3 DEF DInv, TypeOK, driverVars
  <2>5. Phase'
    BY <1>0, <1>1 DEF DInv, Phase, driverVars
  <2>6. PicturesInOrder'
    BY <1>0, <1>1, <2>1, <2>2, Constants DEF DInv, PicturesInOrder, driverVars
  <2>7. UnitsInOrder' /\ NoneAsksForData'
    BY <1>0, <1>1 DEF DInv, UnitsInOrder, NoneAsksForData, driverVars
  <2>8. QED
    BY <2>4, <2>5, <2>6, <2>7 DEF DInv
<1>2. CASE /\ \/ /\ UNCHANGED <<stateVars, got>> /\ reply' = "none" /\ cpc' = "idle"
                 /\ outcome = "running" => Len(input) < Capacity
              \/ /\ UNCHANGED <<stateVars, reply, got>> /\ cpc' = "wait"
  <2>1. TypeOK'
    BY <1>0, <1>2 DEF DInv, TypeOK, driverVars, stateVars
  <2>2. Phase'
    BY <1>0, <1>2 DEF DInv, Phase, driverVars, stateVars
  <2>3. UnitsInOrder' /\ PicturesInOrder' /\ NoneAsksForData'
    BY <1>0, <1>2 DEF DInv, UnitsInOrder, PicturesInOrder, NoneAsksForData, driverVars, stateVars
  <2>4. QED
    BY <2>1, <2>2, <2>3 DEF DInv
<1>3. CASE TakeFailure
  <2>1. /\ cpc \in {"idle", "woken"}
        /\ UNCHANGED <<input, output, sent, draining, closing, outcome, got>>
        /\ reply' \in {"error", "failed"} /\ error' \in {"none", error} /\ cpc' = "idle"
    BY <1>3 DEF GetPicture, TakeFailure
  <2>2. QED
    BY <1>0, <2>1, AnswerDInv
<1>4. QED
  BY <1>1, <1>2, <1>3 DEF GetPicture, Answer

LEMMA DrainDropDInv == ASSUME DInv, Drain \/ Drop PROVE DInv'
<1>1. /\ UNCHANGED <<input, sent, outcome, error, reply, got, driverVars>>
      /\ cpc' = "bump" /\ draining' \in {TRUE, draining} /\ closing' \in {TRUE, closing}
      /\ \/ output' = output /\ closing' = closing /\ draining' = TRUE
         \/ output' = <<>> /\ closing' = TRUE /\ draining' = draining
      /\ ~closing
  BY DEF Drain, Drop, DInv, Phase
<1>2. TypeOK'
  <2>1. output' \in Seq(1 .. MaxInput)
    <3>1. output \in Seq(1 .. MaxInput) /\ <<>> \in Seq(1 .. MaxInput)
      BY DEF DInv, TypeOK
    <3>2. QED
      BY <1>1, <3>1
  <2>2. draining' \in BOOLEAN /\ closing' \in BOOLEAN
    BY <1>1 DEF DInv, TypeOK
  <2>3. QED
    BY <1>1, <2>1, <2>2 DEF DInv, TypeOK, driverVars
<1>3. Phase'
  BY <1>1 DEF DInv, Phase, driverVars
<1>4. UnitsInOrder' /\ PicturesInOrder' /\ NoneAsksForData'
  BY <1>1 DEF DInv, UnitsInOrder, PicturesInOrder, NoneAsksForData, driverVars
<1>5. QED
  BY <1>2, <1>3, <1>4 DEF DInv

-----------------------------------------------------------------------------
(* The steps of the driver that touch the shared state. *)

LEMMA NextUnitDInv == ASSUME DInv, NextUnit PROVE DInv'
<1>0. /\ outcome = "running" /\ dpc = "next" /\ UNCHANGED <<callerVars, emitted, result>>
      /\ input \in Seq(1 .. MaxInput) /\ sent \in 0 .. MaxInput /\ taken \in Nat /\ taken <= sent
      /\ input = [i \in 1 .. sent - taken |-> taken + i] /\ Len(input) <= Capacity
  BY Constants DEF NextUnit, DInv, TypeOK, Phase, UnitsInOrder, After
<1>1. CASE /\ ~closing /\ input # <<>>
           /\ taken' = Head(input)
           /\ input' = Tail(input)
           /\ dpc' = "tellTaken"
           /\ UNCHANGED <<output, sent, draining, closing, outcome, error, ending>>
  <2>1. /\ taken' = taken + 1 /\ taken < sent
        /\ input' \in Seq(1 .. MaxInput) /\ Len(input') = Len(input) - 1
        /\ input' = [i \in 1 .. sent - (taken + 1) |-> (taken + 1) + i]
    <3>1. sent \in Nat /\ taken \in Nat
      BY <1>0, Constants
    <3>2. QED
      BY <1>0, <1>1, <3>1, TakePicture
  <2>2. taken' \in 0 .. MaxInput /\ Len(input') \in Nat
    BY <1>0, <2>1, Constants
  <2>3. TypeOK'
    BY <1>0, <1>1, <2>1, <2>2 DEF DInv, TypeOK, callerVars
  <2>4. ~ending
    BY <1>0, <1>1, <2>1 DEF DInv, Phase, TypeOK
  <2>5. Phase'
    BY <1>0, <1>1, <2>1, <2>4, Constants DEF DInv, Phase, callerVars, After
  <2>6. UnitsInOrder' /\ NoneAsksForData'
    BY <1>0, <1>1, <2>1, <2>2, Constants DEF DInv, UnitsInOrder, NoneAsksForData, callerVars
  <2>7. PicturesInOrder'
    BY <1>0, <1>1, <2>1, Constants DEF DInv, TypeOK, PicturesInOrder, callerVars
  <2>8. QED
    BY <2>3, <2>5, <2>6, <2>7 DEF DInv
<1>2. CASE /\ UNCHANGED <<stateVars, taken>>
           /\ \/ /\ closing \/ (input = <<>> /\ draining)
                 /\ ending' = TRUE /\ dpc' = "work"
              \/ dpc' = "wait" /\ ending' = ending
  <2>1. TypeOK'
    <3>1. ending' \in BOOLEAN
      BY <1>2 DEF DInv, TypeOK
    <3>2. QED
      BY <1>0, <1>2, <3>1 DEF DInv, TypeOK, callerVars, stateVars
  <2>2. input = <<>> => taken = sent
    <3>1. Len(input) = sent - taken
      BY <1>0
    <3>2. QED
      BY <1>0, <3>1
  <2>3. Phase'
    BY <1>0, <1>2, <2>2 DEF DInv, Phase, callerVars, stateVars, After
  <2>4. UnitsInOrder' /\ PicturesInOrder' /\ NoneAsksForData'
    BY <1>0, <1>2 DEF DInv, UnitsInOrder, PicturesInOrder, NoneAsksForData, callerVars, stateVars
  <2>5. QED
    BY <2>1, <2>3, <2>4 DEF DInv
<1>3. QED
  BY <1>0, <1>1, <1>2 DEF NextUnit

LEMMA PushDInv == ASSUME DInv, PushPicture PROVE DInv'
<1>1. /\ UNCHANGED <<input, sent, draining, closing, outcome, error, callerVars,
                     taken, ending, result>>
      /\ dpc = "work" /\ dpc' = "tellPicture" /\ emitted' = emitted + 1
      /\ output' = IF closing THEN output ELSE Append(output, emitted + 1)
  BY DEF PushPicture
<1>2. /\ emitted \in Nat /\ taken \in 0 .. MaxInput /\ got \in Nat /\ got <= emitted
      /\ output \in Seq(1 .. MaxInput)
      /\ ~closing => output = [i \in 1 .. emitted - got |-> got + i]
  BY Constants DEF DInv, TypeOK, PicturesInOrder
<1>3. emitted < taken
  BY <1>2, DecoderAssumption DEF PushPicture, Due
<1>4. emitted' \in 0 .. MaxInput /\ emitted < MaxInput
  BY <1>1, <1>2, <1>3, Constants
<1>5. /\ output' \in Seq(1 .. MaxInput)
      /\ ~closing => output' = [i \in 1 .. emitted' - got |-> got + i]
  <2>1. CASE closing
    BY <1>1, <1>2, <2>1
  <2>2. CASE ~closing
    <3>1. output' = Append(output, emitted + 1)
      BY <1>1, <2>2
    <3>2. QED
      BY <1>1, <1>2, <1>4, <2>2, <3>1, AppendNext
  <2>3. QED
    BY <2>1, <2>2
<1>6. TypeOK'
  BY <1>1, <1>4, <1>5 DEF DInv, TypeOK, callerVars
<1>7. Phase'
  BY <1>1 DEF DInv, Phase, callerVars, After
<1>8. UnitsInOrder' /\ NoneAsksForData'
  BY <1>1 DEF DInv, UnitsInOrder, NoneAsksForData, callerVars
<1>9. PicturesInOrder'
  BY <1>1, <1>2, <1>3, <1>5 DEF PicturesInOrder, callerVars
<1>10. QED
  BY <1>6, <1>7, <1>8, <1>9 DEF DInv

LEMMA FinishDInv ==
  ASSUME DInv, Finish("finish", result) \/ Guard
  PROVE  DInv'
<1>1. /\ UNCHANGED <<output, sent, draining, closing, callerVars, taken, emitted, ending, result>>
      /\ input' = <<>> /\ dpc \in {"finish", "guard"} /\ dpc' \in {"tellFinish", "tellGuard"}
  BY DEF Finish, Guard
<1>2. /\ outcome' \in {"finished", "failed"}
      /\ outcome' = "finished" => outcome = "finished" \/ (dpc = "finish" /\ result = "ok")
      /\ error' \in {error, result, "failed"} /\ (error' = result => error' # "ok" \/ error' = error)
  BY DEF Finish, Guard, DInv, TypeOK
<1>3. TypeOK'
  <2>1. input' \in Seq(1 .. MaxInput)
    BY <1>1
  <2>2. error' \in {"none", "decode", "failed"}
    BY <1>2 DEF DInv, TypeOK
  <2>3. QED
    BY <1>1, <1>2, <2>1, <2>2 DEF DInv, TypeOK, callerVars
<1>4. Phase'
  BY <1>1, <1>2 DEF DInv, Phase, callerVars, After
<1>5. UnitsInOrder' /\ PicturesInOrder' /\ NoneAsksForData'
  BY <1>1, <1>2, Constants DEF DInv, UnitsInOrder, PicturesInOrder, NoneAsksForData, callerVars
<1>6. QED
  BY <1>3, <1>4, <1>5 DEF DInv

-----------------------------------------------------------------------------
(* The theorems *)

LEMMA NextDInv == DInv /\ [Next]_vars => DInv'
<1> SUFFICES ASSUME DInv, [Next]_vars PROVE DInv'
  OBVIOUS
<1>1. CASE Call
  BY <1>1, SendDInv, GetPictureDInv, DrainDropDInv DEF Call
<1>2. CASE InCall
  BY <1>2, QuietDInv, GetPictureDInv DEF InCall
<1>3. CASE DriverStep
  BY <1>3, QuietDInv, NextUnitDInv, PushDInv, FinishDInv DEF DriverStep
<1>4. CASE UNCHANGED vars
  BY <1>4 DEF vars, stateVars, callerVars, driverVars, DInv, TypeOK, UnitsInOrder,
              PicturesInOrder, NoneAsksForData, Phase
<1>5. QED
  BY <1>1, <1>2, <1>3, <1>4 DEF Next, Terminated

THEOREM SpecDInv == Spec => []DInv
<1>1. QED
  BY InitDInv, NextDInv, PTL DEF Spec

(* No counter of the session passes the input limit, and every queue holds *)
(* units and pictures of the stream.                                       *)
THEOREM DecoderTypeCorrect == Spec => []TypeOK
<1>1. DInv => TypeOK
  BY DEF DInv
<1>2. QED
  BY <1>1, SpecDInv, PTL

(* The driver takes the accepted units in order and the decoder holds at   *)
(* most its capacity of them.                                              *)
THEOREM UnitsStayInOrder == Spec => []UnitsInOrder
<1>1. DInv => UnitsInOrder
  BY DEF DInv
<1>2. QED
  BY <1>1, SpecDInv, PTL

(* The caller gets each picture once and in display order, and an error or *)
(* a panic of the driver loses none it has handed over.                    *)
THEOREM PicturesStayInOrder == Spec => []PicturesInOrder
<1>1. DInv => PicturesInOrder
  BY DEF DInv
<1>2. QED
  BY <1>1, SpecDInv, PTL

(* After get_picture returned None the decoder has room for a unit.        *)
THEOREM NoneMeansRoom == Spec => []NoneAsksForData
<1>1. DInv => NoneAsksForData
  BY DEF DInv
<1>2. QED
  BY <1>1, SpecDInv, PTL

(* A drained session that ended well lost no picture.                      *)
THEOREM DrainLosesNothing == Spec => []DrainedGivesEverything
<1>1. DInv => DrainedGivesEverything
  <2> SUFFICES ASSUME DInv, draining, outcome = "finished", ~closing
               PROVE  got + Len(output) = sent
    BY DEF DrainedGivesEverything
  <2>1. emitted = taken /\ taken = sent
    BY DEF DInv, Phase
  <2>2. /\ got \in Nat /\ emitted \in Nat /\ got <= emitted
        /\ output = [i \in 1 .. emitted - got |-> got + i]
    BY Constants DEF DInv, TypeOK, PicturesInOrder
  <2>3. Len(output) = emitted - got
    BY <2>2
  <2>4. QED
    BY <2>1, <2>2, <2>3
<1>2. QED
  BY <1>1, SpecDInv, PTL
=============================================================================
