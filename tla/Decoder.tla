------------------------------ MODULE Decoder -------------------------------
(***************************************************************************)
(* The streaming decoder of crates/splot-decode/src/decoder.rs: one caller *)
(* thread that sends temporal units and takes pictures, one driver thread  *)
(* that decodes, and the locked State between them with a condition        *)
(* variable for each side.  An action is one critical section; the notify  *)
(* that follows the unlock is an action of its own.                        *)
(*                                                                         *)
(* Units are numbered as they are accepted.  Unit k codes picture k of the *)
(* display order, and once the driver has decoded k units the pictures     *)
(* 1 .. Shown[k] are in order to be shown: a unit can show none, one or    *)
(* several.  A picture that is in order is handed over when its frame has  *)
(* settled, which may be a later unit or the end of the stream.            *)
(***************************************************************************)
EXTENDS Naturals, Sequences

CONSTANTS
    Capacity,   \* input_capacity and output_capacity, the frame delay
    MaxInput,   \* MaxInputBytes, in units
    Shown,      \* pictures the first k units put in display order
    MayFail,    \* whether decoding may return an error
    MayPanic    \* whether the driver may unwind

ASSUME DecoderAssumption ==
    /\ Capacity \in Nat \ {0, 1}
    /\ MaxInput \in Nat
    /\ Shown \in [0 .. MaxInput -> Nat]
    /\ \A k \in 0 .. MaxInput : Shown[k] <= k
    /\ MayFail \in BOOLEAN /\ MayPanic \in BOOLEAN

VARIABLES
    input,      \* State::input, the units the driver has not taken
    output,     \* State::output, the pictures the caller has not taken
    sent,       \* State::sent_bytes, in units
    draining,   \* State::draining
    closing,    \* State::closing
    outcome,    \* State::outcome
    error,      \* the error inside Outcome::Failed, "none" once returned
    cpc,        \* control point of the caller
    reply,      \* what the caller's last call returned
    got,        \* pictures the caller took
    dpc,        \* control point of the driver
    taken,      \* units the driver took
    emitted,    \* pictures the driver handed over
    ending,     \* next_unit returned None to the frame loop
    result      \* what emit_frames returned

stateVars  == <<input, output, sent, draining, closing, outcome, error>>
callerVars == <<cpc, reply, got>>
driverVars == <<dpc, taken, emitted, ending, result>>
vars == <<stateVars, callerVars, driverVars>>

Init ==
    /\ input = <<>> /\ output = <<>> /\ sent = 0
    /\ draining = FALSE /\ closing = FALSE
    /\ outcome = "running" /\ error = "none"
    /\ cpc = "idle" /\ reply = "uncalled" /\ got = 0
    /\ dpc = "next" /\ taken = 0 /\ emitted = 0
    /\ ending = FALSE /\ result = "ok"

-----------------------------------------------------------------------------
(* The caller.  The decoder is not shared: one call at a time.             *)

(* State::take_failure, returned at once: the error, then Failed. *)
TakeFailure ==
    /\ reply' = IF error = "decode" THEN "error" ELSE "failed"
    /\ error' = "none"
    /\ cpc' = "idle"
    /\ UNCHANGED <<input, output, sent, draining, closing, outcome, got>>

Answer(value) ==
    /\ reply' = value
    /\ cpc' = "idle"
    /\ UNCHANGED <<stateVars, got>>

(* Mutant: the unit that reaches the limit takes the input past it. *)
SendDataPastLimit(empty) ==
    /\ cpc = "idle"
    /\ \/ outcome = "failed" /\ TakeFailure
       \/ /\ outcome # "failed"
          /\ draining \/ outcome # "running"
          /\ Answer("draining")
       \/ /\ outcome = "running" /\ ~draining
          /\ Len(input) >= Capacity
          /\ Answer("full")
       \/ /\ outcome = "running" /\ ~draining
          /\ Len(input) < Capacity
          /\ \/ empty /\ Answer("accepted")
             \/ ~empty /\ sent > MaxInput /\ Answer("limit")
             \/ /\ ~empty /\ sent <= MaxInput
                /\ sent' = sent + 1
                /\ input' = Append(input, sent + 1)
                /\ reply' = "accepted"
                /\ cpc' = "bump"
                /\ UNCHANGED <<output, draining, closing, outcome, error, got>>
    /\ UNCHANGED driverVars

(* Mutant: no unit is refused as Full. *)
SendDataNeverFull(empty) ==
    /\ cpc = "idle"
    /\ \/ outcome = "failed" /\ TakeFailure
       \/ /\ outcome # "failed"
          /\ draining \/ outcome # "running"
          /\ Answer("draining")
       \/ /\ outcome = "running" /\ ~draining
          /\ \/ empty /\ Answer("accepted")
             \/ ~empty /\ sent >= MaxInput /\ Answer("limit")
             \/ /\ ~empty /\ sent < MaxInput
                /\ sent' = sent + 1
                /\ input' = Append(input, sent + 1)
                /\ reply' = "accepted"
                /\ cpc' = "bump"
                /\ UNCHANGED <<output, draining, closing, outcome, error, got>>
    /\ UNCHANGED driverVars

(* send_data of a unit, or of no bytes. *)
SendData(empty) ==
    /\ cpc = "idle"
    /\ \/ outcome = "failed" /\ TakeFailure
       \/ /\ outcome # "failed"
          /\ draining \/ outcome # "running"
          /\ Answer("draining")
       \/ /\ outcome = "running" /\ ~draining
          /\ Len(input) >= Capacity
          /\ Answer("full")
       \/ /\ outcome = "running" /\ ~draining
          /\ Len(input) < Capacity
          /\ \/ empty /\ Answer("accepted")
             \/ ~empty /\ sent >= MaxInput /\ Answer("limit")
             \/ /\ ~empty /\ sent < MaxInput
                /\ sent' = sent + 1
                /\ input' = Append(input, sent + 1)
                /\ reply' = "accepted"
                /\ cpc' = "bump"
                /\ UNCHANGED <<output, draining, closing, outcome, error, got>>
    /\ UNCHANGED driverVars

(* Mutant: the call gives up although the decoder takes no more units. *)
GetPictureGivesUp ==
    /\ cpc \in {"idle", "woken"}
    /\ \/ /\ output # <<>>
          /\ output' = Tail(output)
          /\ got' = got + 1
          /\ reply' = "picture"
          /\ cpc' = "bump"
          /\ UNCHANGED <<input, sent, draining, closing, outcome, error>>
       \/ output = <<>> /\ outcome = "finished" /\ Answer("none")
       \/ output = <<>> /\ outcome = "failed" /\ TakeFailure
       \/ /\ output = <<>> /\ outcome = "running"
          /\ ~draining /\ Len(input) <= Capacity
          /\ Answer("none")
       \/ /\ output = <<>> /\ outcome = "running"
          /\ draining \/ Len(input) > Capacity
          /\ cpc' = "wait"
          /\ UNCHANGED <<stateVars, reply, got>>
    /\ UNCHANGED driverVars

(* The body of get_picture's loop: on the call, and again when woken. *)
GetPicture ==
    /\ cpc \in {"idle", "woken"}
    /\ \/ /\ output # <<>>
          /\ output' = Tail(output)
          /\ got' = got + 1
          /\ reply' = "picture"
          /\ cpc' = "bump"
          /\ UNCHANGED <<input, sent, draining, closing, outcome, error>>
       \/ output = <<>> /\ outcome = "finished" /\ Answer("none")
       \/ output = <<>> /\ outcome = "failed" /\ TakeFailure
       \/ /\ output = <<>> /\ outcome = "running"
          /\ ~draining /\ Len(input) < Capacity
          /\ Answer("none")
       \/ /\ output = <<>> /\ outcome = "running"
          /\ draining \/ Len(input) >= Capacity
          /\ cpc' = "wait"
          /\ UNCHANGED <<stateVars, reply, got>>
    /\ UNCHANGED driverVars

Drain ==
    /\ cpc = "idle"
    /\ draining' = TRUE
    /\ cpc' = "bump"
    /\ UNCHANGED <<input, output, sent, closing, outcome, error, reply, got, driverVars>>

Drop ==
    /\ cpc = "idle"
    /\ closing' = TRUE
    /\ output' = <<>>
    /\ cpc' = "bump"
    /\ UNCHANGED <<input, sent, draining, outcome, error, reply, got, driverVars>>

(* Shared::bump after the unlock: driver.notify_all, then out of the call, *)
(* or on with the drop.                                                    *)
Bump ==
    /\ cpc = "bump"
    /\ dpc' = IF dpc = "wait" THEN "next" ELSE dpc
    /\ cpc' = IF closing THEN "outcome" ELSE "idle"
    /\ UNCHANGED <<stateVars, reply, got, taken, emitted, ending, result>>

(* Drop waits for the driver's outcome, then joins it. *)
AwaitOutcome ==
    /\ cpc \in {"outcome", "outcomeWoken"}
    /\ cpc' = IF outcome = "running" THEN "outcomeWait" ELSE "join"
    /\ UNCHANGED <<stateVars, reply, got, driverVars>>

Join ==
    /\ cpc = "join"
    /\ dpc = "exited"
    /\ cpc' = "gone"
    /\ UNCHANGED <<stateVars, reply, got, driverVars>>

Call == (\E empty \in BOOLEAN : SendData(empty)) \/ GetPicture \/ Drain \/ Drop

(* Steps of a call that has started. *)
InCall == Bump \/ AwaitOutcome \/ Join \/ (cpc = "woken" /\ GetPicture)

-----------------------------------------------------------------------------
(* The driver: emit_frames over ChannelUnits and push_picture.             *)

Stay == UNCHANGED <<reply, got>>

(* caller.notify_all after the unlock, then on to the given point. *)
WakeCaller(at, next) ==
    /\ dpc = at
    /\ cpc' = CASE cpc = "wait" -> "woken"
                [] cpc = "outcomeWait" -> "outcomeWoken"
                [] OTHER -> cpc
    /\ dpc' = next
    /\ UNCHANGED <<stateVars, reply, got, taken, emitted, ending, result>>

(* Mutant: draining ends the stream before the held units are taken. *)
NextUnitDrainsFirst ==
    /\ dpc = "next"
    /\ \/ /\ closing \/ (Len(output) < Capacity /\ draining)
          /\ ending' = TRUE
          /\ dpc' = "work"
          /\ UNCHANGED <<stateVars, taken>>
       \/ /\ ~closing /\ ~draining /\ Len(output) < Capacity /\ input # <<>>
          /\ taken' = Head(input)
          /\ input' = Tail(input)
          /\ dpc' = "tellTaken"
          /\ UNCHANGED <<output, sent, draining, closing, outcome, error, ending>>
       \/ /\ ~closing
          /\ Len(output) >= Capacity \/ (input = <<>> /\ ~draining)
          /\ dpc' = "wait"
          /\ UNCHANGED <<stateVars, taken, ending>>
    /\ UNCHANGED <<callerVars, emitted, result>>

(* The body of next_unit's loop. *)
NextUnit ==
    /\ dpc = "next"
    /\ \/ /\ closing \/ (Len(output) < Capacity /\ input = <<>> /\ draining)
          /\ ending' = TRUE
          /\ dpc' = "work"
          /\ UNCHANGED <<stateVars, taken>>
       \/ /\ ~closing /\ Len(output) < Capacity /\ input # <<>>
          /\ taken' = Head(input)
          /\ input' = Tail(input)
          /\ dpc' = "tellTaken"
          /\ UNCHANGED <<output, sent, draining, closing, outcome, error, ending>>
       \/ /\ ~closing
          /\ Len(output) >= Capacity \/ (input = <<>> /\ ~draining)
          /\ dpc' = "wait"
          /\ UNCHANGED <<stateVars, taken, ending>>
    /\ UNCHANGED <<callerVars, emitted, result>>

(* Pictures in display order that are not handed over yet. *)
Due == (IF ending THEN taken ELSE Shown[taken]) - emitted

(* push_picture: the next picture whose frame has settled. *)
PushPicture ==
    /\ dpc = "work"
    /\ Due > 0
    /\ emitted' = emitted + 1
    /\ output' = IF closing THEN output ELSE Append(output, emitted + 1)
    /\ dpc' = "tellPicture"
    /\ UNCHANGED <<input, sent, draining, closing, outcome, error, callerVars,
                   taken, ending, result>>

(* The frame loop asks for the next unit; what is in order but not settled *)
(* stays owed.                                                             *)
Proceed ==
    /\ dpc = "work" /\ ~ending
    /\ dpc' = "next"
    /\ UNCHANGED <<stateVars, callerVars, taken, emitted, ending, result>>

(* The frame loop has ended and flushed every picture, or it fails with    *)
(* the pictures it still owed.                                             *)
Return ==
    /\ dpc = "work"
    /\ \/ ending /\ Due = 0 /\ result' = "ok"
       \/ MayFail /\ result' = "decode"
    /\ dpc' = "finish"
    /\ UNCHANGED <<stateVars, callerVars, taken, emitted, ending>>

(* The driver unwinds; DriverGuard still runs. *)
Panic ==
    /\ MayPanic
    /\ dpc = "work"
    /\ result' = "failed"
    /\ dpc' = "guard"
    /\ UNCHANGED <<stateVars, callerVars, taken, emitted, ending>>

(* Mutant: ending the session also drops the pictures it produced. *)
FinishDropsPictures(at, value) ==
    /\ dpc = at
    /\ outcome' = IF outcome # "running" THEN outcome
                  ELSE IF value = "ok" THEN "finished" ELSE "failed"
    /\ error' = IF outcome = "running" /\ value # "ok" THEN value ELSE error
    /\ input' = <<>>
    /\ output' = <<>>
    /\ dpc' = IF at = "finish" THEN "tellFinish" ELSE "tellGuard"
    /\ UNCHANGED <<sent, draining, closing, callerVars, taken, emitted, ending, result>>

(* Shared::finish, from the driver's closure and from the guard. *)
Finish(at, value) ==
    /\ dpc = at
    /\ outcome' = IF outcome # "running" THEN outcome
                  ELSE IF value = "ok" THEN "finished" ELSE "failed"
    /\ error' = IF outcome = "running" /\ value # "ok" THEN value ELSE error
    /\ input' = <<>>
    /\ dpc' = IF at = "finish" THEN "tellFinish" ELSE "tellGuard"
    /\ UNCHANGED <<output, sent, draining, closing, callerVars, taken, emitted, ending, result>>

(* Mutant: an unwinding driver records no outcome. *)
GuardForgotten ==
    /\ dpc = "guard"
    /\ dpc' = "exited"
    /\ UNCHANGED <<stateVars, callerVars, taken, emitted, ending, result>>

Guard == Finish("guard", "failed")

DriverStep ==
    \/ NextUnit \/ WakeCaller("tellTaken", "work")
    \/ PushPicture \/ WakeCaller("tellPicture", "work")
    \/ Proceed \/ Return \/ Panic
    \/ Finish("finish", result) \/ WakeCaller("tellFinish", "guard")
    \/ Guard \/ WakeCaller("tellGuard", "exited")

Terminated == cpc = "gone" /\ UNCHANGED vars

Next == Call \/ InCall \/ DriverStep \/ Terminated

Spec == Init /\ [][Next]_vars

(* The driver thread keeps running, and so does a caller inside a call;    *)
(* nothing makes the caller start one.                                     *)
FairSpec == Spec /\ WF_vars(DriverStep) /\ WF_vars(InCall)

-----------------------------------------------------------------------------
(* Properties *)

TypeOK ==
    /\ input \in Seq(1 .. MaxInput) /\ output \in Seq(1 .. MaxInput)
    /\ sent \in 0 .. MaxInput
    /\ draining \in BOOLEAN /\ closing \in BOOLEAN /\ ending \in BOOLEAN
    /\ outcome \in {"running", "finished", "failed"}
    /\ error \in {"none", "decode", "failed"}
    /\ cpc \in {"idle", "bump", "wait", "woken", "outcome", "outcomeWait",
                "outcomeWoken", "join", "gone"}
    /\ reply \in {"uncalled", "accepted", "full", "draining", "limit",
                  "picture", "none", "error", "failed"}
    /\ dpc \in {"next", "wait", "tellTaken", "work", "tellPicture", "finish",
                "tellFinish", "guard", "tellGuard", "exited"}
    /\ taken \in 0 .. MaxInput /\ emitted \in 0 .. MaxInput /\ got \in 0 .. MaxInput
    /\ result \in {"ok", "decode", "failed"}

(* The units the driver took, then those it holds, are the accepted units  *)
(* in order, and it never holds more than the capacity it reports          *)
(* (decoder.rs:32-35), until an outcome throws them away.                  *)
UnitsInOrder ==
    /\ Len(input) <= Capacity
    /\ outcome = "running" => input = [i \in 1 .. sent - taken |-> taken + i]

(* The caller gets the pictures in display order, each once, and no        *)
(* outcome of the session takes away a picture already handed over: it     *)
(* holds what the driver emitted beyond what the caller took.              *)
PicturesInOrder ==
    /\ got <= emitted /\ emitted <= taken
    /\ ~closing => output = [i \in 1 .. emitted - got |-> got + i]

(* "None when the decoder needs more data to make progress"                *)
(* (decoder.rs:445-448): after it, the next unit is not refused as Full.   *)
NoneAsksForData ==
    reply = "none" /\ outcome = "running" => draining \/ Len(input) < Capacity

(* "or, after drain, when every picture was taken": a drained session that *)
(* ends well has given the caller, or holds for it, the picture of every   *)
(* unit it accepted.                                                       *)
DrainedGivesEverything ==
    draining /\ outcome = "finished" /\ ~closing => got + Len(output) = sent

(* No call blocks for ever.  A caller that waits in get_picture is woken   *)
(* by a picture, by room for a unit, or by the end of the session, a panic *)
(* included; the drop stops the driver wherever it is and returns          *)
(* (decoder.rs:482-483).                                                   *)
CallsReturn ==
    /\ cpc \in {"wait", "woken"} ~> cpc \in {"idle", "bump"}
    /\ closing ~> cpc = "gone"
=============================================================================
