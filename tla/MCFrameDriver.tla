--------------------------- MODULE MCFrameDriver ---------------------------
(* Instances of FrameDriver for TLC.                                       *)
EXTENDS FrameDriver

Header(k, r, s) == [kind |-> k, refresh |-> r, restart |-> FALSE, show |-> s]

(* A frame of every kind the loop defers, stored or not, and every way to  *)
(* show one; the key frame is the one decoded in the loop.                 *)
Menu ==
    {Header("split", Slots, "implicit"), Header("split", {}, "immediate"),
     Header("tip", Slots, "immediate"), Header("sef", {}, "immediate"),
     [kind |-> "walk", refresh |-> Slots, restart |-> TRUE, show |-> "hidden"]}

(* Bounds of a step beside the constants.  Slots lose their frames behind  *)
(* an open loop with a ring of one only.  A fifth frame is one that fills  *)
(* the store: a stored one, in a stream whose split slots are left with    *)
(* the handles of two other frames.  Where a step is cut off the loop has  *)
(* another one (the end of the stream, slots that keep their frames), so   *)
(* the bounds leave it waiting nowhere.                                    *)
Bounds ==
    /\ pc = "prepared" /\ depth = 2 => hdr.restart \/ UNCHANGED slot
    /\ pc = "header" /\ count = 4 /\ pc' = "prepared" =>
        /\ splits = <<2, 4>> /\ refs[2] = {1} /\ refs[4] = {3}
        /\ hdr'.kind = "tip" /\ Failed = {}

(* Stored frames decoded by the loop and by split slots in turn.           *)
InTurn == {Header("split", {}, "immediate"), Header("inline", Slots, "immediate")}

====
