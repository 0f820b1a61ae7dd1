---------------------------- MODULE MCSplitFrame ----------------------------
(* Instances of SplitFrame for TLC.                                        *)
EXTENDS SplitFrame

(* Every frame refers to the one before it.                                *)
Chained == [f \in Frames |-> f - 1]

(* Which frame may be refused what.  A failed parse has two frames behind  *)
(* it and a failed link one before and one behind it; the last frame fails *)
(* in the stages whose failure the others meet in the same publications.   *)
SomeMayFail ==
    {<<1, "PARSE">>, <<2, "FRONTIER">>, <<3, "ATTACH">>, <<3, "FILTER">>, <<3, "OUTPUT">>}

ParseMayFail == {<<1, "PARSE">>}
=============================================================================
