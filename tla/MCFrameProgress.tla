-------------------------- MODULE MCFrameProgress --------------------------
(* A 4:2:0 frame of nine rows in three stripes over three superblock rows: *)
(* the last stripe and its chroma are cut short, deblocking trails the     *)
(* seal, a window needs rows of the next stripe, and each link makes the   *)
(* job of one stripe while earlier stripes may still run.                  *)
EXTENDS FrameProgress

MCEnds == <<2, 6, 9>>
MCSealed == <<6, 8, 9>>
MCFinal == <<4, 8, 9>>
MCNeed == [r \in Readers |-> IF r = "near" THEN 2 ELSE 7]
=============================================================================
