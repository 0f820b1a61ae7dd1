----------------------------- MODULE MCDecoder ------------------------------
(* Model-checking instances of the streaming decoder. *)
EXTENDS Decoder

(* The second and the fourth unit code pictures shown after the next one. *)
Reordered == [k \in 0 .. 4 |-> IF k \in {2, 4} THEN k - 1 ELSE k]
=============================================================================
