------------------------- MODULE MCEncoderFrontEnd -------------------------
(***************************************************************************)
(* The encoder front end with the slots, hint bits and queue of the code.  *)
(***************************************************************************)
EXTENDS EncoderFrontEnd

MCSettings ==
    {[keyint |-> 300, gop |-> 32, look |-> 32, frames |-> 270, cuts |-> 0, sizes |-> {5}],
     [keyint |-> 20, gop |-> 8, look |-> 16, frames |-> 26, cuts |-> 1, sizes |-> {0, 5}],
     [keyint |-> 6, gop |-> 3, look |-> 5, frames |-> 12, cuts |-> 2, sizes |-> {0, 5}],
     [keyint |-> 3, gop |-> 1, look |-> 2, frames |-> 7, cuts |-> 2, sizes |-> {0, 5}]}

MCFirstPass == <<1, 3, 0, 2, 2, 4>>
=============================================================================
