---------------------------- MODULE MCWavefront -----------------------------
(* A tile of three by three superblocks, the smallest with a first, an     *)
(* inner and a last row and column.                                        *)
EXTENDS Wavefront
=============================================================================
