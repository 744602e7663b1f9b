------------------------------ MODULE MCIntset ------------------------------
(***************************************************************************)
(* Instances of Intset for TLC.  With four values a cell, an int16_t is in *)
(* -2..1, an int32_t in -8..7 and an int64_t in -128..127.                 *)
(***************************************************************************)
EXTENDS Intset

\* Both ends of each width, and values between.
MCValue == {-128, -9, -3, -2, 0, 1, 2, 7, 36, 127}
=============================================================================
