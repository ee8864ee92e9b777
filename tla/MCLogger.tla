------------------------------ MODULE MCLogger ------------------------------
(* Ints around the ranges of a 3-bit int and of a 3-bit unsigned.          *)
EXTENDS Logger

MCLevels == -9..9
=============================================================================
