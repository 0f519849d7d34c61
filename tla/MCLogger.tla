------------------------------ MODULE MCLogger ------------------------------
(* Small instances of Logger for TLC.                                       *)
EXTENDS Logger
=============================================================================
