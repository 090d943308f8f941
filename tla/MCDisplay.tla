------------------------------- MODULE MCDisplay -------------------------------
(* Display with texts of a digit, of another character and of none, and with   *)
(* numbers on both sides of the limits.  The pins are found as after a start    *)
(* of the board, or as a program left them that was killed.                     *)
EXTENDS Display

MCText   == {<<9, Other>>, <<NUL, 1>>, <<1, NUL>>}
MCNumber == {-1, 100}
MCFound  == {[exported |-> FALSE, dir |-> "in", level |-> 0],
             [exported |-> TRUE, dir |-> "out", level |-> 1]}
===============================================================================
