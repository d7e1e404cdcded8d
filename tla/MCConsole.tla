------------------------------ MODULE MCConsole ------------------------------
(* A thread and what interrupts it print on a screen of two by two cells   *)
(* with a margin, on one lower than a cell, and on none.                   *)
EXTENDS Console, TLC

MCScreens == {<<15, 20>>, <<15, 8>>, <<0, 0>>}

(* No operator tells the printers apart.                                   *)
MCSymmetry == Permutations(Printers)
====
