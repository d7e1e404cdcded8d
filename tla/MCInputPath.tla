----------------------------- MODULE MCInputPath -----------------------------
(* A letter, a modifier, the two keys the line discipline acts on, a key   *)
(* the driver does not know, one with a prefix and one with a long         *)
(* sequence; rings so small that each of them overflows.                   *)
EXTENDS InputPath

MCWorks == {"kbd", "selftest"}
MCKeys == {"A", "LEFTSHIFT", "ENTER", "BACKSPACE", "SYSRQ", "UP", "PAUSE"}
====
