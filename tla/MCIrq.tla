------------------------------- MODULE MCIrq -------------------------------
(* Two threads and a ring of two slots; a handler can be interrupted at    *)
(* its iretq once.                                                         *)
EXTENDS Irq
====
