------------------------------ MODULE MCSched ------------------------------
(* Instances of the scheduler for model checking.                          *)
EXTENDS SchedClaims

(* Safety: a thread that blocks in every way, idle, a waker, and a second  *)
(* thread that sleeps and waits.  Thread 2 is idle.                        *)
SafetyOps == <<{"wait", "qsleep", "timeout", "exit"}, {},
               {"yield", "sleep", "signal", "clear", "wake_one", "wake_all", "exit"},
               {"timeout", "wait"}>>

(* Liveness: two threads that compete for the CPU, sleep and exit.         *)
LiveOps == <<{"sleep", "timeout", "exit"}, {}, {"yield", "sleep"}>>
====
