-------------------------------- MODULE Traps --------------------------------
(***************************************************************************)
(* How x86_64 traps enter and are told apart: the vector table of          *)
(* arch/x86/kernel/trap_vectors.h, the gates idt.c makes of it, the stubs  *)
(* of exception_entry.S, and trap_dispatch() of traps.c.                   *)
(*                                                                         *)
(* A trap frame is the sequence of the words pushed, the last one at the   *)
(* stack pointer.  A word is <<what it is, value>>.                        *)
(***************************************************************************)
EXTENDS Naturals, Sequences

X86_EXCEPTION_VECTORS == 0..31
X86_LEGACY_IRQ_VECTOR_BASE == 32
X86_LEGACY_IRQ_VECTOR_COUNT == 16

(* Mutant: the table forgets that #CP, vector 21, has an error code.       *)
has_error_pre_cet == {8, 10, 11, 12, 13, 14, 17, 29, 30}

(* The vectors that the table gives an error code, and the IRQs it has.    *)
has_error == {8, 10, 11, 12, 13, 14, 17, 21, 29, 30}
X86_IRQ_VECTORS == {X86_LEGACY_IRQ_VECTOR_BASE, X86_LEGACY_IRQ_VECTOR_BASE + 1}

(* idt_init(): the vectors that have a gate.                               *)
Gates == X86_EXCEPTION_VECTORS \cup X86_IRQ_VECTORS

(* The architecture: the vectors for which the CPU pushes an error code.   *)
PushesError == {8, 10, 11, 12, 13, 14, 17, 21, 29, 30}

x86_vector_class(v) ==
  CASE v \in X86_EXCEPTION_VECTORS -> "EXCEPTION"
    [] v \in X86_LEGACY_IRQ_VECTOR_BASE..X86_LEGACY_IRQ_VECTOR_BASE
                                           + X86_LEGACY_IRQ_VECTOR_COUNT - 1 -> "LEGACY_IRQ"
    [] v = 128 -> "SYSCALL"
    [] v \in 236..255 -> "SYSTEM"
    [] OTHER -> "EXTERNAL_IRQ"

-----------------------------------------------------------------------------
(* What the CPU pushes on the way through a gate ...                       *)
CpuWords(v, error) ==
  <<<<"ss", 0>>, <<"rsp", 0>>, <<"rflags", 0>>, <<"cs", 0>>, <<"rip", 0>>>>
    \o IF v \in PushesError THEN <<<<"error", error>>>> ELSE <<>>

(* ... the stub of the vector (EXCEPTION_ERROR, EXCEPTION_NO_ERROR, IRQ)   *)
(* ...                                                                     *)
StubWords(v) ==
  (IF v \in has_error THEN <<>> ELSE <<<<"error", 0>>>>) \o <<<<"vector", v>>>>

(* ... and exception_common: fifteen registers.                            *)
Registers == [i \in 1..15 |-> <<"register", 0>>]

Frame(v, error) == CpuWords(v, error) \o StubWords(v) \o Registers

(* struct trap_frame, read from the stack pointer up, and where iretq      *)
(* finds its words after addq $120 and addq $16.                           *)
Word(frame, i) == frame[Len(frame) - i]
vector(frame)     == Word(frame, 15)[2]
error_code(frame) == Word(frame, 16)
ReturnsTo(frame)  == Word(frame, 17)

(* The function of the table that an exception ends in: the handlers print *)
(* and panic, or return 0 and leave the panic to trap_dispatch().          *)
ExceptionHandler(v) ==
  CASE v = 6  -> "x86_handle_invalid_opcode"
    [] v = 8  -> "x86_handle_double_fault"
    [] v = 13 -> "x86_handle_general_protection"
    [] v = 14 -> "x86_handle_page_fault"
    [] OTHER  -> "x86_handle_default_exception"

(* trap_dispatch(): what becomes of a frame.                               *)
trap_dispatch(frame) ==
  LET v == vector(frame)
  IN  CASE x86_vector_class(v) = "LEGACY_IRQ" -> <<"handle_irq", v - X86_LEGACY_IRQ_VECTOR_BASE>>
        [] x86_vector_class(v) = "EXCEPTION"  -> <<ExceptionHandler(v), v>>
        [] OTHER                              -> <<"panic", v>>

(* A vector without a gate is a fault of the delivery: #NP, vector 11.     *)
Taken(v, error) == IF v \in Gates THEN Frame(v, error) ELSE Frame(11, error)
====
