-------------------------------- MODULE Boot --------------------------------
(***************************************************************************)
(* From the firmware to a running kernel: efi_main() of Loader hands its   *)
(* boot_info to kernel_main(), whose mm_init() and heap (Heap) live on     *)
(* what the memory map in it says.                                         *)
(***************************************************************************)
EXTENDS Heap, Loader

bootVars == <<vars, loaderVars>>

(* boot_info is not there before kernel_entry(&boot_info).                 *)
NoBootInfo == [map |-> <<>>, memory_map |-> 0, size |-> 0]

BootInit ==
  /\ LoaderInit
  /\ boot_info = NoBootInfo
  /\ stage = "boot"
  /\ m = NoPages
  /\ blocks = <<>>
  /\ heap_first = NULL /\ heap_last = NULL /\ heap_end = HEAP_BASE
  /\ owned = <<>>
  /\ pc = [c \in Contexts |-> "idle"]
  /\ block = [c \in Contexts |-> NULL]
  /\ next = [c \in Contexts |-> NULL]
  /\ again = [c \in Contexts |-> FALSE]

(* kernel_entry(&boot_info).                                               *)
kernel_entry ==
  /\ Step("jump", "kernel")
  /\ boot_info' = [map |-> info.map, memory_map |-> info.memory_map, size |-> info.size]
  /\ UNCHANGED <<stage, m, heapVars, owned, freeVars, firmwareVars, open, image, index, mem,
                 fetchVars, info>>

BootNext ==
  \/ LoaderNext /\ UNCHANGED vars
  \/ kernel_entry
  \/ at = "kernel" /\ Next /\ UNCHANGED loaderVars

BootSpec == BootInit /\ [][BootNext]_bootVars

-----------------------------------------------------------------------------
(* The loader's state, and the heap's.                                     *)
BootTypeOK ==
  /\ HeapTypeOK
  /\ type \in [PageNumbers -> {"CONVENTIONAL", "LOADER_DATA", "BOOT_SERVICES"}]
  /\ services \in {"all", "some", "none"} /\ open \subseteq {"root", "file"}
  /\ index \in 1..Len(image.phdrs) + 1 /\ exit_try \in 0..1
  /\ info.memory_map % PageSize = 0 /\ boot_info.size \in 0..NPages

(* The kernel is entered with the map as the firmware left it, however     *)
(* often the map changed on the way: no page the firmware or the loader    *)
(* still uses is conventional memory in it.  The services are over and     *)
(* boot_flags says so, and the map has room in its own page.               *)
HandoffMapCurrent ==
  at \in {"jump", "kernel"} =>
    /\ info.map = MapOf(type) /\ info.key = map_key
    /\ services = "none" /\ ~info.active
    /\ type[info.memory_map \div PageSize] = "LOADER_DATA"

(* The kernel finds every byte of its segments, and zeroes behind them, in *)
(* pages that are its own: neither the firmware nor, later, the page       *)
(* allocator has given them to anyone.                                     *)
KernelIntact ==
  at \in {"jump", "kernel"} =>
    /\ \A i \in DOMAIN image.phdrs :
         LET phdr == image.phdrs[i]
         IN  phdr.type = "LOAD" =>
               \A k \in 0..phdr.memsz - 1 :
                 /\ type[(phdr.paddr + k) \div PageSize] = "LOADER_DATA"
                 /\ mem[phdr.paddr + k] = IF k < phdr.filesz THEN phdr.offset + k + 1 ELSE 0
    /\ LET taken == {m.free[i] : i \in DOMAIN m.free} \cup {m.tables[t] : t \in DOMAIN m.tables}
                      \cup {m.ptes[v] : v \in DOMAIN m.ptes}
       IN  \A p \in taken : type[p \div PageSize] = "CONVENTIONAL"

(* However boot_read_file() ends, it has closed what it opened.            *)
FilesClosed == at \in {"validate", "returned", "kernel"} => open = {}
====
