------------------------------- MODULE MCBoot -------------------------------
(* Pages of 16 units and tables of two entries.  The kernel is linked to   *)
(* pages 5 to 7; the loader's stack, with boot_info, and the firmware's    *)
(* page tables are in the last two pages.  Page 0 is the firmware's, or    *)
(* conventional memory.  A boot without incident leaves the kernel seven   *)
(* or eight pages for tables and heap, and six let mm_init() succeed.      *)
EXTENDS Boot

Page(n) == n * PageSize

MCKernel == <<Page(5), Page(7) + 5>>
MCBootInfoAt == <<Page(17) + 9, Page(17) + 14>>
MCFirmwareTables == {Page(18)}

Load(offset, filesz, memsz, paddr) ==
  [type |-> "LOAD", offset |-> offset, filesz |-> filesz, memsz |-> memsz, paddr |-> paddr]
Note == [type |-> "NOTE", offset |-> 3, filesz |-> 2, memsz |-> 2, paddr |-> 0]
Text == Load(4, 12, 12, Page(5))
Data == Load(16, 10, 21, Page(6))

(* The kernel; files that are cut short, have a damaged header or a        *)
(* segment with more bytes in the file than in memory, or none at all.     *)
MCImages == {
  [size |-> 26, valid |-> TRUE, phdrs |-> <<Text, Note, Data>>],
  [size |-> 25, valid |-> TRUE, phdrs |-> <<Text, Data>>],
  [size |-> 26, valid |-> FALSE, phdrs |-> <<Text, Data>>],
  [size |-> 26, valid |-> TRUE, phdrs |-> <<[Text EXCEPT !.memsz = 11], Data>>]}

MCFirmwareMaps ==
  {[p \in PageNumbers |-> IF p \in firmware THEN "BOOT_SERVICES" ELSE "CONVENTIONAL"] :
     firmware \in {{0, 2, 17, 18}, {2, 17, 18}, {0, 8, 10, 17, 18}}}
====
