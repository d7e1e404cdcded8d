-------------------------------- MODULE Pages --------------------------------
(***************************************************************************)
(* Physical pages and page tables: mm/page_alloc.c and                     *)
(* arch/x86/mm/page_table.c, as operators on the state m they change:      *)
(*                                                                         *)
(*   m.free     free_pages, as the sequence of the pages on the list       *)
(*   m.count    free_page_count                                            *)
(*   m.tables   the page tables below the PML4: which page holds which     *)
(*   m.ptes     the present leaf entries: virtual page |-> physical page   *)
(*   m.reserved <<start, end>> of the kernel, boot_info and the memory map *)
(*   m.err      what the call returns                                      *)
(*   m.page     the page alloc_page() returns                              *)
(*                                                                         *)
(* Physical addresses are bytes; a virtual page is a number, which the     *)
(* three levels below the PML4 divide by Fanout.  Callers pass page        *)
(* aligned addresses, so -EINVAL is left out.                              *)
(***************************************************************************)
EXTENDS Naturals, SequencesExt

CONSTANTS
  PageSize,
  Fanout,         \* X86_PAGE_TABLE_ENTRIES
  Kernel,         \* <<__kernel_start, __kernel_end>>
  FirmwareTables  \* the page tables collect_active_page_tables() finds

ASSUME PagesAssumption == PageSize \in Nat \ {0} /\ Fanout \in Nat \ {0, 1}

(* f with the value y at x.                                                *)
With(f, x, y) == [z \in DOMAIN f \cup {x} |-> IF z = x THEN y ELSE f[z]]

NoPages == [free |-> <<>>, count |-> 0, tables |-> <<>>, ptes |-> <<>>,
            reserved |-> {}, err |-> "ok", page |-> 0]

-----------------------------------------------------------------------------
(* mm/page_alloc.c                                                         *)

align_down(value) == value - (value % PageSize)
align_up(value) == align_down(value + PageSize - 1)

ranges_overlap(start, end, reserved_start, reserved_end) ==
  start < reserved_end /\ reserved_start < end

(* The first call records the tables reachable from the firmware's PML4,   *)
(* large pages being leaves; later calls look the page up.                 *)
arch_page_table_uses_page(page) == page \in FirmwareTables

page_is_reserved(m, page) ==
  \/ \E r \in m.reserved :
       ranges_overlap(page, page + PageSize, align_down(r[1]), align_up(r[2]))
  \/ arch_page_table_uses_page(page)

(* The node lies in the page itself: the one of page 0 is the null pointer *)
(* that ends the list.                                                     *)
add_free_page(m, page) ==
  [m EXCEPT !.free  = IF page = 0 THEN <<>> ELSE <<page>> \o @,
            !.count = @ + 1]

(* From the last page of the range down to the first.                      *)
add_conventional_range(m, d) ==
  LET first == align_up(d.start)
      end   == d.start + d.pages * PageSize
      last  == align_down(end - PageSize)
      Add(n, page) == IF page_is_reserved(n, page) THEN n ELSE add_free_page(n, page)
  IN  IF first + PageSize > end
      THEN m
      ELSE FoldLeft(Add, m, [i \in 1..(last - first) \div PageSize + 1 |->
                               last - (i - 1) * PageSize])

init_free_pages(m, map) ==
  FoldLeft(LAMBDA n, d : IF d.type = "CONVENTIONAL" THEN add_conventional_range(n, d) ELSE n,
           m, map)

alloc_page(m) ==
  IF m.free = <<>>
  THEN [m EXCEPT !.page = 0]
  ELSE [m EXCEPT !.page = Head(m.free), !.free = Tail(m.free), !.count = @ - 1]

(* A page is never 0 and always aligned where the code calls it.           *)
free_page(m, page) == add_free_page(m, page)

(* page_allocator_selftest(): the pages go back in the order that restores *)
(* the list.                                                               *)
page_allocator_selftest(m) ==
  LET a == alloc_page(m)
      b == alloc_page(a)
  IN  IF a.page = 0 \/ b.page = 0 \/ a.page = b.page
      THEN [m EXCEPT !.err = "panic"]
      ELSE free_page(free_page(b, b.page), a.page)

-----------------------------------------------------------------------------
(* arch/x86/mm/page_table.c                                                *)

(* The table of level 3 (PDPT), 2 (PD) or 1 (PT) that covers a page.       *)
TableOf(level, virt) == <<level, virt \div Fanout ^ level>>

ensure_next_table(m, table) ==
  LET a == alloc_page(m)
  IN  IF m.err # "ok" \/ table \in DOMAIN m.tables THEN m
      ELSE IF a.page = 0 THEN [m EXCEPT !.err = "ENOMEM"]
      ELSE [a EXCEPT !.tables = With(@, table, a.page)]

(* page_entry() with create set: tables made on the way stay when a later  *)
(* one fails.                                                              *)
page_entry(m, virt) ==
  FoldLeft(LAMBDA n, level : ensure_next_table(n, TableOf(level, virt)), m, <<3, 2, 1>>)

map_page(m, virt, phys) ==
  LET e == page_entry([m EXCEPT !.err = "ok"], virt)
  IN  IF e.err # "ok" THEN e
      ELSE IF virt \in DOMAIN e.ptes THEN [e EXCEPT !.err = "EEXIST"]
      ELSE [e EXCEPT !.ptes = With(@, virt, phys)]

unmap_page(m, virt) ==
  IF virt \notin DOMAIN m.ptes
  THEN [m EXCEPT !.err = "ENOENT"]
  ELSE [m EXCEPT !.err = "ok", !.ptes = Restrict(@, DOMAIN @ \ {virt})]

(* page_table_selftest(), kernel/selftest/page_table.c.                    *)
page_table_selftest(m, virt) ==
  LET a    == alloc_page(m)
      mapd == map_page(a, virt, a.page)
      twice == map_page(mapd, virt, a.page)
      unm  == unmap_page(twice, virt)
      again == unmap_page(unm, virt)
  IN  IF \/ a.page = 0 \/ virt \in DOMAIN m.ptes
         \/ mapd.err # "ok" \/ twice.err # "EEXIST" \/ mapd.ptes[virt] # a.page
         \/ unm.err # "ok" \/ again.err # "ENOENT"
      THEN [m EXCEPT !.err = "panic"]
      ELSE [free_page(again, a.page) EXCEPT !.err = "ok"]
====
