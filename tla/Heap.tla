-------------------------------- MODULE Heap --------------------------------
(***************************************************************************)
(* mm/heap.c on top of Pages: the kernel heap, a doubly linked list of     *)
(* blocks whose headers lie before their memory.                           *)
(*                                                                         *)
(* kmalloc() is called at boot only, by code that nothing else interferes  *)
(* with, and is one step.  kfree() is also called by release_thread() in   *)
(* sched_yield(), where a thread can be preempted: its stores are steps of *)
(* the context that frees.  No lock is taken.                              *)
(*                                                                         *)
(* Addresses and sizes are bytes.  What is left in memory of the header of *)
(* a merged block is forgotten once nothing points to it.                  *)
(***************************************************************************)
EXTENDS Pages, FiniteSets

CONSTANTS
  BootInfos,      \* what boot_info may be: a memory map, its address and size
  BootInfoAt,     \* <<start, end>> of boot_info itself, on the loader's stack
  Alignment,      \* HEAP_ALIGNMENT
  Header,         \* sizeof(struct heap_block)
  HeapPage,       \* the virtual page at HEAP_BASE
  TestPage,       \* the virtual page at TEST_VIRTUAL_PAGE
  Sizes,          \* the sizes kmalloc() is called with
  Contexts,       \* the contexts that call kfree()
  BootCtx         \* the one that also calls kmalloc(), at boot

HEAP_BASE == HeapPage * PageSize
NULL == 0

ASSUME HeapAssumption ==
  /\ BootCtx \in Contexts /\ HEAP_BASE # NULL
  /\ PageSize % Alignment = 0 /\ Header % Alignment = 0

VARIABLES
  boot_info,      \* as the loader left it: the descriptors (map), memory_map, size
  stage,          \* "boot", "up" after mm_init(), "running" after sched_start()
  m,              \* the state of Pages
  blocks,         \* the headers in memory, by address
  heap_first, heap_last, heap_end,
  owned,          \* history: the pointers handed out |-> the size asked for
  pc,             \* where the kfree() of a context is
  block, next,    \* its locals, and those of block_merge_next()
  again           \* the second of its two calls of block_merge_next()

heapVars == <<blocks, heap_first, heap_last, heap_end>>
freeVars == <<pc, block, next, again>>
vars == <<boot_info, stage, m, heapVars, owned, freeVars>>

Init ==
  /\ boot_info \in BootInfos
  /\ stage = "boot"
  /\ m = NoPages
  /\ blocks = <<>>
  /\ heap_first = NULL /\ heap_last = NULL /\ heap_end = HEAP_BASE
  /\ owned = <<>>
  /\ pc = [c \in Contexts |-> "idle"]
  /\ block = [c \in Contexts |-> NULL]
  /\ next = [c \in Contexts |-> NULL]
  /\ again = [c \in Contexts |-> FALSE]

-----------------------------------------------------------------------------
(* The list, as operators on h: h.m, h.blocks, h.first, h.last, h.end.     *)

Heap == [m |-> m, blocks |-> blocks, first |-> heap_first, last |-> heap_last, end |-> heap_end]

Becomes(h) ==
  /\ m' = [h.m EXCEPT !.err = "ok", !.page = 0]
  /\ blocks' = h.blocks
  /\ heap_first' = h.first /\ heap_last' = h.last /\ heap_end' = h.end

align_up_size(value, alignment) == ((value + alignment - 1) \div alignment) * alignment

(* The blocks the walk along next visits, in its order.                    *)
List(h) ==
  LET max == Cardinality(DOMAIN h.blocks)
      nth[i \in 0..max] ==
        IF i = 0 THEN h.first
        ELSE IF nth[i - 1] = NULL THEN NULL ELSE h.blocks[nth[i - 1]].next
  IN  SelectSeq([i \in 1..max |-> nth[i - 1]], LAMBDA b : b # NULL)

block_insert_after(h, b, new) ==
  LET behind == h.blocks[b].next
  IN  [h EXCEPT !.blocks = [a \in DOMAIN @ |->
                  CASE a = new    -> [@[a] EXCEPT !.prev = b, !.next = behind]
                    [] a = b      -> [@[a] EXCEPT !.next = new]
                    [] a = behind -> [@[a] EXCEPT !.prev = new]
                    [] OTHER      -> @[a]],
                !.last = IF behind = NULL THEN new ELSE @]

block_merge_next(h, b) ==
  LET n      == h.blocks[b].next
      behind == h.blocks[n].next
  IN  IF n = NULL \/ ~h.blocks[n].free THEN h
      ELSE [h EXCEPT !.blocks = [a \in DOMAIN @ \ {n} |->
                       CASE a = b -> [@[a] EXCEPT !.size = @ + Header + h.blocks[n].size,
                                                  !.next = behind]
                         [] a = behind -> [@[a] EXCEPT !.prev = b]
                         [] OTHER -> @[a]],
                     !.last = IF behind = NULL THEN b ELSE @]

(* Mutant: the block is split however small the rest is.                   *)
block_split_always(h, b, size) ==
  LET new == b + Header + size
      hdr == [size |-> h.blocks[b].size - size - Header, free |-> TRUE,
              prev |-> NULL, next |-> NULL]
      cut == [h EXCEPT !.blocks = [With(@, new, hdr) EXCEPT ![b].size = size]]
  IN  block_insert_after(cut, b, new)

block_split(h, b, size) ==
  LET new == b + Header + size
      hdr == [size |-> h.blocks[b].size - size - Header, free |-> TRUE,
              prev |-> NULL, next |-> NULL]
      cut == [h EXCEPT !.blocks = [With(@, new, hdr) EXCEPT ![b].size = size]]
  IN  IF h.blocks[b].size < size + Header + Alignment
      THEN h
      ELSE block_insert_after(cut, b, new)

(* Mutant: the page is not given back when it cannot be mapped.            *)
MapHeapPageLeaks(n, virt) ==
  LET a      == alloc_page(n)
      mapped == map_page(a, virt, a.page)
  IN  IF n.err # "ok" THEN n
      ELSE IF a.page = 0 THEN [n EXCEPT !.err = "ENOMEM"]
      ELSE mapped

(* One round of the loop of map_heap_range().                              *)
MapHeapPage(n, virt) ==
  LET a      == alloc_page(n)
      mapped == map_page(a, virt, a.page)
  IN  IF n.err # "ok" THEN n
      ELSE IF a.page = 0 THEN [n EXCEPT !.err = "ENOMEM"]
      ELSE IF mapped.err # "ok" THEN free_page(mapped, a.page)
      ELSE mapped

map_heap_range(n, start, bytes) ==
  FoldLeft(MapHeapPage, [n EXCEPT !.err = "ok"],
           [i \in 1..bytes \div PageSize |-> start \div PageSize + i - 1])

(* Mutant: a failing map_heap_range() is not noticed.                      *)
heap_extend_unchecked(h, min_size) ==
  LET bytes  == align_up_size(min_size + Header, PageSize)
      mapped == map_heap_range(h.m, h.end, bytes)
      new    == h.end
      hdr    == [size |-> bytes - Header, free |-> TRUE, prev |-> h.last, next |-> NULL]
      linked == [h EXCEPT
                   !.m = [mapped EXCEPT !.err = "ok"],
                   !.end = @ + bytes,
                   !.blocks = [a \in DOMAIN @ \cup {new} |->
                                 CASE a = new    -> hdr
                                   [] a = h.last -> [@[a] EXCEPT !.next = new]
                                   [] OTHER      -> @[a]],
                   !.first = IF h.last = NULL THEN new ELSE @,
                   !.last = new]
  IN  IF h.last # NULL /\ h.blocks[h.last].free THEN block_merge_next(linked, h.last)
      ELSE linked

heap_extend(h, min_size) ==
  LET bytes  == align_up_size(min_size + Header, PageSize)
      mapped == map_heap_range(h.m, h.end, bytes)
      new    == h.end
      hdr    == [size |-> bytes - Header, free |-> TRUE, prev |-> h.last, next |-> NULL]
      linked == [h EXCEPT
                   !.m = mapped,
                   !.end = @ + bytes,
                   !.blocks = [a \in DOMAIN @ \cup {new} |->
                                 CASE a = new    -> hdr
                                   [] a = h.last -> [@[a] EXCEPT !.next = new]
                                   [] OTHER      -> @[a]],
                   !.first = IF h.last = NULL THEN new ELSE @,
                   !.last = new]
  IN  IF mapped.err # "ok" THEN [h EXCEPT !.m = mapped]
      ELSE IF h.last # NULL /\ h.blocks[h.last].free THEN block_merge_next(linked, h.last)
      ELSE linked

(* First fit: the one found, or NULL.                                      *)
find_free_block(h, size) ==
  LET fits == SelectSeq(List(h), LAMBDA b : h.blocks[b].free /\ h.blocks[b].size >= size)
  IN  IF fits = <<>> THEN NULL ELSE fits[1]

-----------------------------------------------------------------------------
(* mm_init() up to and with heap_init(); the calls of heap_selftest() are  *)
(* among those of the next section.                                        *)
Reserved ==
  {Kernel, BootInfoAt, <<boot_info.memory_map, boot_info.memory_map + boot_info.size>>}

mm_init ==
  LET pages  == init_free_pages([NoPages EXCEPT !.reserved = Reserved], boot_info.map)
      first  == page_allocator_selftest(pages)
      second == IF first.err = "ok" THEN page_table_selftest(first, TestPage) ELSE first
      h      == heap_extend([Heap EXCEPT !.m = second], PageSize - Header)
  IN  /\ stage = "boot"
      /\ IF second.err = "ok" /\ h.m.err = "ok"
         THEN stage' = "up" /\ Becomes(h)
         ELSE stage' = "panic" /\ UNCHANGED <<m, heapVars>>
      /\ UNCHANGED <<boot_info, owned, freeVars>>

(* kmalloc(size), size # 0.                                                *)
kmalloc(size) ==
  LET need  == align_up_size(size, Alignment)
      found == find_free_block(Heap, need)
      h     == IF found # NULL THEN Heap ELSE heap_extend(Heap, need)
      b     == IF h.m.err = "ok" THEN find_free_block(h, need) ELSE NULL
      split == block_split(h, b, need)
  IN  /\ stage = "up" /\ pc[BootCtx] = "idle"
      /\ IF b = NULL
         THEN Becomes(h) /\ UNCHANGED owned
         ELSE /\ Becomes([split EXCEPT !.blocks[b].free = FALSE])
              /\ owned' = With(owned, b + Header, size)
      /\ UNCHANGED <<boot_info, stage, freeVars>>

(* sched_start(): from here on threads exit and are reaped.                *)
sched_start ==
  /\ stage = "up" /\ pc[BootCtx] = "idle"
  /\ stage' = "running"
  /\ UNCHANGED <<boot_info, m, heapVars, owned, freeVars>>

-----------------------------------------------------------------------------
(* kfree(ptr), step by step.                                               *)

Goto(c, p) == pc' = [pc EXCEPT ![c] = p]

(* block->free = 1, then the first call of block_merge_next().             *)
kfree(c, ptr) ==
  /\ stage = "running" \/ (stage = "up" /\ c = BootCtx)
  /\ pc[c] = "idle"
  /\ ptr \in DOMAIN owned
  /\ owned' = Restrict(owned, DOMAIN owned \ {ptr})
  /\ blocks' = [blocks EXCEPT ![ptr - Header].free = TRUE]
  /\ block' = [block EXCEPT ![c] = ptr - Header]
  /\ again' = [again EXCEPT ![c] = FALSE]
  /\ Goto(c, "m_next")
  /\ UNCHANGED <<boot_info, stage, m, heap_first, heap_last, heap_end, next>>

(* kfree() returns, and block_merge_next() to it.                          *)
Return(c) ==
  /\ Goto(c, "idle")
  /\ block' = [block EXCEPT ![c] = NULL]
  /\ next' = [next EXCEPT ![c] = NULL]
  /\ again' = [again EXCEPT ![c] = FALSE]

Merged(c) ==
  \/ again[c] /\ Return(c)
  \/ ~again[c] /\ Goto(c, "k_prev") /\ UNCHANGED <<block, next, again>>

Mergeable(n) == n # NULL /\ blocks[n].free

(* Mutant: the next block is merged though it is in use.                   *)
MergeTestUnchecked(c) ==
  LET n == blocks[block[c]].next
  IN  /\ pc[c] = "m_next"
      /\ \/ n = NULL /\ Merged(c)
         \/ /\ n # NULL
            /\ next' = [next EXCEPT ![c] = n]
            /\ Goto(c, "m_size")
            /\ UNCHANGED <<block, again>>
      /\ UNCHANGED <<boot_info, stage, m, heapVars, owned>>

MergeTest(c) ==
  LET n == blocks[block[c]].next
  IN  /\ pc[c] = "m_next"
      /\ \/ ~Mergeable(n) /\ Merged(c)
         \/ /\ Mergeable(n)
            /\ next' = [next EXCEPT ![c] = n]
            /\ Goto(c, "m_size")
            /\ UNCHANGED <<block, again>>
      /\ UNCHANGED <<boot_info, stage, m, heapVars, owned>>

MergeSize(c) ==
  /\ pc[c] = "m_size"
  /\ blocks' = [blocks EXCEPT ![block[c]].size = @ + Header + blocks[next[c]].size]
  /\ Goto(c, "m_link")
  /\ UNCHANGED <<boot_info, stage, m, heap_first, heap_last, heap_end, owned, block, next, again>>

MergeLink(c) ==
  /\ pc[c] = "m_link"
  /\ blocks' = [blocks EXCEPT ![block[c]].next = blocks[next[c]].next]
  /\ Goto(c, "m_back")
  /\ UNCHANGED <<boot_info, stage, m, heap_first, heap_last, heap_end, owned, block, next, again>>

(* The headers without the one at n, if only c still knows of it.          *)
Forget(hdrs, n, c) ==
  IF \/ \E a \in DOMAIN hdrs \ {n} : n \in {hdrs[a].prev, hdrs[a].next}
     \/ \E d \in Contexts \ {c} : n \in {block[d], next[d]}
     \/ n + Header \in DOMAIN owned
  THEN hdrs
  ELSE Restrict(hdrs, DOMAIN hdrs \ {n})

(* Mutant: heap_last keeps pointing to the block that is gone.             *)
MergeBackStale(c) ==
  LET behind   == blocks[next[c]].next
      relinked == IF behind = NULL THEN blocks ELSE [blocks EXCEPT ![behind].prev = block[c]]
  IN  /\ pc[c] = "m_back"
      /\ blocks' = Forget(relinked, next[c], c)
      /\ Merged(c)
      /\ UNCHANGED <<boot_info, stage, m, heap_first, heap_last, heap_end, owned>>

MergeBack(c) ==
  LET behind   == blocks[next[c]].next
      relinked == IF behind = NULL THEN blocks ELSE [blocks EXCEPT ![behind].prev = block[c]]
  IN  /\ pc[c] = "m_back"
      /\ blocks' = Forget(relinked, next[c], c)
      /\ heap_last' = IF behind = NULL THEN block[c] ELSE heap_last
      /\ Merged(c)
      /\ UNCHANGED <<boot_info, stage, m, heap_first, heap_end, owned>>

(* The second call, for the block before, if that is free.                 *)
MergePrev(c) ==
  LET prev == blocks[block[c]].prev
  IN  /\ pc[c] = "k_prev"
      /\ \/ /\ Mergeable(prev)
            /\ block' = [block EXCEPT ![c] = prev]
            /\ again' = [again EXCEPT ![c] = TRUE]
            /\ Goto(c, "m_next")
            /\ UNCHANGED next
         \/ ~Mergeable(prev) /\ Return(c)
      /\ UNCHANGED <<boot_info, stage, m, heapVars, owned>>

Free(c) ==
  \/ \E ptr \in DOMAIN owned : kfree(c, ptr)
  \/ MergeTest(c) \/ MergeSize(c) \/ MergeLink(c) \/ MergeBack(c) \/ MergePrev(c)

Next ==
  \/ mm_init
  \/ \E size \in Sizes : kmalloc(size)
  \/ sched_start
  \/ \E c \in Contexts : Free(c)

Spec == Init /\ [][Next]_vars

-----------------------------------------------------------------------------
Quiet == \A c \in Contexts : pc[c] = "idle"
Ready == stage \in {"up", "running"}

(* The headers of mm/heap.c link to headers or end the list, and kfree()   *)
(* is at one of its steps.                                                 *)
HeapTypeOK ==
  /\ stage \in {"boot", "up", "running", "panic"}
  /\ m.count \in Nat /\ m.err = "ok"
  /\ \A a \in DOMAIN blocks :
       /\ blocks[a].size \in Nat /\ blocks[a].free \in BOOLEAN
       /\ {blocks[a].prev, blocks[a].next} \subseteq DOMAIN blocks \cup {NULL}
  /\ {heap_first, heap_last} \subseteq DOMAIN blocks \cup {NULL}
  /\ pc \in [Contexts -> {"idle", "m_next", "m_size", "m_link", "m_back", "k_prev"}]

(* The usable pages of a descriptor: whole pages of conventional memory    *)
(* that nothing else uses.                                                 *)
UsableOf(d) ==
  {p \in (d.start)..(d.start + d.pages * PageSize - 1) :
     /\ d.type = "CONVENTIONAL" /\ p % PageSize = 0
     /\ \A r \in Reserved : p + PageSize <= r[1] \/ r[2] <= p
     /\ p \notin FirmwareTables}

UsablePages == UNION {UsableOf(boot_info.map[i]) : i \in DOMAIN boot_info.map}

(* Page 0, if it is usable, ends the list: it and what was added before it *)
(* are lost, though free_page_count has counted them.                      *)
LostPages ==
  UNION {UsableOf(boot_info.map[i]) :
           i \in {j \in DOMAIN boot_info.map :
                    \E k \in DOMAIN boot_info.map : j <= k /\ 0 \in UsableOf(boot_info.map[k])}}

(* Every usable page that is not lost to page 0 has exactly one owner: the *)
(* free list, a page table or a mapping.  None is handed out twice, also   *)
(* when a call fails half way, and free_page_count counts the list and the *)
(* lost pages.                                                             *)
PagesOwnedOnce ==
  Ready =>
    LET used == {<<"table", t>> : t \in DOMAIN m.tables} \cup {<<"pte", v>> : v \in DOMAIN m.ptes}
        PageOf(u) == IF u[1] = "table" THEN m.tables[u[2]] ELSE m.ptes[u[2]]
        taken == {PageOf(u) : u \in used}
        free  == {m.free[i] : i \in DOMAIN m.free}
    IN  /\ m.count = Len(m.free) + Cardinality(LostPages)
        /\ Cardinality(free) = Len(m.free)
        /\ Cardinality(taken) = Cardinality(used)
        /\ free \cap taken = {} /\ free \cup taken = UsablePages \ LostPages

(* The list visits the heap from HEAP_BASE to heap_end without a gap or an *)
(* overlap, and is the same in both directions.                            *)
HeapTiles ==
  Ready /\ Quiet =>
    LET l == List(Heap)
    IN  /\ l # <<>> /\ l[1] = HEAP_BASE /\ heap_last = l[Len(l)]
        /\ \A i \in DOMAIN l :
             LET end == l[i] + Header + blocks[l[i]].size
             IN  /\ end = IF i = Len(l) THEN heap_end ELSE l[i + 1]
                 /\ blocks[l[i]].prev = IF i = 1 THEN NULL ELSE l[i - 1]

(* Every page of the heap is mapped, by entries of present tables.         *)
HeapMapped ==
  Ready => \A v \in HeapPage..(heap_end \div PageSize - 1) :
             v \in DOMAIN m.ptes /\ \A level \in 1..3 : TableOf(level, v) \in DOMAIN m.tables

(* The blocks in use are the ones handed out and not freed: each aligned,  *)
(* and large enough for its caller.                                        *)
AllocationsExact ==
  Ready /\ Quiet =>
    LET l == List(Heap)
    IN  /\ DOMAIN owned = {l[i] + Header : i \in {j \in DOMAIN l : ~blocks[l[j]].free}}
        /\ \A ptr \in DOMAIN owned :
             ptr % Alignment = 0 /\ blocks[ptr - Header].size >= owned[ptr]

(* Freeing and extending leave no two free blocks side by side.            *)
NoFreeNeighbours ==
  Ready /\ Quiet =>
    LET l == List(Heap)
    IN  \A i \in 1..Len(l) - 1 : ~(blocks[l[i]].free /\ blocks[l[i + 1]].free)

(* No step changes the size of memory somebody holds: splitting, merging   *)
(* and extending work on free blocks only.                                 *)
HeldMemoryStays ==
  [][\A ptr \in DOMAIN owned \cap DOMAIN owned' :
       blocks'[ptr - Header].size = blocks[ptr - Header].size]_vars

-----------------------------------------------------------------------------
(* include/tianole/mm.h on kfree(): "Releases the allocation back to the   *)
(* kernel heap."  Once no kfree() is under way, the list is sound, every   *)
(* byte of the heap that nobody holds is in a free block of it, and these  *)
(* are as large as can be.                                                 *)
FreedIsReleased == HeapTiles /\ AllocationsExact /\ NoFreeNeighbours
====
