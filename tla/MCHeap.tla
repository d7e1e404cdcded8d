------------------------------- MODULE MCHeap -------------------------------
(* Pages of 128 bytes and tables of two entries, and a kernel in pages 5   *)
(* and 6.                                                                  *)
EXTENDS Heap

Page(n) == n * PageSize
Conv(first, pages) == [type |-> "CONVENTIONAL", start |-> Page(first), pages |-> pages]
Other(first, pages) == [type |-> "BOOT_SERVICES", start |-> Page(first), pages |-> pages]

MCKernel == <<Page(5), Page(6) + 40>>
MCBootInfoAt == <<Page(9) + 100, Page(10)>>
MCFirmwareTables == {Page(11)}

MCBootInfos == {
  [map |-> <<Conv(1, 8), Other(9, 4)>>, memory_map |-> Page(12), size |-> 80],
  [map |-> <<Conv(3, 10), Other(13, 1)>>, memory_map |-> Page(13), size |-> 80]}
====
