-------------------------------- MODULE Loader --------------------------------
(***************************************************************************)
(* The UEFI loader, arch/x86/boot/: efi_main() reads the kernel file, puts *)
(* its segments where the linker script wants them, takes the memory map   *)
(* and leaves the firmware.                                                *)
(*                                                                         *)
(* The firmware is external: a type for every page, a key that changes     *)
(* with the map, calls that may fail, and allocations of its own between   *)
(* the calls.  Of the files it matters which are open.  Byte i of the      *)
(* kernel file is i + 1, so that every byte of memory tells where it comes *)
(* from.                                                                   *)
(***************************************************************************)
EXTENDS Pages, FiniteSets

CONSTANTS
  NPages,         \* physical pages
  FirmwareMaps,   \* page types the firmware may start the loader with
  EventPages,     \* pages the firmware may take for itself later on
  MaxEvents,      \* bound on how often it does
  Images,         \* kernel files
  Slack           \* descriptors fetch_memory_map() adds to the size

PageNumbers == 0..NPages - 1
KernelBytes == Kernel[1]..Kernel[2] - 1

VARIABLES
  type, map_key, events,  \* the firmware: page types, key, allocations of its own
  services,     \* "all", "some" after a failed ExitBootServices(), or "none"
  open,         \* the open files
  at, status,   \* where efi_main() is, and what it returns
  image,        \* the kernel file
  index,        \* the segment that is loaded next
  mem,          \* the memory the kernel is linked to
  size, memory_map, exit_try,   \* locals of the last part
  info          \* boot_info

firmwareVars == <<type, map_key, events, services>>
fetchVars == <<size, memory_map, exit_try>>
loaderVars == <<firmwareVars, open, at, status, image, index, mem, fetchVars, info>>

Junk == 1000

LoaderInit ==
  /\ type \in FirmwareMaps /\ map_key = 0 /\ events = 0 /\ services = "all"
  /\ open = {}
  /\ at = "open_root" /\ status = "SUCCESS"
  /\ image \in Images
  /\ index = 1
  /\ mem = [b \in KernelBytes |-> Junk]
  /\ size = 0 /\ memory_map = 0 /\ exit_try = 0
  /\ info = [memory_map |-> 0, map |-> <<>>, size |-> 0, key |-> 0, active |-> TRUE]

Step(p, q) == at = p /\ at' = q /\ UNCHANGED status

(* efi_main() gives up.                                                    *)
Fails(p, s) == at = p /\ at' = "returned" /\ status' = s

-----------------------------------------------------------------------------
(* The firmware.                                                           *)

Take(pages, t) ==
  /\ type' = [p \in PageNumbers |-> IF p \in pages THEN t ELSE type[p]]
  /\ map_key' = map_key + 1
  /\ UNCHANGED <<events, services>>

IsFree(first, n) ==
  first + n <= NPages /\ \A p \in first..first + n - 1 : type[p] = "CONVENTIONAL"

(* Where a pool of n pages comes from: the highest place.                  *)
Pools(n) == {p \in PageNumbers : IsFree(p, n)}
PoolAt(n) == CHOOSE p \in Pools(n) : \A q \in Pools(n) : q <= p

allocate_pool(n) ==
  /\ Pools(n) # {}
  /\ Take(PoolAt(n)..PoolAt(n) + n - 1, "LOADER_DATA")

(* A timer or a driver of the firmware allocates a page.                   *)
FirmwareEvent(p) ==
  /\ at # "returned" /\ services # "none"
  /\ events < MaxEvents
  /\ type[p] = "CONVENTIONAL"
  /\ type' = [type EXCEPT ![p] = "BOOT_SERVICES"]
  /\ map_key' = map_key + 1
  /\ events' = events + 1
  /\ mem' = [b \in KernelBytes |-> IF b \div PageSize = p THEN Junk ELSE mem[b]]
  /\ UNCHANGED <<services, open, at, status, image, index, fetchVars, info>>

(* The memory map: a descriptor for each run of pages of one type.         *)
MapOf(t) ==
  LET starts == {p \in PageNumbers : p = 0 \/ t[p - 1] # t[p]}
      Length(p) == CHOOSE n \in 1..NPages : /\ \A q \in p..p + n - 1 : t[q] = t[p]
                                            /\ p + n = NPages \/ p + n \in starts
  IN  [i \in 1..Cardinality(starts) |->
         LET p == CHOOSE q \in starts : Cardinality({r \in starts : r < q}) = i - 1
         IN  [type |-> t[p], start |-> p * PageSize, pages |-> Length(p)]]

-----------------------------------------------------------------------------
(* boot_read_file().                                                       *)

open_root ==
  /\ \/ Step("open_root", "open") /\ open' = open \cup {"root"}
     \/ Fails("open_root", "UNSUPPORTED") /\ UNCHANGED open
  /\ UNCHANGED <<firmwareVars, image, index, mem, fetchVars, info>>

(* root is closed whether or not the file could be opened.                 *)
root_open ==
  /\ \/ Step("open", "info_size") /\ open' = (open \ {"root"}) \cup {"file"}
     \/ Fails("open", "NOT_FOUND") /\ open' = open \ {"root"}
  /\ UNCHANGED <<firmwareVars, image, index, mem, fetchVars, info>>

FailsClosing(p, s) == Fails(p, s) /\ open' = open \ {"file"} /\ UNCHANGED firmwareVars

(* Mutant: the file stays open when its information cannot be read.        *)
GetInfoOpen(p, q) ==
  /\ \/ Step(p, q) /\ UNCHANGED open
     \/ Fails(p, "DEVICE_ERROR") /\ UNCHANGED open
  /\ UNCHANGED <<firmwareVars, image, index, mem, fetchVars, info>>

(* The two calls of get_info(): for the size, and for the information.     *)
GetInfo(p, q) ==
  /\ \/ Step(p, q) /\ UNCHANGED <<open, firmwareVars>>
     \/ FailsClosing(p, "DEVICE_ERROR")
  /\ UNCHANGED <<image, index, mem, fetchVars, info>>

(* The two allocations: for the information, and for the file.             *)
AllocateBuffer(p, q, n) ==
  /\ \/ Step(p, q) /\ allocate_pool(n) /\ UNCHANGED open
     \/ FailsClosing(p, "OUT_OF_RESOURCES")
  /\ UNCHANGED <<image, index, mem, fetchVars, info>>

(* The file is closed before the result of read() is looked at.            *)
file_read ==
  /\ \/ Step("read", "validate")
     \/ Fails("read", "DEVICE_ERROR")
     \/ Fails("read", "LOAD_ERROR")      \* less was read than the size says
  /\ open' = open \ {"file"}
  /\ UNCHANGED <<firmwareVars, image, index, mem, fetchVars, info>>

boot_read_file ==
  \/ open_root \/ root_open
  \/ GetInfo("info_size", "info_pool")
  \/ AllocateBuffer("info_pool", "info", 1)
  \/ GetInfo("info", "file_pool")
  \/ AllocateBuffer("file_pool", "read", (image.size + PageSize - 1) \div PageSize)
  \/ file_read

-----------------------------------------------------------------------------
(* boot_load_kernel_elf().                                                 *)

validate_kernel_elf ==
  /\ \/ image.valid /\ Step("validate", "segment")
     \/ ~image.valid /\ Fails("validate", "LOAD_ERROR")
  /\ UNCHANGED <<firmwareVars, open, image, index, mem, fetchVars, info>>

page_count(phdr) == (phdr.memsz + PageSize - 1) \div PageSize

(* mem_zero() and mem_copy() of a segment, which stay in its pages.        *)
Loaded(phdr) ==
  [b \in KernelBytes |->
     IF b \in phdr.paddr..phdr.paddr + phdr.filesz - 1 THEN phdr.offset + (b - phdr.paddr) + 1
     ELSE IF b \in phdr.paddr..phdr.paddr + phdr.memsz - 1 THEN 0
     ELSE mem[b]]

(* Mutant: the pages are counted from the bytes of the file, so that a     *)
(* .bss is put into memory nobody allocated.                               *)
LoadSegmentFile(phdr) ==
  LET first == phdr.paddr \div PageSize
      n == (phdr.filesz + PageSize - 1) \div PageSize
  IN  \/ /\ phdr.type # "LOAD"
         /\ Step("segment", "segment")
         /\ UNCHANGED <<type, map_key, mem>>
      \/ /\ phdr.type = "LOAD"
         /\ phdr.memsz < phdr.filesz \/ phdr.offset + phdr.filesz > image.size
         /\ Fails("segment", "LOAD_ERROR")
         /\ UNCHANGED <<type, map_key, mem>>
      \/ /\ phdr.type = "LOAD" /\ phdr.memsz >= phdr.filesz
         /\ phdr.offset + phdr.filesz <= image.size
         /\ \/ /\ IsFree(first, n)
               /\ Step("segment", "segment")
               /\ Take(first..first + n - 1, "LOADER_DATA")
               /\ mem' = Loaded(phdr)
            \/ /\ ~IsFree(first, n)
               /\ Fails("segment", "NOT_FOUND")
               /\ UNCHANGED <<type, map_key, mem>>

(* One round of the loop: a segment that is not loaded, one that does not  *)
(* fit the file, or allocate_pages() at the segment's own address.         *)
LoadSegment(phdr) ==
  LET first == phdr.paddr \div PageSize
      n == page_count(phdr)
  IN  \/ /\ phdr.type # "LOAD"
         /\ Step("segment", "segment")
         /\ UNCHANGED <<type, map_key, mem>>
      \/ /\ phdr.type = "LOAD"
         /\ phdr.memsz < phdr.filesz \/ phdr.offset + phdr.filesz > image.size
         /\ Fails("segment", "LOAD_ERROR")
         /\ UNCHANGED <<type, map_key, mem>>
      \/ /\ phdr.type = "LOAD" /\ phdr.memsz >= phdr.filesz
         /\ phdr.offset + phdr.filesz <= image.size
         /\ \/ /\ IsFree(first, n)
               /\ Step("segment", "segment")
               /\ Take(first..first + n - 1, "LOADER_DATA")
               /\ mem' = Loaded(phdr)
            \/ /\ ~IsFree(first, n)
               /\ Fails("segment", "NOT_FOUND")
               /\ UNCHANGED <<type, map_key, mem>>

load_segment ==
  /\ index <= Len(image.phdrs)
  /\ LoadSegment(image.phdrs[index])
  /\ index' = index + 1
  /\ UNCHANGED <<events, services, open, image, fetchVars, info>>

segments_done ==
  /\ index > Len(image.phdrs)
  /\ Step("segment", "map_size")
  /\ UNCHANGED <<firmwareVars, open, image, index, mem, fetchVars, info>>

boot_load_kernel_elf == validate_kernel_elf \/ load_segment \/ segments_done

-----------------------------------------------------------------------------
(* fetch_memory_map(): the size, a buffer with some slack, and the map.    *)

map_size ==
  /\ Step("map_size", "map_pool")
  /\ size' = Len(MapOf(type)) + Slack
  /\ UNCHANGED <<firmwareVars, open, image, index, mem, memory_map, exit_try, info>>

map_pool ==
  /\ \/ /\ Step("map_pool", "map_get")
        /\ allocate_pool(1)
        /\ memory_map' = PoolAt(1) * PageSize
     \/ /\ Fails("map_pool", "OUT_OF_RESOURCES")
        /\ UNCHANGED <<firmwareVars, memory_map>>
  /\ UNCHANGED <<open, image, index, mem, size, exit_try, info>>

(* The buffer is too small if the map has grown by more than the slack: it *)
(* is given back.                                                          *)
map_get ==
  LET map == MapOf(type)
  IN  /\ \/ /\ Len(map) <= size
            /\ Step("map_get", "exit")
            /\ info' = [info EXCEPT !.memory_map = memory_map, !.map = map, !.size = Len(map),
                                    !.key = map_key]
            /\ UNCHANGED firmwareVars
         \/ /\ Len(map) > size
            /\ Fails("map_get", "BUFFER_TOO_SMALL")
            /\ Take({memory_map \div PageSize}, "CONVENTIONAL")
            /\ UNCHANGED info
      /\ UNCHANGED <<open, image, index, mem, fetchVars>>

(* Mutant: the status of the last try is not looked at.                    *)
exit_boot_services_unchecked ==
  /\ \/ /\ info.key = map_key \/ exit_try = 1
        /\ Step("exit", "jump")
        /\ services' = IF info.key = map_key THEN "none" ELSE "some"
        /\ info' = [info EXCEPT !.active = FALSE]
        /\ UNCHANGED exit_try
     \/ /\ info.key # map_key /\ exit_try = 0
        /\ Step("exit", "map_size")
        /\ services' = "some" /\ exit_try' = 1
        /\ UNCHANGED info
  /\ UNCHANGED <<type, map_key, events, open, image, index, mem, size, memory_map>>

(* ExitBootServices() wants the key of the map as it is; there are two     *)
(* tries.                                                                  *)
exit_boot_services ==
  /\ \/ /\ info.key = map_key
        /\ Step("exit", "jump")
        /\ services' = "none"
        /\ info' = [info EXCEPT !.active = FALSE]
        /\ UNCHANGED exit_try
     \/ /\ info.key # map_key /\ exit_try = 0
        /\ Step("exit", "map_size")
        /\ services' = "some" /\ exit_try' = 1
        /\ UNCHANGED info
     \/ /\ info.key # map_key /\ exit_try = 1
        /\ Fails("exit", "INVALID_PARAMETER")
        /\ services' = "some"
        /\ UNCHANGED <<info, exit_try>>
  /\ UNCHANGED <<type, map_key, events, open, image, index, mem, size, memory_map>>

boot_exit_services_with_latest_memory_map ==
  map_size \/ map_pool \/ map_get \/ exit_boot_services

-----------------------------------------------------------------------------
efi_main == boot_read_file \/ boot_load_kernel_elf \/ boot_exit_services_with_latest_memory_map

LoaderNext == efi_main \/ \E p \in EventPages : FirmwareEvent(p)
====
