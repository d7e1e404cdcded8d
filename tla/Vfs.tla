--------------------------------- MODULE Vfs ---------------------------------
(***************************************************************************)
(* fs/vfs.c and fs/ramfs/ramfs.c: path lookup from the root, and open file *)
(* objects with an offset each.  The callers are kernel code at boot, one  *)
(* call at a time.                                                         *)
(*                                                                         *)
(* A path is a sequence of slashes and names: a name is a value with a     *)
(* length, and two names never follow each other.  Byte i of a file n is   *)
(* <<n, i>>.                                                               *)
(***************************************************************************)
EXTENDS Naturals, SequencesExt

CONSTANTS
  Paths,          \* the paths vfs_open() is called with
  Length,         \* the number of characters of a slash or a name
  VFS_NAME_MAX, VFS_PATH_MAX,
  FileSize,       \* the number of bytes of hello.txt and of config.txt
  ReadSizes,      \* the sizes vfs_read() is called with
  Files           \* the file objects of the callers

NULL == "null"

-----------------------------------------------------------------------------
(* The built-in tree of ramfs.                                             *)

Nodes == {"root", "hello", "etc", "config"}

children == [root   |-> <<[name |-> "hello.txt", node |-> "hello"],
                          [name |-> "etc", node |-> "etc"]>>,
             etc    |-> <<[name |-> "config.txt", node |-> "config"]>>,
             hello  |-> <<>>,
             config |-> <<>>]

type == [n \in Nodes |-> IF n \in {"root", "etc"} THEN "DIRECTORY" ELSE "REGULAR"]
size == [n \in Nodes |-> IF type[n] = "DIRECTORY" THEN Len(children[n]) ELSE FileSize[n]]
data(n) == [i \in 1..size[n] |-> <<n, i>>]

(* The operation tables: a directory can be listed, a file can be read.    *)
f_ops(n) == IF type[n] = "DIRECTORY" THEN "readdir" ELSE "read"

VARIABLES
  vfs_ready, vfs_root,
  private_data,   \* which nodes ramfs_init() has made known to their inodes
  parent,
  file,           \* the file objects
  got,            \* history: what was read or listed since vfs_open()
  last            \* history: the last call, what it returned; for vfs_open() what
                  \* it should, for vfs_read() the size and the count

vars == <<vfs_ready, vfs_root, private_data, parent, file, got, last>>

Closed == [inode |-> NULL, offset |-> 0, f_ops |-> NULL]
Stack == [Closed EXCEPT !.inode = "garbage"]   \* a local nobody has set
NoCall == [op |-> "none"]

Init ==
  /\ vfs_ready = FALSE /\ vfs_root = NULL
  /\ private_data = {}
  /\ parent = [n \in Nodes |-> NULL]
  /\ file = [f \in Files |-> Stack]
  /\ got = [f \in Files |-> <<>>]
  /\ last = NoCall

vfs_init ==
  /\ ~vfs_ready
  /\ vfs_ready' = TRUE /\ vfs_root' = NULL
  /\ last' = NoCall
  /\ UNCHANGED <<private_data, parent, file, got>>

(* ramfs_init(), with vfs_mount_root().                                    *)
ramfs_init ==
  /\ vfs_ready /\ vfs_root = NULL
  /\ private_data' = Nodes
  /\ parent' = [root |-> "root", hello |-> "root", etc |-> "root", config |-> "etc"]
  /\ vfs_root' = "root"
  /\ last' = NoCall
  /\ UNCHANGED <<vfs_ready, file, got>>

-----------------------------------------------------------------------------
(* Lookup.  A walk is the inode it has come to, and the error it met.      *)

ramfs_parent(w) ==
  IF w.inode \notin private_data \/ parent[w.inode] = NULL
  THEN [w EXCEPT !.err = "EINVAL"]
  ELSE [w EXCEPT !.inode = parent[w.inode]]

ramfs_lookup(w, name) ==
  LET found == SelectSeq(children[w.inode], LAMBDA entry : entry.name = name)
  IN  CASE w.inode \notin private_data -> [w EXCEPT !.err = "EINVAL"]
        [] w.inode \in private_data /\ found = <<>> -> [w EXCEPT !.err = "ENOENT"]
        [] OTHER -> [w EXCEPT !.inode = found[1].node]

vfs_lookup_child(w, name) ==
  IF type[w.inode] # "DIRECTORY" THEN [w EXCEPT !.err = "ENOTDIR"] ELSE ramfs_lookup(w, name)

(* Mutant: the parent of a regular file is its directory.                  *)
vfs_lookup_parent_any(w) ==
  IF w.inode = vfs_root THEN w ELSE ramfs_parent(w)

vfs_lookup_parent(w) ==
  IF type[w.inode] # "DIRECTORY" THEN [w EXCEPT !.err = "ENOTDIR"]
  ELSE IF w.inode = vfs_root THEN w
  ELSE ramfs_parent(w)

(* One round of the loop of vfs_open().                                    *)
WalkName(w, name) ==
  IF w.err # "ok" THEN w
  ELSE IF Length[name] >= VFS_NAME_MAX THEN [w EXCEPT !.err = "ENAMETOOLONG"]
  ELSE CASE name = "."  -> IF type[w.inode] # "DIRECTORY" THEN [w EXCEPT !.err = "ENOTDIR"] ELSE w
         [] name = ".." -> vfs_lookup_parent(w)
         [] OTHER       -> vfs_lookup_child(w, name)

(* Repeated slashes, and those at the end, are skipped.                    *)
Names(path) == SelectSeq(path, LAMBDA name : name # "/")

Walk(path) == FoldLeft(WalkName, [inode |-> vfs_root, err |-> "ok"], Names(path))

vfs_strlen(path) == FoldLeft(LAMBDA n, name : n + Length[name], 0, path)

Malformed(path) ==
  vfs_strlen(path) = 0 \/ vfs_strlen(path) >= VFS_PATH_MAX \/ path[1] # "/"

-----------------------------------------------------------------------------
(* The reference: a path names what is left of it when . and .. are        *)
(* resolved by the text alone, and every proper prefix of it has to be a   *)
(* directory.                                                              *)

Tree == [n \in Nodes |-> CASE n = "root"   -> <<>>
                           [] n = "hello"  -> <<"hello.txt">>
                           [] n = "etc"    -> <<"etc">>
                           [] n = "config" -> <<"etc", "config.txt">>]

Normal(names) ==
  FoldLeft(LAMBDA p, name : CASE name = "."  -> p
                              [] name = ".." -> IF p = <<>> THEN p ELSE Front(p)
                              [] OTHER       -> Append(p, name), <<>>, names)

Prefix(path, i) == SubSeq(Names(path), 1, i)
Directories == {Tree[n] : n \in {k \in Nodes : type[k] = "DIRECTORY"}}
Regular == {Tree[n] : n \in {k \in Nodes : type[k] = "REGULAR"}}

(* The first i names of the path lead somewhere.                           *)
Leads(path, i) ==
  /\ Normal(Prefix(path, i)) \in Directories \cup Regular
  /\ \A j \in 0..i - 1 : Normal(Prefix(path, j)) \in Directories

Expected(path) ==
  LET n    == Len(Names(path))
      fail == CHOOSE i \in 1..n : ~Leads(path, i) /\ \A j \in 0..i - 1 : Leads(path, j)
  IN  CASE Malformed(path) -> [inode |-> NULL, err |-> "EINVAL"]
        [] ~Malformed(path) /\ Leads(path, n) ->
             [inode |-> CHOOSE k \in Nodes : Tree[k] = Normal(Names(path)), err |-> "ok"]
        [] OTHER ->
             [inode |-> NULL,
              err   |-> IF Length[Names(path)[fail]] >= VFS_NAME_MAX THEN "ENAMETOOLONG"
                        ELSE IF Normal(Prefix(path, fail - 1)) \in Regular THEN "ENOTDIR"
                        ELSE "ENOENT"]

expected == [path \in Paths |-> Expected(path)]

-----------------------------------------------------------------------------
Called(f, op, ret, want) == last' = [op |-> op, file |-> f, ret |-> ret, want |-> want]

(* vfs_open() before the root is mounted returns without a change; after   *)
(* that it clears the object first.                                        *)
vfs_open(path, f) ==
  LET w == Walk(path)
      ret == IF Malformed(path) THEN "EINVAL" ELSE w.err
  IN  /\ vfs_root # NULL
      /\ file' = [file EXCEPT ![f] =
                    IF ret = "ok"
                    THEN [inode |-> w.inode, offset |-> 0, f_ops |-> f_ops(w.inode)]
                    ELSE Closed]
      /\ got' = [got EXCEPT ![f] = <<>>]
      /\ Called(f, "open", ret, expected[path])
      /\ UNCHANGED <<vfs_ready, vfs_root, private_data, parent>>

vfs_open_unmounted(f) ==
  /\ ~vfs_ready \/ vfs_root = NULL
  /\ Called(f, "early", "EINVAL", NULL)
  /\ UNCHANGED <<vfs_ready, vfs_root, private_data, parent, file, got>>

(* The callers use an object only once vfs_open() has set it.              *)
Usable(f) == file[f] # Stack

(* Mutant: as many bytes as the caller asked for.                          *)
ramfs_read_past_end(f, n) ==
  LET inode == file[f].inode
      count == IF file[f].offset >= size[inode] THEN 0 ELSE n
  IN  /\ file' = [file EXCEPT ![f].offset = @ + count]
      /\ got' = [got EXCEPT ![f] = @ \o [i \in 1..count |-> <<inode, file[f].offset + i>>]]
      /\ Called(f, "read", "ok", <<n, count>>)

(* Mutant: the offset is set to what was read.                             *)
ramfs_read_restarts(f, n) ==
  LET inode == file[f].inode
      count == IF file[f].offset >= size[inode] THEN 0
               ELSE IF n < size[inode] - file[f].offset THEN n
               ELSE size[inode] - file[f].offset
  IN  /\ file' = [file EXCEPT ![f].offset = count]
      /\ got' = [got EXCEPT ![f] = @ \o SubSeq(data(inode), file[f].offset + 1, file[f].offset + count)]
      /\ Called(f, "read", "ok", <<n, count>>)

ramfs_read(f, n) ==
  LET inode == file[f].inode
      count == IF file[f].offset >= size[inode] THEN 0
               ELSE IF n < size[inode] - file[f].offset THEN n
               ELSE size[inode] - file[f].offset
  IN  /\ file' = [file EXCEPT ![f].offset = @ + count]
      /\ got' = [got EXCEPT ![f] = @ \o SubSeq(data(inode), file[f].offset + 1, file[f].offset + count)]
      /\ Called(f, "read", "ok", <<n, count>>)

vfs_read(f, n) ==
  /\ Usable(f)
  /\ \/ /\ file[f].inode = NULL
        /\ Called(f, "read", "EINVAL", NULL)
        /\ UNCHANGED <<file, got>>
     \/ /\ file[f].inode # NULL /\ type[file[f].inode] # "REGULAR"
        /\ Called(f, "read", "EISDIR", NULL)
        /\ UNCHANGED <<file, got>>
     \/ file[f].inode # NULL /\ file[f].f_ops = "read" /\ ramfs_read(f, n)
  /\ UNCHANGED <<vfs_ready, vfs_root, private_data, parent>>

ramfs_readdir(f) ==
  LET inode == file[f].inode
  IN  IF file[f].offset >= Len(children[inode])
      THEN Called(f, "readdir", "ENOENT", NULL) /\ UNCHANGED <<file, got>>
      ELSE /\ file' = [file EXCEPT ![f].offset = @ + 1]
           /\ got' = [got EXCEPT ![f] = Append(@, children[inode][file[f].offset + 1])]
           /\ Called(f, "readdir", "ok", NULL)

vfs_readdir(f) ==
  /\ Usable(f)
  /\ \/ /\ file[f].inode = NULL
        /\ Called(f, "readdir", "EINVAL", NULL)
        /\ UNCHANGED <<file, got>>
     \/ /\ file[f].inode # NULL /\ type[file[f].inode] # "DIRECTORY"
        /\ Called(f, "readdir", "ENOTDIR", NULL)
        /\ UNCHANGED <<file, got>>
     \/ file[f].inode # NULL /\ file[f].f_ops = "readdir" /\ ramfs_readdir(f)
  /\ UNCHANGED <<vfs_ready, vfs_root, private_data, parent>>

(* ramfs has no close operation to call.                                   *)
vfs_close(f) ==
  /\ Usable(f)
  /\ file' = [file EXCEPT ![f] = Closed]
  /\ got' = [got EXCEPT ![f] = <<>>]
  /\ last' = NoCall
  /\ UNCHANGED <<vfs_ready, vfs_root, private_data, parent>>

Next ==
  \/ vfs_init \/ ramfs_init
  \/ \E f \in Files :
       \/ \E path \in Paths : vfs_open(path, f)
       \/ vfs_open_unmounted(f)
       \/ \E n \in ReadSizes : vfs_read(f, n)
       \/ vfs_readdir(f)
       \/ vfs_close(f)

Spec == Init /\ [][Next]_vars

-----------------------------------------------------------------------------
(* A file object is unset, cleared or open, and ramfs_read() and           *)
(* ramfs_readdir() keep the offset of an open one within its inode.        *)
VfsTypeOK ==
  /\ vfs_ready \in BOOLEAN /\ vfs_root \in {NULL, "root"}
  /\ private_data \subseteq Nodes
  /\ \A f \in Files : \/ file[f] \in {Stack, Closed}
                      \/ /\ file[f].inode \in Nodes
                         /\ file[f].offset \in 0..size[file[f].inode]

(* vfs_open() comes to the node the path names, or fails with the error of *)
(* the first name that leads nowhere and leaves no inode and no operations *)
(* in the object; an open object has the operations of its inode.          *)
OpenResolves ==
  /\ last.op = "open" =>
       /\ last.ret = last.want.err
       /\ file[last.file].inode = last.want.inode
       /\ last.ret # "ok" => file[last.file] = Closed
  /\ \A f \in Files : Usable(f) /\ file[f].inode # NULL =>
       file[f].f_ops = f_ops(file[f].inode)

(* However its calls are mixed with those on other objects, the reads of   *)
(* an object return the file from its first byte on, without a gap, and    *)
(* nothing only at its end; listing a directory returns its entries once   *)
(* each, and -ENOENT only after all of them.                               *)
ReadsWhole ==
  /\ \A f \in Files : Usable(f) /\ file[f].inode # NULL =>
       got[f] = SubSeq(IF file[f].f_ops = "read" THEN data(file[f].inode)
                       ELSE children[file[f].inode], 1, file[f].offset)
  /\ last.op = "read" /\ last.ret = "ok" /\ last.want[1] > 0 /\ last.want[2] = 0 =>
       file[last.file].offset = size[file[last.file].inode]
  /\ last.op = "readdir" /\ last.ret = "ENOENT" =>
       got[last.file] = children[file[last.file].inode]
====
