------------------------------- MODULE MCVfs -------------------------------
(* All the paths of up to MaxTokens slashes and names, and those of        *)
(* MaxDepth names of the tree.  Some are as long as VFS_PATH_MAX, and one  *)
(* name is as long as VFS_NAME_MAX.                                        *)
EXTENDS Vfs, TLC

CONSTANTS MaxTokens, MaxDepth

MCNames == {".", "..", "hello.txt", "etc", "config.txt", "long"}

MCLength == [n \in MCNames \cup {"/"} |->
               CASE n \in {"/", "."} -> 1
                 [] n = ".." -> 2
                 [] n \in {"etc", "hello.txt"} -> 3
                 [] n = "config.txt" -> 4
                 [] n = "long" -> VFS_NAME_MAX]

Short ==
  {p \in SeqOf(MCNames \cup {"/"}, MaxTokens) :
     \A i \in 1..Len(p) - 1 : p[i] = "/" \/ p[i + 1] = "/"}

(* "/a/b/c/d" for the names that occur in the tree.                        *)
Deep ==
  {[i \in 1..2 * MaxDepth |-> IF i % 2 = 1 THEN "/" ELSE names[i \div 2]] :
     names \in [1..MaxDepth -> {"..", "hello.txt", "etc", "config.txt"}]}

MCPaths == Short \cup Deep

MCFileSize == [hello |-> 2, config |-> 1]
Symmetry == Permutations(Files)
====
