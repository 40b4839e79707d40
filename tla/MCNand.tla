------------------------------- MODULE MCNand -------------------------------
(***************************************************************************)
(* An instance of NandFiles for TLC.                                       *)
(***************************************************************************)
EXTENDS NandFiles, TLC

AnyOf == Permutations(Path) \cup Permutations(Handle) \cup Permutations(Inode)

\* What an inode contains matters while something refers to it.
Referenced ==
  << names, handles, [i \in InUse \ {NoInode} |-> << cache[i], disk[i] >>] >>
=============================================================================
