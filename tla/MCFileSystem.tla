---------------------------- MODULE MCFileSystem ----------------------------
(* Symmetry of FileSystem: file names and struct file objects are only     *)
(* compared for equality.                                                  *)
EXTENDS FileSystem, TLC

Symmetry == Permutations(File) \cup Permutations(Name \ {LongName})
=============================================================================
