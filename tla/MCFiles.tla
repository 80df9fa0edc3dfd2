------------------------------- MODULE MCFiles -------------------------------
(***************************************************************************)
(* Two processes, two files, three entries of file_table and two           *)
(* descriptors each; three pages hold every inode that can be in use.      *)
(***************************************************************************)
EXTENDS Files, TLC
CONSTANTS a, b, c1, c2, c3, f1, f2
Pages == Permutations({c1, c2, c3})
==============================================================================
