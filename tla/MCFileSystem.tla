---------------------------- MODULE MCFileSystem ----------------------------
EXTENDS FileSystem

\* Which name is which matters to nobody.
Symmetric == Permutations(Name)
==============================================================================
