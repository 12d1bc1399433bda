----------------------------- MODULE MCFolderWork -------------------------------
\* FolderWork with names that are interchangeable.
EXTENDS FolderWork

Symmetry == Permutations(Names)
================================================================================
