----------------------------- MODULE MCVolumeIndex ------------------------------
\* VolumeIndex with names that are interchangeable.
EXTENDS VolumeIndex

Symmetry == Permutations(Names)
================================================================================
