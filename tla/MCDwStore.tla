------------------------------ MODULE MCDwStore ------------------------------
\* Small instances of DwStore: addresses and handles are interchangeable.
EXTENDS DwStore, TLC

Symmetry == Permutations(VAddr) \cup Permutations(MAddr) \cup Permutations(Handle)

\* Bound: entries of the tables, null ones included.  A node whose allocation
\* failed thus takes the place of one that was made.
MaxEntries == 3
FewEntries == Cardinality(Live) + Cardinality(orphan) <= MaxEntries
=============================================================================
