----------------------------- MODULE MCCrawledIndex -----------------------------
\* CrawledIndex with roots of either kind, and names below them, that are interchangeable.
EXTENDS CrawledIndex

Symmetry == Permutations(BusyNames) \union Permutations(RootNames \ BusyNames) \union Permutations(Names \ RootNames)
================================================================================
