--------------------------- MODULE MCCardLifecycle ---------------------------
\* Small instances of CardLifecycle.
EXTENDS CardLifecycle, TLC
Sym == Permutations(Handlers) \union Permutations(Uids)
=============================================================================
