----------------------------- MODULE MCAdminAuth -----------------------------
EXTENDS AdminAuth, TLC

Interchangeable == Permutations(Handlers) \union Permutations(Challenges)
=============================================================================
