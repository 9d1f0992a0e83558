---------------------------- MODULE MCStudentAccount ----------------------------
EXTENDS StudentAccount, TLC

Interchangeable ==
    UNION {Permutations(S) : S \in {Handlers, Ids, Tokens, Tenants, Numbers, Passwords}}
=============================================================================
