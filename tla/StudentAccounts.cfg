\* Two requests at a time on two establishments.
SPECIFICATION Spec
CONSTANTS
    Ids = {i1, i2}
    Tenants = {t1, t2}
    Numbers = {n1, n2}
    Emails = {e1}
    Tokens = {k1, k2}
    Passwords = {p1, p2}
    Handlers = {h1, h2}
    MaxRows = 1
    None = None
SYMMETRY Interchangeable
INVARIANTS StudentTypeOK AccountsStayApart AccountsReachable SpentLinksStayDead SettledPasswordsHold PhotoHasObject
