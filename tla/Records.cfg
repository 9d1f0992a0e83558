\* Two requests at a time on two establishments, two students, one content row,
\* three devices, one administrator, two visitors; two drafts of each form.
SPECIFICATION RecordsSpec
CONSTANTS
    Universities = {t1, t2}
    Students = {s1, s2}
    Handlers = {h1, h2}
    None = None
    Rows = {r1}
    MaxDue = 2
    MaxCount = 2
    Super = Super
    Fingerprints = {f1, f2, f3}
    MaxDevices = 2
    Domains = {d1, d2}
    Prefixes = {x1, x2}
    Invitees = {a1}
    MaxDraws = 3
    Visitors = {v1, v2}
    MaxFiled = 2
    MaxCalls = 2
    MaxDrafts = 2
SYMMETRY Interchangeable
INVARIANTS RecordsTypeOK ContentStaysInTenant LoansKeepTheirTerms DeviceLimit
INVARIANTS SiteNumbersDiffer LogoIsServed LastPasswordOpens FiledOnceThanked SavedOnceAsTyped
CHECK_DEADLOCK FALSE
