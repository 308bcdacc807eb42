SPECIFICATION PlatformSpec
CONSTANTS
    e1 = e1  e2 = e2
    Workers = {w1, w2}
    Emails = {e1, e2}
    Robots = {r1}
    Sessions = {s1, s2}
    Links = {l1}
    Invites = {i1, i2}
    OfferedRoles = {"owner", "admin", "operador_caixa"}
    Rows <- MCRows
    LockThreshold = 2
    MaxFailures = 3
    Starts <- MCStarts
    Tenants = {t1}
    Company = t1
    Payers = {w1, w2}
    Plans = {"starter"}
    PeriodDays = 1
    GraceDays = 1
    TrialDays = 1
    DayLength = 1
    LastMoment = 4
    MaxInvoices = 3
SYMMETRY Interchangeable
INVARIANT PlatformInv
INVARIANT SessionsEndWithAccess
INVARIANT StandingIsEarned
CHECK_DEADLOCK FALSE
