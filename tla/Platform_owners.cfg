SPECIFICATION PlatformSpec
CONSTANTS
    e1 = e1  e2 = e2
    Workers = {w1}
    Emails = {e1, e2}
    Robots = {r1}
    Sessions = {s1, s2}
    Links = {l1}
    Invites = {i1, i2}
    OfferedRoles = {"owner", "admin", "operador_caixa"}
    Rows <- MCRows
    LockThreshold = 2
    MaxFailures = 3
    Starts <- OwnersMeet
    Tenants = {t1}
    Company = t1
    Payers = {p1}
    Plans = {"starter"}
    PeriodDays = 1
    GraceDays = 1
    TrialDays = 1
    DayLength = 1
    LastMoment = 4
    MaxInvoices = 3
INVARIANT ActiveOwnerStays
CHECK_DEADLOCK FALSE
