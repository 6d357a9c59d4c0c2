SPECIFICATION MCSpec
CONSTANTS
    c1 = c1
    k1 = k1
    a1 = a1
    u1 = u1
    d1 = d1
    d2 = d2
    r0 = r0
    Users = {u1, u2}
    Clients = {c1}
    Contracts = {k1}
    Tasks = {a1}
    Subtasks = {}
    Entries = {e1, e2}
    Threads = {t1}
    Details = {d1}
    Invoices = {i1, i2}
    NoSubtask = NoSubtask
    NoInvoice = NoInvoice
    NoRef = NoRef
    NoDraft = NoDraft
    Refs = {r1, r2, r3}
    Disbursements = {b1, b2}
    Members = {u1}
    MaxAmount = 2
    QuarterHour = 2
    DayLength = 1
    Days <- TwoDays
    Rate <- OneRate
    MaxTime = 2
    ClientOf <- ContractClient
    ContractOf <- TaskContract
    TaskOf <- SubtaskTask
    Seeded <- AllRows
SYMMETRY BillingSymmetric
CHECK_DEADLOCK FALSE
INVARIANT ClaimedSessionsAreUncorrected
