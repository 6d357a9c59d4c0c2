SPECIFICATION TrackingSpec
CONSTANTS
    c1 = c1
    k1 = k1
    a1 = a1
    u1 = u1
    Users = {u1, u2}
    Clients = {c1, c2}
    Contracts = {k1, k2}
    Tasks = {a1, a2}
    Subtasks = {s1}
    Entries = {e1, e2}
    Threads = {t1, t2}
    Details = {d1}
    Invoices = {}
    NoSubtask = NoSubtask
    NoInvoice = NoInvoice
    MaxTime = 1
    ClientOf <- ContractClient
    ContractOf <- TaskContract
    TaskOf <- SubtaskTask
    Seeded <- FirstRows
SYMMETRY Symmetric
CONSTRAINT FewRows
CHECK_DEADLOCK FALSE
INVARIANTS
    NoOverlap
    TimesInOrder
    SubtaskOfItsTask
PROPERTIES
    DeletedStaysDeleted
    TimersStartOnActiveContracts
