SPECIFICATION TrackingSpec
CONSTANTS
    c1 = c1
    k1 = k1
    a1 = a1
    u1 = u1
    Users = {u1}
    Clients = {c1}
    Contracts = {k1}
    Tasks = {a1}
    Subtasks = {s1}
    Entries = {e1}
    Threads = {t1, t2}
    Details = {d1}
    Invoices = {}
    NoSubtask = NoSubtask
    NoInvoice = NoInvoice
    MaxTime = 1
    ClientOf <- ContractClient
    ContractOf <- TaskContract
    TaskOf <- SubtaskTask
    Seeded <- FirstRows
SYMMETRY Symmetric
CHECK_DEADLOCK FALSE
INVARIANTS
    ArchivedContractsHaveNoTimers
