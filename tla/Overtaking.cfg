SPECIFICATION WatchedSpec
CONSTANTS
    c1 = c1
    k1 = k1
    k2 = k2
    a1 = a1
    u1 = u1
    Users = {u1, u2}
    Clients = {c1}
    Contracts = {k1, k2}
    Tasks = {a1, a2}
    Subtasks = {s1}
    Entries = {e1}
    Threads = {t1, t2}
    Details = {d1}
    Invoices = {}
    NoSubtask = NoSubtask
    NoInvoice = NoInvoice
    MaxTime = 0
    ClientOf <- ContractClient
    ContractOf <- EitherContract
    TaskOf <- SubtaskTask
    Seeded <- FirstRows
SYMMETRY Symmetric
CONSTRAINT FewUsers
CHECK_DEADLOCK FALSE
PROPERTIES
    ArchivedContractsAreResolved
    ArchivedClientsHaveNoActiveContracts
    DisabledUsersHaveNoTimers
    DeletedTasksHaveNoTime
