SPECIFICATION BackendSpec
CONSTANTS
    Ways = {0, 1}
    Datasources = {0, 1, 2, 3, 4, 5}
    Subjects = {ann, ben}
    Topics = {t1}
    Accesses = {0, 3}
    Procs = {p1, p2}
    NoProc = NoProc
    NoFile = NoFile
    Partial = Partial
    InitAccounts <- OneAccount
    MaxOps = 3
    MaxFaults = 1
    MaxCrashes = 1
    MaxEdits = 1
    TableSubjects = {ann}
    TableTopics = {t1, t2}
    MaxTableOps = 5
CHECK_DEADLOCK FALSE
INVARIANTS
    BackendTypeOK
    ListsPreserved
    UsersHavePasswords
    NoInheritedRules
PROPERTY ImplementsBackend
