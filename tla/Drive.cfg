CONSTANTS
    Accounts <- MCAccounts
    Purposes = {"kem", "kem_pq"}
    MaxLines = 2
    Strangers <- MCStrangers
    LogPage = 2
    Prsns <- MCPrsns
    Procs <- MCProcs
    PageSize = 1
    Guardian = "g"
    NewId <- MCNewId
SPECIFICATION MCSpec
CHECK_DEADLOCK FALSE
INVARIANTS
    TypeOK
    ProofsExact
    HonestLogPasses
    ValidMeansExtends
    RecipientsOpen
    NamesReadable
    SubstitutionVisible
    PathMeansOne
