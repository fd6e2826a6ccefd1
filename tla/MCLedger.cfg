SPECIFICATION FairSpec
CONSTANTS
    Txns <- Three
    Amounts <- OneTwo
    MaxInt = 100
    Workers = {w1, w2}
    NoWorker = NoWorker
    MaxFaults = 2
INVARIANTS
    TypeOK
    ReadsAreCurrent
    LedgerIsChain
    SettledOnce
    BooksBalance
PROPERTIES
    TerminalIsFinal
    ImplementsAccount
    EventuallySettled
CHECK_DEADLOCK FALSE
