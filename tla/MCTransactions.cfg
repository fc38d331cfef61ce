\* Three overlapping transactions on two messages, which they insert.
SPECIFICATION Spec
CONSTANTS
    d = d
    e = e
    x = x
    none = none
    MsgId = {d, e}
    Nil = nil
    Null = Null
    ChannelName = {x}
    ChannelArgs = {none}
    NilChannel <- MCNil
    Payload = {none}
    Tables <- MCTables
    Statements <- MCStatements
    MaxTime = 1
    Tx = {t1, t2, t3}
SYMMETRY Symmetry
INVARIANTS
    TransactionsTypeOK
    AttemptsNotOverdrawn
    ConstraintsHold
    DeadlocksTakeTwo
PROPERTIES
    SerialExecution
    RejectedInsertsAreStale
