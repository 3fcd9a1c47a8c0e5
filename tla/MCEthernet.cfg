SPECIFICATION Spec
CONSTANTS
    RxNum = 3
    TxNum = 2
    RxSegs = {1, 2}
    TxSegs = {2}
    MbSize = 1
    Ids = 2
    PoolFails = TRUE
INVARIANTS TakenWhole NoFrameForgotten SentAsGiven SendingGoesOn LinkTakenOver
