SPECIFICATION Spec

CONSTANTS
    Batches = {b1, b2}
    apple = apple
    mango = mango
    Products <- MCProducts
    Carts <- MCCarts
    Farmers = {f1}
    Shelf = {2}
    PoolSize = 4
    None = None

INVARIANTS
    TypeOK
    NoLockLeak
    ConnectionsAccounted
    OversoldOnlyByRepeat

PROPERTIES
    ImplementsLedger
    EveryBatchAnswered
