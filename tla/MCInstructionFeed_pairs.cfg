SPECIFICATION Spec
CONSTANTS
    add = add
    fence = fence
    junk = junk
    None = None
    Zero = Zero
    Words <- AllWords
    Typed <- TypedWords
    Listed <- ListedWords
    Keep = 3
    Patience = 3
    Spins = 1
    MaxUpdates = 1
    Prefetch = 2
    PcCount = 2
INVARIANTS
    PairsExecuted
