\* Two threads, a key with expiry and one for transactions that may be nested.
SPECIFICATION FairSpec
CONSTANTS
    Keys = {k1, k2}
    Threads = {t1, t2}
    Timed = {t2}
    Expiring = {k1}
    TxKeys = {k2}
    TxThreads = {t1, t2}
    TxDrops = FALSE
    Racy = FALSE
    Sizes = {1, 2}
    Overhead = 1
    MaxEntry = 1
    MaxSizes = {2, 4}
    MaxDepth = 2
    MaxEpoch = 2
    NULL = NULL
    Nobody = Nobody
INVARIANTS TypeOK SizeAccounted   
 
