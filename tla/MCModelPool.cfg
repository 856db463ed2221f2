SPECIFICATION FairSpec
CONSTANTS
    States = {w1, w2}
    Transcribes = {t1, t2, t3}
    Windows = {b1}
    QueueTimeout = TRUE
    None = None
INVARIANTS StatesConserved NoLostWakeup
PROPERTIES LendsExclusively FreeStateIsTaken DueStreamLeaves
