SPECIFICATION TokenSpec
CONSTANTS
    Tasks = {t1, t2, t3}
    Cancellers = {c1, c2}
INVARIANTS
    NoLostWakeup
PROPERTIES
    ImplementsAbstract
