SPECIFICATION FairSpec
CONSTANTS
    Readers = {r1, r2, r3}
    Writers = {w1, w2, w3}
    NoCaller = NoCaller
INVARIANTS Exclusion NoForgottenWaiter
PROPERTIES WriterPreferred WriterAdmitted
CHECK_DEADLOCK FALSE
