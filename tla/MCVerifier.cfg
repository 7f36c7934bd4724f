CONSTANTS
    Threads = {t1, t2}
    MaxBlocks = 2
    MaxTxns = 2
SPECIFICATION Spec
PROPERTIES SuccessIsSound FailureIsDeserved WaitEnds
