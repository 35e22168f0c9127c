CONSTANTS
    Models = {"18i20"}
SPECIFICATION Spec
INVARIANTS PcmReachesOutputs
CHECK_DEADLOCK FALSE
