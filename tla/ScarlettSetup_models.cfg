CONSTANTS
    Models = {"8i6", "18i6", "18i8"}
SPECIFICATION Spec
INVARIANTS OwnRegister RoutesAsCommented PcmReachesOutputs
CHECK_DEADLOCK FALSE
