SPECIFICATION Spec
CONSTANTS
    Plans <- MCPlans
    ServerMethods = {"PublicKey"}
    Identities = {0, 1, 2}
    MaxRounds = 1
CHECK_DEADLOCK FALSE
INVARIANTS
    StopsWhenClosed
    ObservationFollowsServer
    PlanTried
    ErrorOfLastAttempt
