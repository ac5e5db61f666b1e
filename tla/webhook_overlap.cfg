SPECIFICATION Spec
CONSTANTS
    a1 = a1
    d1 = d1
    d2 = d2
    d3 = d3
    d4 = d4
    w1 = w1
    w2 = w2
    m1 = m1
    None = None
    Accounts = {a1}
    Deliveries = {d3}
    Workers = {w1, w2}
    AccountOf <- MCAccountOf
    MessageId <- MCMessageId
    Identified <- MCIdentified
    Kind <- AllPlain
    MaxAttempts = 2
    MaxRotations = 0
    RelayWaits = FALSE
    Faults <- Timeouts
INVARIANTS
    OnePerDelivery
