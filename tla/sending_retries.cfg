SPECIFICATION FairSpec
CONSTANTS
    c1 = c1
    c2 = c2
    c3 = c3
    c4 = c4
    x1 = x1
    x2 = x2
    x3 = x3
    A = A
    B = B
    None = None
    Mailboxes = {c1, c2, c3}
    Spellings <- MCSpellings
    Headers <- NoSequences
    RecipientOf <- MCRecipientOf
    Trees <- NoSequences
    MaxRecipients = 1
    Jobs = {j1}
    Copies = {c1, c2, c3}
    Domains = {x1, x2, x3}
    CfAccounts = {A, B}
    DomainOf <- MCDomainOf
    AccountOf <- MCAccountOf
    Transport <- MixedTransport
    Unbuildable = {}
    Answers <- LikelyAnswers
    RetryLimit = 1
    MaxTokens = 1
    MaxCrashes = 1
INVARIANTS
    TypeOK
    SentIsAccepted
    DuplicatesOnlyByLoss
    DuplicatesBounded
PROPERTIES
    KeepsPromise
    BatchAdvances
    EveryCopySettles
