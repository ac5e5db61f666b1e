SPECIFICATION Spec
CONSTANTS
    c1 = c1
    c2 = c2
    c3 = c3
    c4 = c4
    x1 = x1
    x2 = x2
    x3 = x3
    A = A
    B = B
    None = None
    Mailboxes = {c1, c2}
    Spellings <- MCSpellings
    Headers <- NoSequences
    RecipientOf <- MCRecipientOf
    Trees <- NoSequences
    MaxRecipients = 1
    Jobs = {j1}
    Copies = {c1, c2}
    Domains = {x1, x2}
    CfAccounts = {A}
    DomainOf <- MCDomainOf
    AccountOf <- MCAccountOf
    Transport <- AllCloudflare
    Unbuildable = {}
    Answers <- LikelyAnswers
    RetryLimit = 0
    MaxTokens = 0
    MaxCrashes = 0
INVARIANT
    UsesOwnToken
