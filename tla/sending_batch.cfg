SPECIFICATION Spec
CONSTANTS
    c1 = c1
    c2 = c2
    c3 = c3
    c4 = c4
    x1 = x1
    x2 = x2
    x3 = x3
    A = A
    B = B
    None = None
    Mailboxes = {c1, c2, c3, c4}
    Spellings <- MCSpellings
    Headers <- MCHeaders
    RecipientOf <- MCRecipientOf
    Trees <- MCTrees
    MaxRecipients = 1
    Jobs = {j1}
    Copies = {c1, c2, c3, c4}
    Domains = {x1, x2, x3}
    CfAccounts = {A, B}
    DomainOf <- MCDomainOf
    AccountOf <- MCAccountOf
    Transport <- AllCloudflare
    Unbuildable <- MCUnbuildable
    Answers <- FewAnswers
    RetryLimit = 1
    MaxTokens = 0
    MaxCrashes = 0
INVARIANTS
    NoCallAfterRefusal
    RefusalConfined
    AcceptedIsAddressed
    AcceptedIsWhole
