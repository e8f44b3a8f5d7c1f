CONSTANTS
    order = order
    memo = memo
    rnd = rnd
    tonio = tonio
    floor1 = floor1
    floor2 = floor2
    NoDirective = NoDirective
    Directives = {order, memo}
    Relays = {floor1}
    Readers = {rnd}
    Audience <- MCAudience
    Rank <- MCRank
    Amendable = {order}
    MaxV = 2
    MaxTries = 2
SPECIFICATION FairSpec
INVARIANT AppliedOnce 
PROPERTY ImplementsContract MailSettles
CHECK_DEADLOCK FALSE
