\* Two users, two tokens, two messages that overlap, a disconnection, a failure.
CONSTANTS
    Users = {u1, u2}
    TelegramUsers = {t1, t2}
    NoTelegram = none
    Updates = {i1, i2}
    Handlers = {h1, h2}
    Sessions = {s1, s2}
    Nobody = nobody
    MaxTokens = 2
    LinkLimit = 2
    MaxChanges = 1
    MaxFailures = 1
SPECIFICATION Spec
SYMMETRY Symmetry
INVARIANTS
    ExclusiveAccounts
    OneUsableToken
    RevisionNamesAccount
    DecidedOnce
CHECK_DEADLOCK FALSE
