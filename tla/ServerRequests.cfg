SPECIFICATION Spec
CONSTANTS
    Requests = {r1, r2}
    Ids = {a}
    Unknown = unknown
    Capacity = 1
    Token = t
    ShortToken = s
    Old = old
    New = new
    Tokens = {t, s}
    LongTokens = {t}
    NoToken = notoken
    Addresses = {old, new}
    NoAddress = noaddress
    AuthFiles <- SmallFiles
    Unparsable = unparsable
    Form = form
    AllowAnonymous = TRUE
    FormMaxClicks = 2
    FormMaxDays = 1
    FormDefaultDays = 1
    DefaultValidity = 1
    Numbers <- AskedNumbers
    Garbage = garbage
SYMMETRY Symmetry
INVARIANTS TypeOK PaidReveals OnlyAuthorized AuthorIsAccount FormWithinLimits
PROPERTIES OnlyClaimsConsume
