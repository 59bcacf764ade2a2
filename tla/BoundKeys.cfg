SPECIFICATION FairSpec
CONSTANTS
    Nothing = Nothing
    NoAnswer = NoAnswer
    Unread = Unread
    a = a
    b = b
    c = c
    bind2 = bind2
    bind3 = bind3
    revoke = revoke
    phone = phone
    Keys = {a, b, c}
    Statements <- Three
    Header <- ThreeHeaders
    Device <- OnePhone
    Names <- NamesA
    Signed <- Three
    Copies = 2
    Batch = 1
    Relays = {p}
    Elsewhere <- Kept
INVARIANTS
    CopiesCapped
PROPERTIES
    AdviceOnlyReplaces
    BoundIsBound
    BoundHereStands
    CheckEnds
