SPECIFICATION SlotSpec
CONSTANTS
    Nothing = Nothing
    a = a
    b = b
    c = c
    d = d
    bind2 = bind2
    advice = advice
    phone = phone
    Keys = {a, b, c, d}
    Statements <- Two
    Header <- TwoHeaders
    Device <- OnePhone
    Names <- NamesNone
    Signed = {bind2}
    Copies = 3
    Batch = 1
INVARIANTS
    SlotBounded
