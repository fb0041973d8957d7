CONSTANTS
    a = a
    b = b
    v = v
    w = w
    e1 = e1
    e2 = e2
    e3 = e3
    e4 = e4
    e5 = e5
    e6 = e6
    e7 = e7
    e8 = e8
    e9 = e9
    Empty = Empty
    NoValue = NoValue
    NoExpiry = NoExpiry
    Author <- Authors
    Value <- Values
    Id <- RegularIds
    Content <- RegularCatalogue
    Absent = Absent
    Malformed = Malformed
    NotArray = NotArray
    EmptyText = EmptyText
    RawFilter = {}
    Own = {}
    Delegator <- NoDelegator
    MaxTime = 1

SPECIFICATION Spec

PROPERTIES
    ImplementsRelay
    AnnouncedOnce
