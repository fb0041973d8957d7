CONSTANTS
    a = a
    b = b
    x = x
    y = y
    p1 = p1
    p2 = p2
    q1 = q1
    n1 = n1
    NoName = NoName
    Silent = Silent
    Author = {a, b}
    Name = {x, y}
    Id <- Profiles
    Content <- ProfileContent
    Denials = {{}, {y}}
    MaxFailures = 1
    QueueCap = 1
    MaxDisruptions = 1

SPECIFICATION FairSpec

INVARIANTS
    TypeOK
    OneAuthorPerName

PROPERTIES
    LateAnswersDoNotCount
    OnlyVerifiedAdmitted
    ForgetsTheSilent
