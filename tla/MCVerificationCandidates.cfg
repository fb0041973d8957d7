CONSTANTS
    a = a
    b = b
    x = x
    y = y
    p1 = p1
    p2 = p2
    q1 = q1
    n1 = n1
    NoName = NoName
    Silent = Silent
    Author = {a, b}
    Name = {x, y}
    Id <- ProfileOfOne
    Content <- ContentOfOne
    Denials = {{}, {y}}
    MaxFailures = 1
    QueueCap = 1
    MaxDisruptions = 0

SPECIFICATION FairSpec

PROPERTY CandidatesGetVerified
