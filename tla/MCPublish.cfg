SPECIFICATION FairSpec
CONSTANTS
    Conn = {c1, c2}
    NoConn = NoConn
    Text <- TEXT
    Key <- PEOPLE
    Hex <- HEX
    NoKey = NoKey
    ServerKey = "carol"
    Chars <- CHARS
    TimeOf <- TIMEOF
    NoTime = NoTime
    Unset = Unset
    Width = 16
    Ip <- IP
    Event <- EVENT
    Content <- CONTENT
    IdOf <- IDOF
    AuthEvent <- AUTHEVENT
    AuthContent <- AUTHCONTENT
    Scenario <- SCENARIO
    AuthWindow = 1
    QueueCap = 1
    NoticeCap = 1
    BroadcastCap = 1
    MaxTime = 1
INVARIANTS
    TypeOK
    SentOnlyToEntitled
    PublishedByEntitled
    RateRespected
    AnswersTrue
PROPERTIES
    SubmissionReturns
    EveryEventAnswered
CHECK_DEADLOCK FALSE
