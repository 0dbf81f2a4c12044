SPECIFICATION FairSpec
CONSTANTS
    mail1 = mail1
    cal1 = cal1
    cal2 = cal2
    mailItem = mailItem
    calItem = calItem
    i1 = i1
    i2 = i2
    i3 = i3
    w1 = w1
    w2 = w2
    None = None
    Ops <- OneMail
    Sources <- Items
    SourceOf <- ItemOf
    TransactionIdOps <- NoOps
    MailOps <- OneMail
    CloudIds <- TwoIds
    Workers <- OneWorker
    MaxFaults = 1
    LateLanding = FALSE
    PowerLoss = FALSE
    WindowEnds = FALSE
PROPERTY RecordedCompletes
