SPECIFICATION FairSpec
CONSTANTS
    mail1 = mail1
    cal1 = cal1
    cal2 = cal2
    mailItem = mailItem
    calItem = calItem
    i1 = i1
    i2 = i2
    i3 = i3
    w1 = w1
    w2 = w2
    None = None
    Ops <- MailCal
    Sources <- Items
    SourceOf <- ItemOf
    TransactionIdOps <- OneCal
    MailOps <- OneMail
    CloudIds <- ThreeIds
    Workers <- TwoWorkers
    MaxFaults = 3
    LateLanding = FALSE
    PowerLoss = FALSE
    WindowEnds = FALSE
INVARIANTS TypeOK NoDuplicate CommittedIsReal AnswersAgree AuditReplays LockExcludes
PROPERTIES RestoresOnce MarkedCompletes
