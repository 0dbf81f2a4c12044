SPECIFICATION FairSpec
CONSTANTS
    link1 = link1
    invite1 = invite1
    ann = ann
    bob = bob
    Links <- OneLink
    Embeds <- OneLink
    Invites <- OneInvite
    Recipients <- TwoRecipients
    MaxRequests = 4
    MaxFaults = 2
    MaxForeign = 2
INVARIANTS TypeOK InvitedOnce NotStartedIsUnsent AppliedReachedAll
PROPERTY SharesSettle
CHECK_DEADLOCK FALSE
