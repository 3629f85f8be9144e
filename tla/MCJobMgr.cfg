SPECIFICATION FairSpec
CONSTANTS
    user1 = user1
    user2 = user2
    XferDoneCap = 1
    PartCreatedCap = 1
    PartsChannelSize = 1
    NumParts = 2
    NumTransfers <- TwoParts
    Users = {}
    AuthFailing <- Nobody
    Wishes = {"Cancelling"}
    Outcomes = {"Success", "Failed"}
CHECK_DEADLOCK FALSE
INVARIANTS
    OneTransferReportsThePart
    EveryOutcomeFindsAListener
PROPERTIES
    PromiseKept
    FrontEndExits
