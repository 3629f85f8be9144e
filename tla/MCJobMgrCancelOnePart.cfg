SPECIFICATION FairSpec
CONSTANTS
    user1 = user1
    user2 = user2
    XferDoneCap = 1
    PartCreatedCap = 1
    PartsChannelSize = 1
    NumParts = 1
    NumTransfers <- OnePart
    Users = {user1}
    AuthFailing <- FirstTransfer
    Wishes = {"Cancelling"}
    Outcomes = {"Success", "Failed"}
CHECK_DEADLOCK FALSE
PROPERTIES
    FrontEndExits
