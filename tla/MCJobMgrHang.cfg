SPECIFICATION FairSpec
CONSTANTS
    user1 = user1
    user2 = user2
    XferDoneCap = 1
    PartCreatedCap = 1
    PartsChannelSize = 1
    NumParts = 2
    NumTransfers <- TwoSingles
    Users = {user1}
    AuthFailing <- Nobody
    Wishes = {"Cancelling"}
    Outcomes = {"Success"}
CHECK_DEADLOCK FALSE
PROPERTIES
    FrontEndExits
