SPECIFICATION Spec
CONSTANTS
    user1 = user1
    user2 = user2
    XferDoneCap = 1
    PartCreatedCap = 1
    PartsChannelSize = 1
    NumParts = 2
    NumTransfers <- TwoSingles
    Users = {user1}
    AuthFailing <- FirstTransfer
    Wishes = {"Cancelling", "Paused"}
    Outcomes = {"Success", "Failed", "Skipped"}
CHECK_DEADLOCK FALSE
INVARIANTS
    CompletedJobHasNothingPending
    CompletedJobHasExactSummary
    XferDoneIsClosedOnce
    IndInv
    
