CONSTANTS
  MaxApprovals = 2
  MaxAttempts = 3
  Events = {e1}
  MaxFaults = 1
  MaxCalls = 2
SPECIFICATION FairSpec
INVARIANTS TypeOK SecondCopyNeedsLostReceipt NoSendAfterOptOut
PROPERTIES JobIsResolved
CHECK_DEADLOCK FALSE
