SPECIFICATION FairSpec
CONSTANT MaxFails = 2
CHECK_DEADLOCK FALSE
PROPERTY RejectedCanResubmit
