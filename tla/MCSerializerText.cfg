\* The callbacks' own records use the strict dump: expected to fail.
CONSTANTS
    MaxLength = 1
    MaxTime = 1
SPECIFICATION FairSpec
INVARIANT EventsSurviveBadText
CHECK_DEADLOCK FALSE
