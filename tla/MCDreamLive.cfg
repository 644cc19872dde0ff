\* The scheduled run over groups that fit only alone, not at all, or cannot be read.
SPECIFICATION FairSpec
CONSTANTS
    short = short
    brief = brief
    long = long
    garbled = garbled
    huge = huge
    Archives = {short, long, garbled, huge}
    Sound = {short, long, huge}
    Rows <- MCRows
    MaxRows = 2
    Facts = {fact}
    MaxEntries = 3
    Runs = {scheduled}
    Scheduled = scheduled
PROPERTY EventuallyDigested
CHECK_DEADLOCK FALSE
