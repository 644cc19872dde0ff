\* The scheduled run and /dream over groups that fit into one prompt.
SPECIFICATION Spec
CONSTANTS
    short = short
    brief = brief
    long = long
    garbled = garbled
    huge = huge
    Archives = {short, brief, garbled}
    Sound = {short, brief}
    Rows <- MCRows
    MaxRows = 2
    Facts = {fact}
    MaxEntries = 2
    Runs = {scheduled, command}
    Scheduled = scheduled
INVARIANTS HandedOver DeletesAfterSaving
PROPERTY ProfileKeepsDetails
CHECK_DEADLOCK FALSE
