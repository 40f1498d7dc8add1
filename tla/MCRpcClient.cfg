SPECIFICATION FairSpec
CONSTANTS
    c1 = c1
    c2 = c2
    event = event
    long = long
    garbage = garbage
    null = null
    blank = blank
    d = d
    Commands = {c1, c2, d}
    OwnId = {d}
    Chatter = {event, long, garbage, null, blank}
    Malformed = {garbage}
    Nulls = {null}
    Bytes <- ByteCounts
    MaxLineBytes = 2
    MaxLines = 3
    LF = LF
INVARIANTS FramingIsExact BufferIsBounded EntriesAreOwed ExitIsReportedOnce
PROPERTIES EverySendSettles
CHECK_DEADLOCK FALSE
