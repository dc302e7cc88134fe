CONSTANTS
    MaxConns = 2
    MaxSends = 2
    Sizes = {2}
    MaxBytes = 4
    Talkers = {2}
    Room = 2
    Initial = 3
    Slack = 1
    Chunk = 1
    MaxBuffer = 3
SPECIFICATION FairSpec
INVARIANTS TypeOK OneEnd NothingSkipped InStream
PROPERTIES SendOKComes Served
CHECK_DEADLOCK FALSE
