SPECIFICATION FairSpec
CONSTANTS
    PLAYER_INPUT_SIZE = 3
    Chars = {"a", " ", "IAC"}
    Spaces = {" "}
    Options <- MCOptions
    Replies <- MCReplies
    TELNET_CONN_INITIAL_OUTPUT_CAPACITY = 3
    Pipelined = FALSE
    Offers = {"DO"}
    MaxKeys = 6
    MaxUnread = 1
    MaxOutput = 3
INVARIANTS
    TypeOK
    OneLineBuffered
    LineFits
    OutputFits
    NothingDropped
PROPERTIES
    ImplementsTypedLines
    SentAsWritten
    LineArrives
