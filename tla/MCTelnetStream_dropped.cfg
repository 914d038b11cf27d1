SPECIFICATION Spec
CONSTANTS
    PLAYER_INPUT_SIZE = 3
    Chars = {"a", " ", "IAC"}
    Spaces = {" "}
    Options <- MCOptions
    Replies <- MCReplies
    TELNET_CONN_INITIAL_OUTPUT_CAPACITY = 3
    Pipelined = TRUE
    Offers = {"DO"}
    MaxKeys = 6
    MaxUnread = 2
    MaxOutput = 3
INVARIANTS
    NothingDropped
