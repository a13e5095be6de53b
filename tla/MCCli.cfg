CONSTANTS
    Lines <- MCLines
    MaxLines = 3
    BUF_SIZE = 12
    ArgCap = 128
    Replies <- MCReplies
SPECIFICATION Spec
INVARIANTS TypeOK CliShowsOwnReply
PROPERTIES RequestsFramed RepliesAnswered
