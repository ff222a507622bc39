SPECIFICATION ParseSpec
CONSTANTS
    MaxUploadBytes = 2
    MaxDecodedPixels = 3
    PaletteSize = 2
    Uploads <- MCUploads
    Replies <- MCReplies
    Outputs <- MCOutputs
    Failures <- MCFailures
INVARIANTS
    ParseTypeOK
    NothingDecodedBeyondLimits
    BlameIsRight
    PaletteIsTop
    RepliesAreRead
    AnswerIsFused
