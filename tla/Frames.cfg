SPECIFICATION FramesFairSpec
CONSTANTS
    Base = 2
    Inline = 2
    WideDigits = 3
    ManualChunk = 12
    RawChunk = 8
    ClientFrames <- MCClientFrames
    ReplyLengths = {1, 2, 3, 4, 7}
    MaxFrames = 3
    MaxReplies = 1
INVARIANTS FramesTypeOK InOrder RepliesReadable
PROPERTY ReadOrEnded
CHECK_DEADLOCK FALSE
