SPECIFICATION SmoothSpec
CONSTANTS
    MaxTxUrbs = 2
    MaxFrames = 4
PROPERTY QueueWakes
CHECK_DEADLOCK FALSE
