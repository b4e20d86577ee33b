\* A writer adds a vector between create_checkpoint's save and its size.
CONSTANTS
    MaxCheckpoints = 2
    MaxVectors = 1
    MaxCalls = 2
    IoMayFail = FALSE
SPECIFICATION Spec
PROPERTY RestoreRoundTrip
