\* The newest release; one chunk that the source buffer refuses.
SPECIFICATION Spec
CONSTANTS
    Urls = {camera}
    Releases = {"player"}
    Listening = TRUE
    MaxCalls = 1
    MaxFaults = 1
    MaxChunks = 1
INVARIANTS
    AppendErrorIsTold
