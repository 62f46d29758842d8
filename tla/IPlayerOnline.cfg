\* The release the server's archive holds; the page is hidden and shown again.
SPECIFICATION Spec
CONSTANTS
    Urls = {camera}
    Releases = {"server"}
    Listening = TRUE
    MaxCalls = 1
    MaxFaults = 1
    MaxChunks = 1
PROPERTIES
    ShownIsOnline
