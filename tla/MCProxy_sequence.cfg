SPECIFICATION LinkSpec
CONSTANTS
    Servers = 1
    Proxies = 2
    Links = 2
    MaxMessages = 2
    MaxFaults = 1
    MaxSlow = 0
    Pauses = {FALSE, TRUE}
PROPERTIES
    SameProxy
