\* Two requests of one address, and no fault.
CONSTANTS
    Starts = {s1, s2}
    Cleaners = {c1}
    a1 = a1
    b1 = b1
    Addresses = {a1}
    Browsers = {b1}
    AddressOf <- OneAddress
    BrowserOf <- OneBrowser
    MaxPerWindow = 1
    MaxPerAddressDay = 2
    MaxPerBrowserDay = 2
    MaxActive = 2
    MaxUsers = 2
    MaxFaults = 0
SPECIFICATION Spec
INVARIANT OneStartPerWindow
CHECK_DEADLOCK FALSE
