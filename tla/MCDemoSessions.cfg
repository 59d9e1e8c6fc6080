\* Two requests of one browser, of which one gets past its reservation, two overlapping
\* runs of the cleanup, and two faults.
CONSTANTS
    Starts = {s1, s2}
    Cleaners = {c1, c2}
    a1 = a1
    b1 = b1
    Addresses = {a1}
    Browsers = {b1}
    AddressOf <- OneAddress
    BrowserOf <- OneBrowser
    MaxPerWindow = 1
    MaxPerAddressDay = 2
    MaxPerBrowserDay = 2
    MaxActive = 1
    MaxUsers = 1
    MaxFaults = 2
SPECIFICATION FairSpec
INVARIANTS
    TypeOK
    DemoLastsItsHour
    NothingLeftBehind
PROPERTIES
    DemosEnd
CHECK_DEADLOCK FALSE
