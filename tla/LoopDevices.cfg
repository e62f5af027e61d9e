\* Images of every size and layout around the boundaries of the code; two
\* priority levels on a device whose file may shrink; two drivers and three
\* image handles (dedupe against what the other run left); three devices and
\* three file objects for tests over the leftovers of others.
SPECIFICATION DevicesSpec
CONSTANTS
    WordSpan = 1000000
    Images <- ManyImages
    Followed <- PureIso
    Home <- InTools
    BlockSize = 2048
    LastBlock = 22
    BackingSize = 47204
    Truncated <- Cuts
    Levels = {4, 8}
    t1 = t1
    t2 = t2
    Token = {t1, t2}
    Event = {t1}
    NoToken = NoToken
    Request <- Requests
    ntfs = ntfs
    iso9660 = iso9660
    i1 = i1
    i2 = i2
    i3 = i3
    Driver = {ntfs, iso9660}
    RelPath <- RelPaths
    SelfDir <- Tools
    ShellPath <- UserPaths
    ImageHandle = {i1, i2, i3}
    Nothing = Nothing
    h1 = h1
    h2 = h2
    h3 = h3
    f1 = f1
    f2 = f2
    f3 = f3
    Handle = {h1, h2, h3}
    File = {f1, f2, f3}
    Length <- Lengths
    MaxPath = 12
    DriverFile <- Drivers
    Places <- SomePlaces
    None = None
SYMMETRY Interchangeable
INVARIANTS CreateInv ExitsSettled DeviceInsideFile SniffExact
INVARIANTS IoInv UndisturbedReadDelivers ShortReadMeansShrunk TokenTells
INVARIANTS DriverInv
INVARIANTS SelfTestInv PassMeansRoundTrip PassMeansDriversBeside
PROPERTIES NeverLoadedTwice SuccessMeansRunningOrRefused TableSpec RegistryUse
