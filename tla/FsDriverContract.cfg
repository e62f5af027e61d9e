\* The contract FsDriver.h states, after a Secure Boot refusal.
SPECIFICATION DriverSpec
CONSTANTS
    ntfs = ntfs
    iso9660 = iso9660
    i1 = i1
    i2 = i2
    i3 = i3
    Driver = {ntfs, iso9660}
    RelPath <- RelPaths
    SelfDir <- Tools
    ShellPath <- UserPaths
    ImageHandle = {i1, i2, i3}
    Nothing = Nothing

PROPERTIES SuccessMeansRunning
