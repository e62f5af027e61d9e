\* A directory of ten files whose names share the prefix GUNAME.
SPECIFICATION FatSpec
CONSTANTS
    SECTOR = 2
    SEC_PER_CLUS = 2
    RSVD_SEC_CNT = 1
    NUM_FATS = 2
    FAT32_MIN_CLUSTERS = 3
    FatEntryBytes = 1
    DirEntryBytes = 2
    FileSizeSpan = 8
    Trees <- ManyNames
    Totals = {60}
    FileSizes = {0}
    MaxChanges = 0
CHECK_DEADLOCK FALSE
INVARIANTS ShortNameFound
