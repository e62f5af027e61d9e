\* Images too small for their tree, just large enough, and larger; with 51
\* sectors a tree fits that the image shortened by its directories does not hold.
SPECIFICATION FatSpec
CONSTANTS
    SECTOR = 2
    SEC_PER_CLUS = 2
    RSVD_SEC_CNT = 1
    NUM_FATS = 2
    FAT32_MIN_CLUSTERS = 3
    FatEntryBytes = 1
    DirEntryBytes = 2
    FileSizeSpan = 8
    Trees <- SomeTrees
    Totals = {12, 24, 36, 45, 48, 51, 54, 57, 60, 72}
    FileSizes = {0, 2, 5, 6}
    MaxChanges = 1
CHECK_DEADLOCK FALSE
INVARIANTS ReadBack ChainsApart GivenUpForCause
