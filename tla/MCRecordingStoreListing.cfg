SPECIFICATION Spec
CONSTANTS
    MaxFiles = 2
    MaxDirs = 1
    MaxLines = 2
    FdLimit = 3
    Ordered = TRUE
PROPERTIES
    ListingRemovesBlank
