SPECIFICATION Spec
CONSTANTS
    Names = {a, b}
    Values = {v}
    Zero = Zero
    Absent = Absent
    SECTOR_COUNT = 4
    PAGES_PER_SECTOR = 2
    MAX_OPEN_FILES = 2
    FD_SET_SIZE = 2
    DYN_PAGES = 2
    Modes <- ReadWrite
    Sizes = {1}
    MaxLength = 2
    MaxSeek = 0
    MaxTears = 1
SYMMETRY NameSymmetry
INVARIANTS TypeOK ExtentsApart OneExtentEach DescriptorsSound HintsSound
PROPERTIES IsFileStore FlashIsLocal
