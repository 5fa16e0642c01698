SPECIFICATION Spec
CONSTANTS
    Names = {a, b}
    Values = {v}
    Zero = Zero
    Absent = Absent
    SECTOR_COUNT = 2
    PAGES_PER_SECTOR = 4
    MAX_OPEN_FILES = 2
    FD_SET_SIZE = 2
    DYN_PAGES = 2
    Modes <- WriteAppend
    Sizes = {2}
    MaxLength = 1
    MaxSeek = 0
    MaxTears = 0
SYMMETRY NameSymmetry
INVARIANT ExtentsApart
