SPECIFICATION FileSysSpec
CONSTANTS
    x = x
    y = y
    Names = {a, b}
    Bytes = {x, y}
    HeaderByte = x
    Ids = {0}
    Sizes = {3}
    Writings <- ShortWritings
    Lengths = {2}
    NumSectors = 10
    SectorSize = 2
    NumDirEntries = 2
    Straddling = {1}
    SecondSector = {}
    MaxBoots = 2
    None = None
SYMMETRY Symmetry
INVARIANTS
    MapInOrder
PROPERTIES
    ImplementsFiles
CHECK_DEADLOCK FALSE
