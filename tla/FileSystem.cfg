CONSTANTS
    Name = {n1, n2}
    InodeCount = 4
    BlockCount = 6
    BitsPerSector = 8
    SectorWords = 14
    Units = 3
    Direct = 2
    Indirect = 2
    Counts = {2, 5}
    Depth = 2
    MaxOpen = 2
    MaxCalls = 4
    MaxCuts = 1
    Habit = {}
    Zero = Zero
    Absent = Absent
    Directory = Directory
    Torn = Torn
    NoCall = NoCall
SYMMETRY Symmetric
SPECIFICATION Spec
INVARIANTS TypeOK SafeOnDisk Exact StopsAtLimits AnswersRight
PROPERTY ImplementsTree
