CONSTANTS
    Ids = {1, 2, 3, 4}
    MaxTime = 3
SPECIFICATION SelectionSpec
INVARIANTS
    SelectionSound
