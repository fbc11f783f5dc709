\* Six keys and a linear search of one: both directions, twice.
SPECIFICATION Spec
CONSTANTS
    Keys <- MCKeys
    Values = {"default", "x"}
    Default = "default"
    MaxLinear = 1
INVARIANTS TypeOK KeysSorted RoomIsEnough
PROPERTIES AssocService
