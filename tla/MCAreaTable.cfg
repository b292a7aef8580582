SPECIFICATION AreasSpec
CONSTANTS
    Object = {o1, o2, o3}
    Classes = {"holding_regs", "file_record", "server"}
    Starts = {0, 1, 65535}
    Sizes = {0, 1, 3}
    Address = {0, 1, 2, 3, 65534, 65535}
    Quantity = {1, 2, 3}
    NoObject = NoObject
    MaxListed = 3
SYMMETRY Symmetry
INVARIANTS
    AreasInv
    ServedInside
PROPERTY NoTakeover
