SPECIFICATION MCSpec
CONSTANTS
    Kinds = {"tree"}
    Key = {1, 2, 3, 4, 5}
    TreeNodes = 4
    Value = {1, 2}
    Gone = Gone
    Capacity = 4
    WordSize = 16
    Promotes = FALSE
    Item = {1, 2}
    ListNodes = 4
INVARIANTS
    RedHasBlackChildren
