SPECIFICATION Spec
CONSTANTS
    First = 1
    Last = 14
    Slots = 4
    MaxParts = 3
    Align = 2
    EspSize = 2
    RootMin = 4
    Slack = 1
    Guids = {"g1", "g2", "g3", "g4", "g5"}
    Tables <- SomeTables
    Extents <- SomeExtents
    RootSizes = {4, 6}
    Minimums = {2, 4}
    MaxForeign = 2
INVARIANTS PlanSound AsConfirmed PlannersExact
CHECK_DEADLOCK FALSE
