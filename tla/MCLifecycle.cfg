\* Safety under kills, late commands, recycled identifiers, missed slots and stopped units.
SPECIFICATION Spec
CONSTANT Parts = {"campaign", "lease", "restart", "calendar", "service"}
CHECK_DEADLOCK FALSE
PROPERTIES NothingIsLeftUnwatched SamplesAreOfTheirSlot StudiesAreRecovered
