SPECIFICATION Spec
CONSTANT MaxCycles = 2
PROPERTIES CycleIsLatched
CHECK_DEADLOCK FALSE
