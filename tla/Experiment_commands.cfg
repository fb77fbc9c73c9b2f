SPECIFICATION Spec
CONSTANTS
  Procs = {p1, p2}
  Names = {"ca", "or"}
  Layers = {"whole", "part"}
  Commands <- SomeCommands
  None = None
  Empty = Empty
  Configured = Configured
  MaxCommands = 4
  MaxSaves = 2
SYMMETRY Symmetry
INVARIANT StatsFitModel
CHECK_DEADLOCK FALSE
