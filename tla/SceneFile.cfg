\* Scenes of three nodes, with nodes shared, replaced and dropped, written
\* and read back with a failure anywhere.
SPECIFICATION Spec

CONSTANTS
  Class <- Classes
  Params <- ClassParams
  DefaultLabel <- Labels
  String <- Strings
  Escape <- Escapes
  Value = {"0", "1"}
  Keys = {"tex0", "tex1"}
  Null = Null
  MaxNodes = 3
  MaxList = 2
  MaxSets = 3

INVARIANTS
  ReferencesCounted
  RoundTrip
