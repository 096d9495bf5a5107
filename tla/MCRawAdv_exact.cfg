\* More UUIDs than the length of one structure can say.
CONSTANTS
  Values <- MCValues
  MacLength = 3
SPECIFICATION Spec
INVARIANT ByteExact
