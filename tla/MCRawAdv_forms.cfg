\* Every combination of the properties, each known or not, and
\* the frames of its two adverts.
CONSTANTS
  Values <- MCValues
  MacLength = 3
SPECIFICATION Spec
INVARIANTS TypeOK FormsAgree ShortestForm TxPowerReadsBack AddressReadsBack
  FramesReadBack
