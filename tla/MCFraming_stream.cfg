\* Two frames cut anywhere.
CONSTANTS
  Base = 4
  Groups = 3
  Word = 32
  TypeWord = 20
  Types <- SomeTypes
  Payloads <- SomePayloads
  MaxMsgs = 2
SPECIFICATION Spec
INVARIANTS TypeOK NothingLost WaitsOnlyForMore PanicIsTorn VarintsReadBack
PROPERTY EveryMessageHanded
CHECK_DEADLOCK FALSE
