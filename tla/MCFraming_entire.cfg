\* A read that ends just short of a frame.
CONSTANTS
  Base = 4
  Groups = 3
  Word = 32
  TypeWord = 20
  Types <- SomeTypes
  Payloads <- SomePayloads
  MaxMsgs = 1
SPECIFICATION Spec
INVARIANT EntireMessageInBuffer
CHECK_DEADLOCK FALSE
