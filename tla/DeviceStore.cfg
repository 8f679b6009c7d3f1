SPECIFICATION Spec
CONSTANTS
  Id = {a, b, c}
  NSlots = 2
  a = a
  b = b
  c = c
INVARIANTS
  TypeOK
  ResetKeepsDevices
  ResetAddsOnlyPhantoms
  ExactWithoutMishap
PROPERTIES
  FactoryResetEmpties
