\* Seeds of three bits, numbers modulo 4, four times.
SPECIFICATION Spec
CONSTANTS
  SeedBits = 3
  IdSize = 4
  Half <- MCHalf
  Salt <- MCSalt
  Unset = Unset
INVARIANTS
  TypeOK
  SeedWhole
  SettledOnce
