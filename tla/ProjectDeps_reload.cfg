SPECIFICATION Spec
CONSTANTS
  NoFile = NoFile
  MaxSaved = 2
  a1 = a1
  a2 = a2
  a3 = a3
  a4 = a4
  f1 = f1
  f2 = f2
  f3 = f3
  Address <- FourAddresses
  File <- TwoFiles
  Targets <- MCTargets
  Mishaps = {"orphan"}
SYMMETRY MCSymmetry
PROPERTIES OnlyOpenDepend
