\* Three processes, two passphrases, four keys one of which begins like a seal.
CONSTANTS
  p1 = p1
  p2 = p2
  p3 = p3
  k1 = k1
  k2 = k2
  k3 = k3
  magic = magic
  None = None
  Processes <- MCProcesses
  Keys <- MCKeys
  MagicKeys = {magic}
  Passphrases = {"open", "sesame"}
SYMMETRY MCSymmetry
SPECIFICATION Spec
INVARIANTS
  TypeOK
  SameKeyEveryTime
  WholeAndPrivate
