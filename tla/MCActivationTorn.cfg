\* The same root key signs again after a failed provisioning.
SPECIFICATION Spec
CONSTANTS
  p1 = p1
  p2 = p2
  p3 = p3
  Provisioner <- MCProvisioner
  Key <- MCProvisioner
  RootKey <- SharedKey
  Loader = {l1}
  NoFile = NoFile
INVARIANTS
  MintedWasCommitted
CHECK_DEADLOCK FALSE
