SPECIFICATION Spec
CONSTANTS
  Daemons = {d1, d2}
  Names = {n1, n2}
  NoName = NoName
  Autocreate = {n1}
  AdminNames = {n2}
  Owners = {o1, o2}
  NoOwner = NoOwner
  Inodes = {i1, i2, i3}
  NoInode = NoInode
  MaxEntries = 1
SYMMETRY Symmetry
INVARIANTS
  IInv
  LeaseExclusive
  LeaseOnPath
  LeaseBacked
  NoDescriptorLeak
PROPERTIES
  DeleteUnleased
