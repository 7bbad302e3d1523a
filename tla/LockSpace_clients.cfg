SPECIFICATION Spec
CONSTANTS
  Daemons = {d1}
  Names = {n1, n2}
  NoName = NoName
  Autocreate = {n1}
  AdminNames = {n2}
  Owners = {o1, o2}
  NoOwner = NoOwner
  Inodes = {i1, i2}
  NoInode = NoInode
  MaxEntries = 2
SYMMETRY Symmetry
INVARIANT LeasesHaveClients
