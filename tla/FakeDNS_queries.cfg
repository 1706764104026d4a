\* Two handlers and the packet loop on a pool of two addresses.
SPECIFICATION SerialSpec
CONSTANTS
  a = a
  b = b
  c = c
  ptr = ptr
  h1 = h1
  h2 = h2
  Key = {a, b, c, ptr}
  Value = {0, 1, 2, 3, 4}
  Size = 5
  Capacity = 2
  Iface = 1
  Nil = Nil
  Caller = {h1, h2}
  PtrName = {ptr}
  PtrTarget <- MCPtrTarget
  LookupAddr = {2, 3}
INVARIANTS
  TypeOK
  Coherent
  FreeAddressExists
  SerialOneDomain
  SerialReverseSound
  SerialReverse
PROPERTIES
  NoStealWhileRoom
  QueriesAnswered
  RefinesPool
