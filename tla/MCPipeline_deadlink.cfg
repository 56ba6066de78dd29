SPECIFICATION Spec
CONSTANTS
  s1 = s1
  s2 = s2
  u1 = u1
  u2 = u2
  i1 = i1
  i2 = i2
  i3 = i3
  Workers = {w1}
  Admins = {p1}
  Articles = {a1, a2, a3}
  Urls = {u1, u2}
  Sources = {s1, s2}
  Items = {i1, i2}
  ItemUrl <- MCItemUrl
  ItemSource <- MCItemSource
  ItemHrefs <- MCItemHrefs
  AdminOps = {"delete"}
  Faults = {}
  None = None
  IdRef = IdRef
SYMMETRY MCSymmetry
INVARIANTS NoDeadInternalLink
