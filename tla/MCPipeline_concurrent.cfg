SPECIFICATION Spec
CONSTANTS
  s1 = s1
  s2 = s2
  u1 = u1
  u2 = u2
  i1 = i1
  i2 = i2
  i3 = i3
  Workers = {w1, w2}
  Admins = {p1}
  Articles = {a1, a2}
  Urls = {u1, u2}
  Sources = {s1}
  Items = {i1, i2, i3}
  ItemUrl <- MCItemUrl
  ItemSource <- MCItemSource
  ItemHrefs <- MCItemHrefs
  AdminOps = {"create", "delete", "deleteSource"}
  Faults = {"db", "crash", "keywords"}
  None = None
  IdRef = IdRef
SYMMETRY MCSymmetry
INVARIANTS TypeOK UniqueActiveUrl JudgedAtMostOnce LinkFidelity
PROPERTIES ImplementsCatalogue
