CONSTANTS
  c1 = c1
  b1 = b1
  p1 = p1
  v1 = v1
  q1 = q1
  q2 = q2
  Category = {c1}
  Brand = {b1}
  Product = {p1}
  Variant = {v1}
  Request = {q1, q2}
  Settable = {"ARCHIVED"}
  NoProduct = noProduct
  NoVariant = noVariant
  NoGroup = noGroup
SPECIFICATION Spec
SYMMETRY Interchangeable
INVARIANTS
  DeletedStaysDown
  GroupsKeepProducts
  VariantsStocked
