CONSTANTS
  Items = {a, b, c, d}
  m_head = head
  Null = null
  NoWalk = nowalk
SPECIFICATION Spec
INVARIANTS Inv WalkSeesAll
