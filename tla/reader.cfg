SPECIFICATION FairSpec
CONSTANTS
  a = a
  b = b
  c = c
  Terms = {a, b, c}
  None = None
  Mentions <- AbcMentions
  Related <- AbcRelated
  MaxTrail = 3
  MaxTypesets = 2
  MaxHides = 2
INVARIANTS TrailSound PatientPagesLinkedOnce PatientTipIsHovered
PROPERTIES PageGetsLinked PatientTipGoes
