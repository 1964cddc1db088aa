SPECIFICATION Spec
CONSTANTS
  Hosts = {h1, h2}
  MaxClaims = 2
SYMMETRY Interchangeable
INVARIANT TypeOK OneRunWorks LabelKept
CHECK_DEADLOCK FALSE
