SPECIFICATION Spec
CONSTANTS
  Client = {c1, c2}
  Root = {TRUE, FALSE}
INVARIANTS
  TypeOK
  OpensTheDevice
PROPERTIES
  RecoversUnlessFileMade
