SPECIFICATION Spec
CONSTANTS
  Client = {c1}
  Root = {TRUE}
PROPERTIES
  RecoversOnceLoaded
