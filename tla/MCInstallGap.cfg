SPECIFICATION Spec
CONSTANTS
  base = base
  tool = tool
  app = app
  None = None
  Module = {base, tool, app}
  Hosts <- GapHosts
  Nvidia = {tool}
  Updating = {tool, app}
  Online = {tool}
  NeedsRoot = {base, app}
  OwnProbe = {base}
  Gated = {app}
  MaxBuilds = 2
INVARIANTS
  CascadeIsTransitive
