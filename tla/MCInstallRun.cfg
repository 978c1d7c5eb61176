SPECIFICATION Spec
CONSTANTS
  base = base
  tool = tool
  app = app
  None = None
  Module = {base, tool, app}
  Hosts <- AllHosts
  Nvidia = {tool}
  Updating = {tool, app}
  Online = {tool}
  NeedsRoot = {base, app}
  OwnProbe = {base}
  Gated = {app}
  MaxBuilds = 2
INVARIANTS
  TypeOK
  CascadeHolds
  PasswordUpFront
PROPERTIES
  NothingUnasked
  GrantsCurrent
