SPECIFICATION Spec
CONSTANTS
  h1 = h1
  h2 = h2
  w0 = w0
  w1 = w1
  t1 = t1
  t2 = t2
  c1 = c1
  c2 = c2
  c3 = c3
  None = None
  Workspace = {w0, w1}
  Tab = {t1, t2}
  Card = {c1, c2, c3}
  HostPrefix = None
  HostOf <- MCHostOf
  WorkspaceOf <- MCWorkspaceOf
  TabOf <- MCTabOf
  HostOrder <- MCHostOrder
  Caps <- MCCaps
  CardOrder <- MCCardOrder
  Override <- MCPrefix
  Keystroke <- MCKeystroke
  Layer = {"plus", "rail"}
  Fleeting = {w1, t2, c2}
INVARIANTS
  ScopeIsTheRoutes
  InertOnlyUnderADrawer
  CreationsAreAimed
PROPERTIES
  BareEscapeStays
