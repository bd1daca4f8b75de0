SPECIFICATION WatchSpec
CONSTANTS
  h1 = h1
  h2 = h2
  m1 = m1
  m2 = m2
  m3 = m3
  m4 = m4
  s0 = s0
  s1 = s1
  Host = {h1, h2}
  Request = {r1}
  Config <- MCConfig
  Settings <- MCSettings
  Coordinator <- MCCoordinator
  NoCoordinator = NoCoordinator
  Invalid = Invalid
  MaxGen = 2
  External <- MCExternal
  Main = {m1}
  Shards = {s0, s1}
  NoDir = NoDir
  Load <- MCLoad
  Start <- MCStart
  MaxEdits = 1
INVARIANT AlwaysServed
