SPECIFICATION Spec
CONSTANTS
  store = store
  auth = auth
  agents = agents
  Core = Core
  Absent = Absent
  NoLock = NoLock
  Addons <- MCAddons
  Extensions <- MCExtensions
  Requires <- MCRequires
  Versions <- MCVersions
  Releases <- MCReleases
  MaxTorn = 1
PROPERTY SiteCommandsAtomic
