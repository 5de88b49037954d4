SPECIFICATION Spec
CONSTANTS
  p = p
  q = q
  h1 = h1
  h2 = h2
  Policies <- MCPolicies
  Typed <- MCTyped
  EndOfDay = 2
  MaxEdits = 4
  MaxForms = 2
  Hosts <- MCHosts
  Dates <- MCDates
  BarDates <- MCBarDates
  First = "tuesday"
  HostsOf <- MCHostsOf
  LinksOf <- MCLinksOf
  Protocols <- MCProtocols
  MaxPicks = 1
  MaxClicks = 3
  MaxDialogs = 1
  MaxFailures = 1
SYMMETRY PolicySymmetry
CHECK_DEADLOCK FALSE
INVARIANTS
  SavedAsShown
  EditKeepsPolicy
  SettledShowsSelected
  StoredForTheHost
PROPERTIES
  FilterFitsGraph
