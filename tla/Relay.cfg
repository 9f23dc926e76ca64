SPECIFICATION Spec
CONSTANTS
  Order <- MCOrder
  Special = {"odd"}
  Payloads <- MCPayloads
  OldTemplates <- MCOldTemplates
  Joining <- MCJoining
  MaxHops = 2
INVARIANTS
  NodesKept
  TlsNeverDropped
  CredentialsKept
  RelaySettles
  GroupsResolve
  NamesDistinct
PROPERTY FetchEnds
CHECK_DEADLOCK FALSE
