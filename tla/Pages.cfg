SPECIFICATION Spec
CONSTANTS
  t1 = t1
  t2 = t2
  u1 = u1
  u2 = u2
  None = None
  NoReply = NoReply
  Teams <- TwoTeams
  MaxCalls = 2
  LastPage = 2
  MaxHistory = 2
  Types <- TwoTypes
  Supported <- Resend
  MaxMonitors = 2
  PageSize = 1
  MaxStack = 2
  Invites <- OneInvite
  Users <- TwoUsers
  TeamsOf <- OneHasATeam
  MaxTokens = 2
  MaxOutages = 1
  Openings <- AllOpenings
INVARIANTS
  SavedIsCurrent
  HistoryBottomsOut
  IncidentsAreOfTheTeam
  BadgesFollowServer
  FormIsOfTheTeam
  TableIsCurrent
  PageIsOfTheTeam
  ShownIsSignedIn
  SpinnersHaveTheirCalls
PROPERTY RedirectsSettle
CHECK_DEADLOCK FALSE
