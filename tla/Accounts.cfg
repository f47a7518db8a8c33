\* Two requests, two people, one team and an invitation to it, one failed
\* statement.
CONSTANTS
  p1 = p1  p2 = p2  t1 = t1  i1 = i1  i2 = i2  r1 = r1  r2 = r2
  People <- TwoPeople  Teams <- OneTeam  Invitations <- OneInvitation
  InvitedRoles <- AdminRole  Requests <- TwoRequests
  MaxFaults = 1
SPECIFICATION FairSpec
INVARIANTS TypeOK OneFounder MembersAreInvited AcceptedIsMember SomebodyManages
PROPERTIES RegistrationCloses AcceptanceCompletes
