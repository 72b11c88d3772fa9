SPECIFICATION Spec
CONSTANTS
  ada = ada
  bob = bob
  cyd = cyd
  r1 = r1
  r2 = r2
  r3 = r3
  b1 = b1
  NoUser = NoUser
  Root = ada
  Home <- Homes
  Users = {ada, bob, cyd}
  NumHouseholds = 7
  MaxInvitations = 3
  Requests = {r1, r2}
  Boots = {b1}
  MaxFailures = 1
INVARIANTS HomesHold InvitationsHold AdminRemains
PROPERTY LeavesRightly
