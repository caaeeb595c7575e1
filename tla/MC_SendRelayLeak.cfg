CONSTANTS
  u1 = u1  u2 = u2  lp1 = lp1  lp2 = lp2  rp1 = rp1
  q1 = q1  q2 = q2  r1 = r1  r2 = r2
  NoUser = NoUser  NoRelay = NoRelay
  Users <- LocalUsers
  LocalPusherIds <- LocalPushers
  RemotePusherIds <- NoIds
  RemoteOwner <- NoRemoteOwner
  PullerIds <- LocalPullers
  RelayIds <- NoIds
  Ssrcs = {1}
  SignalFromMembers = TRUE
SPECIFICATION Spec
INVARIANT SendRelayOwned
