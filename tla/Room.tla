-------------------------------- MODULE Room --------------------------------
(***************************************************************************)
(* The Room controller of src/src/webrtc_room/room.cpp: the set of local   *)
(* and remote users, the pusher and puller tables, the send relays keyed   *)
(* by publishing user and the two indexes of receive relays, driven by     *)
(* the signaling handlers, the pilot notifications, RTP arriving from      *)
(* local pushers and from receive relays, and the 1 Hz timer.              *)
(*                                                                         *)
(* Data is abstracted to identities: a user, pusher, puller or relay is a  *)
(* model value, an SSRC a small number, an SDP offer the single media      *)
(* section it announces.  Elapsed time is abstracted to the result of the  *)
(* 40 s liveness checks (alive, relayAlive), which the environment turns   *)
(* false with Expire and ExpireRelay.                                      *)
(***************************************************************************)
EXTENDS Naturals, FiniteSets

CONSTANTS
  Users,             \* user ids, local (signaling) or remote (pilot)
  LocalPusherIds,    \* UUIDs this instance's MediaPushers may take
  RemotePusherIds,   \* pusher ids other instances announce via the pilot
  RemoteOwner,       \* the user who published each remote pusher id
  PullerIds,         \* UUIDs this instance's MediaPullers may take
  RelayIds,          \* RtcRecvRelay objects this room may create
  Ssrcs,             \* SSRC values an offer may carry (0 is "none")
  NoUser,            \* sentinel: the id is not yet taken
  NoRelay,           \* sentinel: no relay under this key
  SignalFromMembers  \* the signaling front end only forwards requests
                     \* of users that are in users_

ASSUME ConstantsAssumption ==
  /\ LocalPusherIds \cap RemotePusherIds = {}
  /\ RemoteOwner \in [RemotePusherIds -> Users]
  /\ Ssrcs \subseteq Nat \ {0}
  /\ NoUser \notin Users
  /\ NoRelay \notin RelayIds
  /\ SignalFromMembers \in BOOLEAN

PusherIds == LocalPusherIds \cup RemotePusherIds

VARIABLES
  (* Room::users_ and the fields of each RtcUser *)
  users,            \* the keys of users_
  remote,           \* RtcUser::IsRemote()
  respCb,           \* RtcUser::GetRespCb() != nullptr
  alive,            \* RtcUser::IsAlive(): a heartbeat or RTP within 40 s
  pushMap,          \* RtcUser::GetPushers(): pusher_id -> PushInfo
  (* MediaPushers and Room::pusherId2pusher_ *)
  pusherOwner,      \* MediaPusher::GetUserId(), NoUser before creation
  pusherSsrc,       \* the primary SSRC of the pusher's RtpSessionParam
  pusherId2pusher,  \* the keys of pusherId2pusher_
  pushClosed,       \* pushers whose WebRtcSession has called OnPushClose
  (* MediaPullers and Room::pusher2pullers_ *)
  pusher2pullers,   \* pusher_id -> the keys of pusher2pullers_[pusher_id]
  pullerUser,       \* MediaPuller::GetPulllerUserId(), NoUser before creation
  pullerTarget,     \* the pusher_user_id the puller was created with
  pullClosed,       \* pullers whose WebRtcSession has called OnPullClose
  (* Room::pusher_user_id2sendRelay_ *)
  sendRelays,       \* its keys
  sendRelayPushers, \* RtcSendRelay::push_infos_ of each
  (* RtcRecvRelays and their two indexes *)
  relayUser,        \* RtcRecvRelay::GetPushUserId(), NoUser before creation
  relayAlive,       \* RtcRecvRelay::IsAlive()
  relayPushers,     \* RtcRecvRelay::push_infos_
  pusherId2recvRelay,   \* Room::pusherId2recvRelay_
  pusherUser2recvRelay, \* Room::pusher_user_id2recvRelay_
  (* the rest *)
  inSession,        \* environment: the front end holds a joined session
  joinPending,      \* a "join" request to the pilot awaits its response
  closed,           \* Room::closed_
  fault,            \* a step dereferenced users_.end()
  (* history variables: no code state, only a record for the proofs *)
  strayPushers,     \* pushers HandlePushSdp created for a non-member
  strayPullers      \* pullers created for a requester not in users_

userVars == <<users, remote, respCb, alive, pushMap>>
pusherVars == <<pusherOwner, pusherSsrc, pusherId2pusher, pushClosed,
                strayPushers>>
pullerVars == <<pusher2pullers, pullerUser, pullerTarget, pullClosed,
                strayPullers>>
sendVars == <<sendRelays, sendRelayPushers>>
recvVars == <<relayUser, relayAlive, relayPushers,
              pusherId2recvRelay, pusherUser2recvRelay>>
envVars == <<inSession, joinPending, closed, fault>>
vars == <<userVars, pusherVars, pullerVars, sendVars, recvVars, envVars>>

-----------------------------------------------------------------------------
(* Helpers                                                                 *)

\* The receive relays the room still holds: a relay dropped from both
\* indexes is destroyed (its UDP socket closed).
HeldRelays == {pusherId2recvRelay[p] : p \in PusherIds}
                \cup {pusherUser2recvRelay[u] : u \in Users}

\* Refresh the heartbeat of every user of S that is in users_.
Refresh(S) == [u \in Users |-> IF u \in S \cap users THEN TRUE ELSE alive[u]]

\* The users whose MediaPullers receive what is forwarded for pusher p.
PullerUsersOf(p) == {pullerUser[q] : q \in pusher2pullers[p]}

\* Signaling requests reach the room from a user the front end holds a
\* session for; with SignalFromMembers also only from members of users_.
Requester(u) == inSession[u] /\ (SignalFromMembers => u \in users)

\* The history record S with x added when its requester u is not in users_.
NoteStray(S, u, x) == IF u \in users THEN S ELSE S \cup {x}

\* Variant of PullRemotePusher that indexes the pusher id only when it
\* reuses a relay, so a new relay is reachable by user id alone.
PullRemotePusherNewUnindexed(u, p, r) ==
  LET rr == IF pusherUser2recvRelay[u] # NoRelay
              THEN pusherUser2recvRelay[u] ELSE r
  IN  /\ relayUser' = [relayUser EXCEPT ![rr] = u]
      /\ relayAlive' = IF rr = r THEN [relayAlive EXCEPT ![r] = TRUE]
                                 ELSE relayAlive
      /\ relayPushers' = [relayPushers EXCEPT ![rr] = @ \cup {p}]
      /\ pusherId2recvRelay' = IF rr = r THEN pusherId2recvRelay
                               ELSE [pusherId2recvRelay EXCEPT ![p] = rr]
      /\ pusherUser2recvRelay' = [pusherUser2recvRelay EXCEPT ![u] = rr]

\* Room::CreateOrGetRecvRtcRelay followed by RtcRecvRelay::AddVirtualPusher
\* for pusher p of user u, with r a fresh relay id in case none is indexed.
PullRemotePusher(u, p, r) ==
  LET rr == IF pusherUser2recvRelay[u] # NoRelay
              THEN pusherUser2recvRelay[u] ELSE r
  IN  /\ relayUser' = [relayUser EXCEPT ![rr] = u]
      /\ relayAlive' = IF rr = r THEN [relayAlive EXCEPT ![r] = TRUE]
                                 ELSE relayAlive
      /\ relayPushers' = [relayPushers EXCEPT ![rr] = @ \cup {p}]
      /\ pusherId2recvRelay' = [pusherId2recvRelay EXCEPT ![p] = rr]
      /\ pusherUser2recvRelay' = [pusherUser2recvRelay EXCEPT ![u] = rr]

-----------------------------------------------------------------------------
(* Initial state: Room::Room with empty tables.                            *)

Init ==
  /\ users = {}
  /\ remote = [u \in Users |-> FALSE]
  /\ respCb = [u \in Users |-> FALSE]
  /\ alive = [u \in Users |-> FALSE]
  /\ pushMap = [u \in Users |-> {}]
  /\ pusherOwner = [p \in LocalPusherIds |-> NoUser]
  /\ pusherSsrc = [p \in LocalPusherIds |-> 0]
  /\ pusherId2pusher = {}
  /\ pushClosed = {}
  /\ pusher2pullers = [p \in PusherIds |-> {}]
  /\ pullerUser = [q \in PullerIds |-> NoUser]
  /\ pullerTarget = [q \in PullerIds |-> NoUser]
  /\ pullClosed = {}
  /\ sendRelays = {}
  /\ sendRelayPushers = [u \in Users |-> {}]
  /\ relayUser = [r \in RelayIds |-> NoUser]
  /\ relayAlive = [r \in RelayIds |-> FALSE]
  /\ relayPushers = [r \in RelayIds |-> {}]
  /\ pusherId2recvRelay = [p \in PusherIds |-> NoRelay]
  /\ pusherUser2recvRelay = [u \in Users |-> NoRelay]
  /\ inSession = [u \in Users |-> FALSE]
  /\ joinPending = FALSE
  /\ closed = FALSE
  /\ fault = FALSE
  /\ strayPushers = {}
  /\ strayPullers = {}

-----------------------------------------------------------------------------
(* Signaling handlers                                                      *)

\* Room::UserJoin for a user not in users_: a new local RtcUser bound to
\* the request's callback, and a "join" request to the pilot.
UserJoin(u) ==
  /\ ~closed
  /\ u \notin users
  /\ users' = users \cup {u}
  /\ remote' = [remote EXCEPT ![u] = FALSE]
  /\ respCb' = [respCb EXCEPT ![u] = TRUE]
  /\ alive' = [alive EXCEPT ![u] = TRUE]
  /\ pushMap' = [pushMap EXCEPT ![u] = {}]
  /\ inSession' = [inSession EXCEPT ![u] = TRUE]
  /\ joinPending' = TRUE
  /\ UNCHANGED <<pusherVars, pullerVars, sendVars, recvVars, closed, fault>>

\* Room::UserJoin for a user already in users_ goes to Room::ReConnect,
\* which notifies and answers but leaves the RtcUser as it is.
ReConnect(u) ==
  /\ ~closed
  /\ u \in users
  /\ inSession' = [inSession EXCEPT ![u] = TRUE]
  /\ UNCHANGED <<userVars, pusherVars, pullerVars, sendVars, recvVars,
                 joinPending, closed, fault>>

\* Room::UserLeave and Room::DisconnectUser requested by the front end:
\* both null the user's callback and notify; they differ only in the
\* notification's name.  An unknown user returns -1.
UserLeave(u) ==
  /\ inSession[u]
  /\ inSession' = [inSession EXCEPT ![u] = FALSE]
  /\ respCb' = IF u \in users THEN [respCb EXCEPT ![u] = FALSE] ELSE respCb
  /\ UNCHANGED <<users, remote, alive, pushMap, pusherVars, pullerVars,
                 sendVars, recvVars, joinPending, closed, fault>>

\* Room::HandlePushSdp for an offer with one media section of SSRC s: a
\* MediaPusher with a fresh id p is registered in pusherId2pusher_ whether
\* or not the user is in users_; only a member gets the PushInfo and a
\* heartbeat.  The missing-user check comes after the answer is sent.
HandlePushSdp(u, s, p) ==
  /\ Requester(u)
  /\ pusherOwner[p] = NoUser
  /\ pusherOwner' = [pusherOwner EXCEPT ![p] = u]
  /\ pusherSsrc' = [pusherSsrc EXCEPT ![p] = s]
  /\ pusherId2pusher' = pusherId2pusher \cup {p}
  /\ strayPushers' = NoteStray(strayPushers, u, p)
  /\ pushMap' = IF u \in users THEN [pushMap EXCEPT ![u] = @ \cup {p}]
                               ELSE pushMap
  /\ alive' = Refresh({u})
  /\ UNCHANGED <<users, remote, respCb, pushClosed, pullerVars, sendVars,
                 recvVars, envVars>>

\* Variant of HandlePullSdp that passes the pusher id where
\* AddPullerRtpSession expects the publishing user id.
HandlePullSdpSwapped(src, target, p, q) ==
  /\ Requester(src)
  /\ target \in users
  /\ p \in pusherId2pusher
  /\ pullerUser[q] = NoUser
  /\ pusher2pullers' = [pusher2pullers EXCEPT ![p] = @ \cup {q}]
  /\ pullerUser' = [pullerUser EXCEPT ![q] = src]
  /\ pullerTarget' = [pullerTarget EXCEPT ![q] = p]
  /\ strayPullers' = NoteStray(strayPullers, src, q)
  /\ UNCHANGED <<userVars, pusherVars, pullClosed, sendVars, recvVars,
                 envVars>>

\* Variant of HandlePullSdp that does not skip a pusher missing from
\* pusherId2pusher_, so a closed or released pusher gets new pullers.
HandlePullSdpAnyPusher(src, target, p, q) ==
  /\ Requester(src)
  /\ target \in users
  /\ pusherOwner[p] # NoUser
  /\ pullerUser[q] = NoUser
  /\ pusher2pullers' = [pusher2pullers EXCEPT ![p] = @ \cup {q}]
  /\ pullerUser' = [pullerUser EXCEPT ![q] = src]
  /\ pullerTarget' = [pullerTarget EXCEPT ![q] = target]
  /\ strayPullers' = NoteStray(strayPullers, src, q)
  /\ UNCHANGED <<userVars, pusherVars, pullClosed, sendVars, recvVars,
                 envVars>>

\* Room::HandlePullSdp by user src of pusher p of target: the target must
\* be in users_; a pusher missing from pusherId2pusher_ is skipped, else
\* a MediaPuller with fresh id q is stored under pusher2pullers_[p].
HandlePullSdp(src, target, p, q) ==
  /\ Requester(src)
  /\ target \in users
  /\ p \in pusherId2pusher
  /\ pullerUser[q] = NoUser
  /\ pusher2pullers' = [pusher2pullers EXCEPT ![p] = @ \cup {q}]
  /\ pullerUser' = [pullerUser EXCEPT ![q] = src]
  /\ pullerTarget' = [pullerTarget EXCEPT ![q] = target]
  /\ strayPullers' = NoteStray(strayPullers, src, q)
  /\ UNCHANGED <<userVars, pusherVars, pullClosed, sendVars, recvVars,
                 envVars>>

\* Room::HandleRemotePullSdp by src of the remote pusher p of target.
\* First loop: if target is in users_ and has p, PullRemotePusher creates
\* or reuses target's relay (fresh id r if created), adds p to it and
\* notifies the pilot.  Then, if the answer SDP can be built (sdpOk), the
\* second loop adds a puller q for p if p is indexed to a relay holding p;
\* if it cannot, the handler returns -1 with the first loop's effects kept.
HandleRemotePullSdp(src, target, p, q, r, sdpOk) ==
  LET first == target \in users /\ p \in pushMap[target]
      idx   == IF first THEN pusherId2recvRelay' ELSE pusherId2recvRelay
      held  == IF first THEN relayPushers' ELSE relayPushers
      addPuller == sdpOk /\ idx[p] # NoRelay /\ p \in held[idx[p]]
  IN
  /\ Requester(src)
  /\ p \in RemotePusherIds
  /\ relayUser[r] = NoUser
  /\ pullerUser[q] = NoUser
  /\ IF first THEN PullRemotePusher(target, p, r) ELSE UNCHANGED recvVars
  /\ IF addPuller
       THEN /\ pusher2pullers' = [pusher2pullers EXCEPT ![p] = @ \cup {q}]
            /\ pullerUser' = [pullerUser EXCEPT ![q] = src]
            /\ pullerTarget' = [pullerTarget EXCEPT ![q] = target]
            /\ strayPullers' = NoteStray(strayPullers, src, q)
       ELSE UNCHANGED <<pusher2pullers, pullerUser, pullerTarget,
                        strayPullers>>
  /\ first \/ addPuller
  /\ UNCHANGED <<userVars, pusherVars, pullClosed, sendVars, envVars>>

\* Room::HandleWsHeartbeat.
HandleWsHeartbeat(u) ==
  /\ Requester(u)
  /\ u \in users
  /\ alive' = [alive EXCEPT ![u] = TRUE]
  /\ UNCHANGED <<users, remote, respCb, pushMap, pusherVars, pullerVars,
                 sendVars, recvVars, envVars>>

-----------------------------------------------------------------------------
(* Media-plane callbacks                                                   *)

\* MediaPusher::HandleRtpPacket accepts a packet of pusher p (its session
\* is still open) and calls Room::OnRtpPacketFromRtcPusher: the publisher
\* and every user with a puller under pusher2pullers_[p] get a heartbeat;
\* the send relay of the publisher, if any, forwards the packet.
OnRtpPacketFromRtcPusher(p) ==
  /\ pusherOwner[p] # NoUser
  /\ p \notin pushClosed
  /\ alive' = Refresh({pusherOwner[p]} \cup PullerUsersOf(p))
  /\ UNCHANGED <<users, remote, respCb, pushMap, pusherVars, pullerVars,
                 sendVars, recvVars, envVars>>

\* RtcRecvRelay::OnRead of an RTP packet of pusher p on a held relay r:
\* the relay's liveness is refreshed, the packet resolved to p by its
\* SSRC and handed to Room::OnRtpPacketFromRemoteRtcPusher, which
\* refreshes the publisher and the pullers' users.
OnRtpPacketFromRemoteRtcPusher(r, p) ==
  /\ r \in HeldRelays \ {NoRelay}
  /\ p \in relayPushers[r]
  /\ relayAlive' = [relayAlive EXCEPT ![r] = TRUE]
  /\ alive' = Refresh({relayUser[r]} \cup PullerUsersOf(p))
  /\ UNCHANGED <<users, remote, respCb, pushMap, pusherVars, pullerVars,
                 sendVars, relayUser, relayPushers, pusherId2recvRelay,
                 pusherUser2recvRelay, envVars>>

\* An RTP packet on relay r that is dropped before reaching the room
\* (unknown SSRC, duplicate RTX, empty payload) still refreshes the relay.
RecvRelayDropRtp(r) ==
  /\ r \in HeldRelays \ {NoRelay}
  /\ relayAlive' = [relayAlive EXCEPT ![r] = TRUE]
  /\ UNCHANGED <<userVars, pusherVars, pullerVars, sendVars, relayUser,
                 relayPushers, pusherId2recvRelay, pusherUser2recvRelay,
                 envVars>>

\* Room::OnPushClose from the pusher's WebRtcSession.
OnPushClose(p) ==
  /\ pusherOwner[p] # NoUser
  /\ p \notin pushClosed
  /\ pushClosed' = pushClosed \cup {p}
  /\ pusherId2pusher' = pusherId2pusher \ {p}
  /\ UNCHANGED <<userVars, pusherOwner, pusherSsrc, strayPushers,
                 pullerVars, sendVars, recvVars, envVars>>

\* Room::OnPullClose from the puller's WebRtcSession.
OnPullClose(q) ==
  /\ pullerUser[q] # NoUser
  /\ q \notin pullClosed
  /\ pullClosed' = pullClosed \cup {q}
  /\ pusher2pullers' = [p \in PusherIds |-> pusher2pullers[p] \ {q}]
  /\ UNCHANGED <<userVars, pusherVars, pullerUser, pullerTarget,
                 strayPullers, sendVars, recvVars, envVars>>

\* Room::OnKeyFrameRequest for a publisher pusherUser: it dereferences
\* users_.find(pusherUser) unchecked; the rest (a PLI through the relay
\* or the MediaPusher) changes no room state.
OnKeyFrameRequest(pusherUser) ==
  /\ fault' = (fault \/ pusherUser \notin users)
  /\ UNCHANGED <<userVars, pusherVars, pullerVars, sendVars, recvVars,
                 inSession, joinPending, closed>>

\* A subscriber's PLI on puller q, whose session is still open.
KeyFrameFromPuller(q) ==
  /\ pullerUser[q] # NoUser
  /\ q \notin pullClosed
  /\ OnKeyFrameRequest(pullerTarget[q])

\* RtcSendRelay::HandleRtcpPsfbPacket: a PLI from the peer instance for
\* pusher p of the relay of user u.
KeyFrameFromSendRelay(u, p) ==
  /\ u \in sendRelays
  /\ p \in sendRelayPushers[u]
  /\ OnKeyFrameRequest(u)

-----------------------------------------------------------------------------
(* Pilot responses and notifications                                       *)

\* Room::JoinResponseFromPilotCenter for a response listing user u with
\* the pushers P: a user already in users_ is skipped, else it becomes a
\* remote user holding P.
JoinResponseFromPilotCenter(u, P) ==
  /\ joinPending
  /\ joinPending' = FALSE
  /\ IF u \notin users
       THEN /\ users' = users \cup {u}
            /\ remote' = [remote EXCEPT ![u] = TRUE]
            /\ respCb' = [respCb EXCEPT ![u] = FALSE]
            /\ alive' = [alive EXCEPT ![u] = TRUE]
            /\ pushMap' = [pushMap EXCEPT ![u] = P]
       ELSE UNCHANGED userVars
  /\ UNCHANGED <<pusherVars, pullerVars, sendVars, recvVars, inSession,
                 closed, fault>>

\* Room::HandleNewUserNotificationFromCenter.
HandleNewUserNotificationFromCenter(u) ==
  /\ u \notin users
  /\ users' = users \cup {u}
  /\ remote' = [remote EXCEPT ![u] = TRUE]
  /\ respCb' = [respCb EXCEPT ![u] = FALSE]
  /\ alive' = [alive EXCEPT ![u] = TRUE]
  /\ pushMap' = [pushMap EXCEPT ![u] = {}]
  /\ UNCHANGED <<pusherVars, pullerVars, sendVars, recvVars, envVars>>

\* Room::HandleNewPusherNotificationFromCenter: the user must be in
\* users_; it is marked remote (whatever it was) and given the pushers P.
HandleNewPusherNotificationFromCenter(u, P) ==
  /\ u \in users
  /\ remote' = [remote EXCEPT ![u] = TRUE]
  /\ pushMap' = [pushMap EXCEPT ![u] = @ \cup P]
  /\ UNCHANGED <<users, respCb, alive, pusherVars, pullerVars, sendVars,
                 recvVars, envVars>>

\* Room::HandlePullRemoteStreamNotificationFromCenter: the send relay of
\* publisher u is created if missing (u is not looked up in users_) and
\* given the PushInfo of p, which this instance once advertised for u.
HandlePullRemoteStreamNotificationFromCenter(u, p) ==
  /\ pusherOwner[p] = u
  /\ sendRelays' = sendRelays \cup {u}
  /\ sendRelayPushers' = [sendRelayPushers EXCEPT ![u] =
                            IF u \in sendRelays THEN @ \cup {p} ELSE {p}]
  /\ UNCHANGED <<userVars, pusherVars, pullerVars, recvVars, envVars>>

-----------------------------------------------------------------------------
(* Timer and time                                                          *)

\* The local users Room::OnTimer finds with a lapsed heartbeat (remote
\* users are skipped).
\* (Variant: only users that have also left or disconnected.)
TimedOutUsersLeftOnly == {u \in users : ~remote[u] /\ ~alive[u] /\ ~respCb[u]}
TimedOutUsers == {u \in users : ~remote[u] /\ ~alive[u]}

\* Room::ReleaseUserResources for each user of rel: UserLeave nulls the
\* callback, then the RtcUser, its pushers in pusherId2pusher_, its send
\* relay and its MediaPullers under every pusher are dropped.  The final
\* pusher2pullers_.erase(user_id) looks a user id up among pusher ids and
\* removes nothing.  The pullers of other users under the released
\* user's pushers stay.
\* (Variant: the loop over pusher2pullers_ is missing.)
ReleaseUserResourcesKeepPullers(rel) ==
  /\ users' = users \ rel
  /\ respCb' = [u \in Users |-> IF u \in rel THEN FALSE ELSE respCb[u]]
  /\ alive' = [u \in Users |-> IF u \in rel THEN FALSE ELSE alive[u]]
  /\ pushMap' = [u \in Users |-> IF u \in rel THEN {} ELSE pushMap[u]]
  /\ pusherId2pusher' = {p \in pusherId2pusher : pusherOwner[p] \notin rel}
  /\ sendRelays' = sendRelays \ rel
  /\ sendRelayPushers' =
       [u \in Users |-> IF u \in rel THEN {} ELSE sendRelayPushers[u]]
  /\ UNCHANGED pusher2pullers
ReleaseUserResources(rel) ==
  /\ users' = users \ rel
  /\ respCb' = [u \in Users |-> IF u \in rel THEN FALSE ELSE respCb[u]]
  /\ alive' = [u \in Users |-> IF u \in rel THEN FALSE ELSE alive[u]]
  /\ pushMap' = [u \in Users |-> IF u \in rel THEN {} ELSE pushMap[u]]
  /\ pusherId2pusher' = {p \in pusherId2pusher : pusherOwner[p] \notin rel}
  /\ sendRelays' = sendRelays \ rel
  /\ sendRelayPushers' =
       [u \in Users |-> IF u \in rel THEN {} ELSE sendRelayPushers[u]]
  /\ pusher2pullers' =
       [p \in PusherIds |-> {q \in pusher2pullers[p] : pullerUser[q] \notin rel}]

\* The second half of Room::OnTimer: every pusher id whose relay is not
\* alive is erased from pusherId2recvRelay_, and the relay's publishing
\* user from pusher_user_id2recvRelay_.
\* (Variant: the IsAlive() check of the loop is missing.)
DeadRelayPushersAll ==
  {p \in PusherIds : pusherId2recvRelay[p] # NoRelay}
DeadRelayPushers ==
  {p \in PusherIds : /\ pusherId2recvRelay[p] # NoRelay
                     /\ ~relayAlive[pusherId2recvRelay[p]]}

\* (Variant: pusher_user_id2recvRelay_ is not erased.)
ReapRecvRelaysKeepUserIndex ==
  /\ pusherId2recvRelay' =
       [p \in PusherIds |-> IF p \in DeadRelayPushers THEN NoRelay
                                                      ELSE pusherId2recvRelay[p]]
  /\ UNCHANGED pusherUser2recvRelay
ReapRecvRelays ==
  LET deadU == {relayUser[pusherId2recvRelay[p]] : p \in DeadRelayPushers}
  IN
  /\ pusherId2recvRelay' =
       [p \in PusherIds |-> IF p \in DeadRelayPushers THEN NoRelay
                                                      ELSE pusherId2recvRelay[p]]
  /\ pusherUser2recvRelay' =
       [u \in Users |-> IF u \in deadU THEN NoRelay ELSE pusherUser2recvRelay[u]]

\* Room::OnTimer, the 1 s timer of an open room.
OnTimer ==
  /\ ~closed
  /\ ReleaseUserResources(TimedOutUsers)
  /\ ReapRecvRelays
  /\ UNCHANGED <<remote, pusherOwner, pusherSsrc, pushClosed, strayPushers,
                 pullerUser, pullerTarget, pullClosed, strayPullers,
                 relayUser, relayAlive, relayPushers, envVars>>

\* 40 s pass without a heartbeat or RTP of user u: RtcUser::IsAlive turns
\* false.
Expire(u) ==
  /\ u \in users
  /\ alive[u]
  /\ alive' = [alive EXCEPT ![u] = FALSE]
  /\ UNCHANGED <<users, remote, respCb, pushMap, pusherVars, pullerVars,
                 sendVars, recvVars, envVars>>

\* 40 s pass without RTP on relay r: RtcRecvRelay::IsAlive turns false.
ExpireRelay(r) ==
  /\ r \in HeldRelays \ {NoRelay}
  /\ relayAlive[r]
  /\ relayAlive' = [relayAlive EXCEPT ![r] = FALSE]
  /\ UNCHANGED <<userVars, pusherVars, pullerVars, sendVars, relayUser,
                 relayPushers, pusherId2recvRelay, pusherUser2recvRelay,
                 envVars>>

\* Room::Close: the room is closed and its timer stopped.
Close ==
  /\ ~closed
  /\ closed' = TRUE
  /\ UNCHANGED <<userVars, pusherVars, pullerVars, sendVars, recvVars,
                 inSession, joinPending, fault>>

-----------------------------------------------------------------------------

OwnedRemote(u) == {p \in RemotePusherIds : RemoteOwner[p] = u}

Next ==
  \/ \E u \in Users :
       \/ UserJoin(u) \/ ReConnect(u) \/ UserLeave(u)
       \/ HandleWsHeartbeat(u) \/ Expire(u)
       \/ HandleNewUserNotificationFromCenter(u)
       \/ \E P \in SUBSET OwnedRemote(u) :
            \/ JoinResponseFromPilotCenter(u, P)
            \/ HandleNewPusherNotificationFromCenter(u, P)
       \/ \E p \in LocalPusherIds :
            \/ HandlePullRemoteStreamNotificationFromCenter(u, p)
            \/ KeyFrameFromSendRelay(u, p)
            \/ \E s \in Ssrcs : HandlePushSdp(u, s, p)
  \/ \E src, target \in Users, q \in PullerIds :
       \/ \E p \in LocalPusherIds : HandlePullSdp(src, target, p, q)
       \/ \E p \in RemotePusherIds, r \in RelayIds, ok \in BOOLEAN :
            HandleRemotePullSdp(src, target, p, q, r, ok)
  \/ \E p \in LocalPusherIds : OnRtpPacketFromRtcPusher(p) \/ OnPushClose(p)
  \/ \E q \in PullerIds : OnPullClose(q) \/ KeyFrameFromPuller(q)
  \/ \E r \in RelayIds :
       \/ RecvRelayDropRtp(r) \/ ExpireRelay(r)
       \/ \E p \in PusherIds : OnRtpPacketFromRemoteRtcPusher(r, p)
  \/ OnTimer
  \/ Close

\* The timer is a libuv timer of the loop that runs every handler: while
\* the room is open it keeps firing.
Fairness == WF_vars(OnTimer)

Spec == Init /\ [][Next]_vars /\ Fairness

-----------------------------------------------------------------------------
(* Properties                                                              *)

\* The type invariant: every table holds ids of the right kind.
TypeOK ==
  /\ users \subseteq Users
  /\ remote \in [Users -> BOOLEAN]
  /\ respCb \in [Users -> BOOLEAN]
  /\ alive \in [Users -> BOOLEAN]
  /\ pushMap \in [Users -> SUBSET PusherIds]
  /\ pusherOwner \in [LocalPusherIds -> Users \cup {NoUser}]
  /\ pusherSsrc \in [LocalPusherIds -> Ssrcs \cup {0}]
  /\ pusherId2pusher \subseteq LocalPusherIds
  /\ pushClosed \subseteq LocalPusherIds
  /\ pusher2pullers \in [PusherIds -> SUBSET PullerIds]
  /\ pullerUser \in [PullerIds -> Users \cup {NoUser}]
  /\ pullerTarget \in [PullerIds -> Users \cup {NoUser}]
  /\ pullClosed \subseteq PullerIds
  /\ sendRelays \subseteq Users
  /\ sendRelayPushers \in [Users -> SUBSET LocalPusherIds]
  /\ relayUser \in [RelayIds -> Users \cup {NoUser}]
  /\ relayAlive \in [RelayIds -> BOOLEAN]
  /\ relayPushers \in [RelayIds -> SUBSET RemotePusherIds]
  /\ pusherId2recvRelay \in [PusherIds -> RelayIds \cup {NoRelay}]
  /\ pusherUser2recvRelay \in [Users -> RelayIds \cup {NoRelay}]
  /\ inSession \in [Users -> BOOLEAN]
  /\ joinPending \in BOOLEAN
  /\ closed \in BOOLEAN
  /\ fault \in BOOLEAN
  /\ strayPushers \subseteq LocalPusherIds
  /\ strayPullers \subseteq PullerIds

\* No orphans at all: every MediaPusher in pusherId2pusher_ and every
\* MediaPuller in pusher2pullers_ belongs to a user still in users_.  The
\* release in Room::OnTimer gives this only if no request of a released
\* user reaches HandlePushSdp or HandlePullSdp afterwards.
OrphanFree ==
  /\ \A p \in pusherId2pusher : pusherOwner[p] \in users
  /\ \A p \in PusherIds : \A q \in pusher2pullers[p] : pullerUser[q] \in users

\* ReleaseUserResources is complete whatever the front end forwards: a
\* MediaPusher in pusherId2pusher_ or a MediaPuller in pusher2pullers_
\* whose user is not in users_ is one that HandlePushSdp, HandlePullSdp or
\* HandleRemotePullSdp created for a requester that was already out of
\* users_ (a session the timer released before it signalled).  The
\* release loops in Room::OnTimer leave nothing of a released user.
OrphansAreStrays ==
  /\ \A p \in pusherId2pusher : pusherOwner[p] \in users \/ p \in strayPushers
  /\ \A p \in PusherIds : \A q \in pusher2pullers[p] :
       pullerUser[q] \in users \/ q \in strayPullers

\* The two receive-relay indexes agree, which is what lets the timer drop
\* a relay found dead under a pusher id by the user id it was created for,
\* and OnKeyFrameRequest reach by user the relay that receives a pusher:
\* a relay under a user belongs to that user and is still indexed by one
\* of its pushers, and a relay under a pusher holds that pusher and is the
\* one indexed under its publishing user.
RecvRelayIndexConsistent ==
  /\ \A u \in Users :
       LET r == pusherUser2recvRelay[u] IN
       r # NoRelay => /\ relayUser[r] = u
                      /\ \E p \in PusherIds : pusherId2recvRelay[p] = r
  /\ \A p \in PusherIds :
       LET r == pusherId2recvRelay[p] IN
       r # NoRelay => /\ p \in relayPushers[r]
                      /\ pusherUser2recvRelay[relayUser[r]] = r

\* A local user whose heartbeat has lapsed is eventually released by
\* Room::OnTimer, unless it is refreshed first, turned remote, or the room
\* is closed.
UserReaped ==
  \A u \in Users :
    (u \in users /\ ~remote[u] /\ ~alive[u])
      ~> (u \notin users \/ alive[u] \/ remote[u] \/ closed)

\* A receive relay whose 40 s window has lapsed is eventually dropped from
\* both indexes by Room::OnTimer (closing its UDP port), unless RTP
\* revives it first or the room is closed.
RelayReaped ==
  \A r \in RelayIds :
    (r \in HeldRelays /\ ~relayAlive[r])
      ~> (r \notin HeldRelays \/ relayAlive[r] \/ closed)

\* A receive relay leaves both indexes, which destroys it and closes its
\* UDP port, only when it is no longer alive: neither the timer's two
\* erase loops in Room::OnTimer nor a pull that re-indexes a pusher in
\* CreateOrGetRecvRtcRelay ever drops a relay that still receives RTP.
LiveRelayKept ==
  \A r \in RelayIds : (r \in HeldRelays /\ r \notin HeldRelays') => ~relayAlive[r]
NoLiveRelayReaped == [][LiveRelayKept]_vars

\* Room::OnKeyFrameRequest never dereferences users_.end(): a key-frame
\* request always names a publisher still in users_.
NoUndefinedKeyFrame == ~fault

\* A user whose signaling session is open has its response callback bound
\* (the spec's reconnect rebinds it).
SessionCallbackBound == \A u \in users : inSession[u] => respCb[u]

\* Remote users never carry a response callback.
RemoteHasNoRespCb == \A u \in users : remote[u] => ~respCb[u]

\* Every send relay is for a publisher still in users_, so that releasing
\* the publisher releases it.
SendRelayOwned == sendRelays \subseteq users

\* Primary SSRCs are unique among the room's active pushers.
SsrcUnique ==
  \A p1, p2 \in pusherId2pusher : p1 # p2 => pusherSsrc[p1] # pusherSsrc[p2]


-----------------------------------------------------------------------------
(* Refinement: the room as a membership service                            *)

\* The streams each user publishes here, and the subscriptions each holds,
\* as the room's tables record them, leaving out what requests from
\* non-members created (the strays) and the subscriptions to a stray.
PublishedBy ==
  [u \in Users |-> {p \in pusherId2pusher \ strayPushers : pusherOwner[p] = u}]
SubscribedBy ==
  [u \in Users |-> {x \in PusherIds \X PullerIds :
                      /\ x[2] \in pusher2pullers[x[1]]
                      /\ pullerUser[x[2]] = u
                      /\ x[1] \notin strayPushers
                      /\ x[2] \notin strayPullers}]

Membership == INSTANCE RoomMembership
                WITH members <- users, published <- PublishedBy,
                     subscribed <- SubscribedBy

\* Room implements RoomMembership, whatever requests the front end
\* forwards: every handler, pilot notification and timer step of the room
\* either leaves membership, publications and subscriptions (strays set
\* aside) alone or is one membership step, so a released user
\* takes all its MediaPushers and MediaPullers with it at once, a puller
\* is only created for a member on a published or remote stream, and a
\* close callback removes exactly its own pusher or puller.
ImplementsMembership == Membership!MSpec

=============================================================================
