------------------------------ MODULE Cascade ------------------------------
(***************************************************************************)
(* One publishing user U across two instances of the SFU.  On the origin  *)
(* instance U publishes MediaPushers and Room keeps one RtcSendRelay for  *)
(* U (pusher_user_id2sendRelay_).  On the subscriber instance, Room keeps *)
(* the RtcRecvRelay of U under pusher_user_id2recvRelay_ and under each   *)
(* pusher id; each relay listens on a fresh UDP port.  A subscriber's     *)
(* pull sends a pullRemoteStream notification through the pilot centre    *)
(* carrying that port; the origin's send relay forwards U's RTP to the    *)
(* port it was created with.  The subscriber's 1 s timer reaps a relay    *)
(* that has seen no RTP for 40 s.                                         *)
(*                                                                         *)
(* Users, sessions and heartbeats are left to Room.tla: U stays on the    *)
(* origin and the subscribers stay on theirs.  UDP is reliable here, and  *)
(* the pilot relays a notification well within the 40 s relay timeout,   *)
(* so a relay only lapses when no RTP is forwarded to its port.           *)
(***************************************************************************)

CONSTANTS
  Pushers,        \* pusher ids U may publish on the origin
  Ports,          \* UDP ports the subscriber's PortGenerator may hand out
  NoPort,         \* no relay under this key
  RelayTimeouts   \* whether 40 s may pass without RTP on a relay port

ASSUME CascadeAssumption ==
  /\ NoPort \notin Ports
  /\ RelayTimeouts \in BOOLEAN

VARIABLES
  (* origin instance *)
  pubState,      \* "new" before HandlePushSdp, "live", "closed" after OnPushClose
  sendEndpoint,  \* port given to U's RtcSendRelay when created, NoPort if none
  sendPushers,   \* RtcSendRelay::push_infos_ of that relay
  (* pilot centre *)
  pullReqs,      \* pullRemoteStream notifications in transit: <<port, pusher>>
  (* subscriber instance *)
  known,         \* the PushInfos of U its Room holds (newPusher notifications)
  relayState,    \* per port: "free", or the RtcRecvRelay on it is
                 \* "alive", "stale" (IsAlive() false) or "closed" (destroyed)
  relayPushers,  \* RtcRecvRelay::push_infos_ of the relay on each port
  pusherRelay,   \* Room::pusherId2recvRelay_
  userRelay,     \* Room::pusher_user_id2recvRelay_[U]
  pulling,       \* pushers with a MediaPuller under pusher2pullers_
  gotMedia       \* pushers whose RTP has reached a MediaPuller

originVars == <<pubState, sendEndpoint, sendPushers>>
subVars == <<known, relayState, relayPushers, pusherRelay, userRelay,
             pulling, gotMedia>>
cvars == <<originVars, pullReqs, subVars>>

\* A relay is on its port until Room drops its last reference.
Open(o) == relayState[o] \in {"alive", "stale"}

-----------------------------------------------------------------------------

CInit ==
  /\ pubState = [p \in Pushers |-> "new"]
  /\ sendEndpoint = NoPort
  /\ sendPushers = {}
  /\ pullReqs = {}
  /\ known = {}
  /\ relayState = [o \in Ports |-> "free"]
  /\ relayPushers = [o \in Ports |-> {}]
  /\ pusherRelay = [p \in Pushers |-> NoPort]
  /\ userRelay = NoPort
  /\ pulling = {}
  /\ gotMedia = {}

(* Origin instance *)

\* Room::HandlePushSdp of U creates MediaPusher p, and NewPusher2PilotCenter
\* announces it.
Publish(p) ==
  /\ pubState[p] = "new"
  /\ pubState' = [pubState EXCEPT ![p] = "live"]
  /\ UNCHANGED <<sendEndpoint, sendPushers, pullReqs, subVars>>

\* Room::OnPushClose: the pusher leaves pusherId2pusher_ and stops sending;
\* the send relay keeps its PushInfo.
ClosePusher(p) ==
  /\ pubState[p] = "live"
  /\ pubState' = [pubState EXCEPT ![p] = "closed"]
  /\ UNCHANGED <<sendEndpoint, sendPushers, pullReqs, subVars>>

\* The RtcSendRelay constructor: the relay sends to the notified port.
CreateSendRelay(o) == sendEndpoint' = o

\* RtcSendRelay::AddPushInfo.
AddPushInfo(p) == sendPushers' = sendPushers \cup {p}

\* Variant of HandlePullRemoteStream that adds the PushInfo only to a
\* relay it creates.
HandlePullRemoteStreamFirstOnly(o, p) ==
  /\ <<o, p>> \in pullReqs
  /\ pullReqs' = pullReqs \ {<<o, p>>}
  /\ IF sendEndpoint = NoPort
       THEN CreateSendRelay(o) /\ AddPushInfo(p)
       ELSE UNCHANGED <<sendEndpoint, sendPushers>>
  /\ UNCHANGED <<pubState, subVars>>

\* Room::HandlePullRemoteStreamNotificationFromCenter: a send relay for U
\* is created with the notified port only if U has none; the existing one
\* keeps the port it was created with.  Either way it gets p's PushInfo.
HandlePullRemoteStream(o, p) ==
  /\ <<o, p>> \in pullReqs
  /\ pullReqs' = pullReqs \ {<<o, p>>}
  /\ IF sendEndpoint = NoPort THEN CreateSendRelay(o)
                             ELSE UNCHANGED sendEndpoint
  /\ AddPushInfo(p)
  /\ UNCHANGED <<pubState, subVars>>

\* An RTP packet of live pusher p: Room::OnRtpPacketFromRtcPusher hands it
\* to U's send relay, RtcSendRelay::SendRtpPacket finds p's send session
\* and sends to its port.  If a relay listens there, RtcRecvRelay::OnRead
\* refreshes it and, when p is one of its pushers, HandleRtpPacket passes
\* it to Room::OnRtpPacketFromRemoteRtcPusher, which feeds p's pullers.
ForwardRtp(p) ==
  /\ pubState[p] = "live"
  /\ p \in sendPushers
  /\ sendEndpoint # NoPort
  /\ Open(sendEndpoint)
  /\ relayState' = [relayState EXCEPT ![sendEndpoint] = "alive"]
  /\ gotMedia' = IF p \in relayPushers[sendEndpoint] /\ p \in pulling
                   THEN gotMedia \cup {p} ELSE gotMedia
  /\ UNCHANGED <<originVars, pullReqs, known, relayPushers, pusherRelay,
                 userRelay, pulling>>

(* Pilot centre and subscriber instance *)

\* Room::HandleNewPusherNotificationFromCenter adds p to U's PushInfos.
HandleNewPusherNotification(p) ==
  /\ pubState[p] # "new"
  /\ p \notin known
  /\ known' = known \cup {p}
  /\ UNCHANGED <<originVars, pullReqs, relayState, relayPushers, pusherRelay,
                 userRelay, pulling, gotMedia>>

\* RtcRecvRelay::AddVirtualPusher on the relay of port o.
AddVirtualPusher(o, p) == relayPushers' = [relayPushers EXCEPT ![o] = @ \cup {p}]

\* Variant of HandleRemotePullSdp that looks the relay up by pusher id
\* instead of by publishing user, so each pusher gets a relay of its own.
HandleRemotePullSdpPerPusher(p, o) ==
  LET rr == IF pusherRelay[p] # NoPort THEN pusherRelay[p] ELSE o IN
  /\ p \in known
  /\ pusherRelay[p] # NoPort \/ relayState[o] = "free"
  /\ relayState' = IF pusherRelay[p] = NoPort
                     THEN [relayState EXCEPT ![o] = "alive"] ELSE relayState
  /\ AddVirtualPusher(rr, p)
  /\ pusherRelay' = [pusherRelay EXCEPT ![p] = rr]
  /\ userRelay' = rr
  /\ pullReqs' = pullReqs \cup {<<rr, p>>}
  /\ pulling' = pulling \cup {p}
  /\ UNCHANGED <<originVars, known, gotMedia>>

\* Room::HandleRemotePullSdp of p by a subscriber: PullRemotePusher reuses
\* U's relay or creates one on the free port o, adds p to it, indexes it,
\* and SendPullRequestToPilotCenter sends the relay's port; then a
\* MediaPuller of p is created.
HandleRemotePullSdp(p, o) ==
  LET rr == IF userRelay # NoPort THEN userRelay ELSE o IN
  /\ p \in known
  /\ userRelay # NoPort \/ relayState[o] = "free"
  /\ relayState' = IF userRelay = NoPort
                     THEN [relayState EXCEPT ![o] = "alive"] ELSE relayState
  /\ AddVirtualPusher(rr, p)
  /\ pusherRelay' = [pusherRelay EXCEPT ![p] = rr]
  /\ userRelay' = rr
  /\ pullReqs' = pullReqs \cup {<<rr, p>>}
  /\ pulling' = pulling \cup {p}
  /\ UNCHANGED <<originVars, known, gotMedia>>

\* 40 s pass with no RTP on port o: no live pusher's RTP is forwarded there
\* and no pull request for it is still in transit.
ExpireRelay(o) ==
  /\ RelayTimeouts
  /\ relayState[o] = "alive"
  /\ ~(sendEndpoint = o /\ \E p \in sendPushers : pubState[p] = "live")
  /\ \A p \in Pushers : <<o, p>> \notin pullReqs
  /\ relayState' = [relayState EXCEPT ![o] = "stale"]
  /\ UNCHANGED <<originVars, pullReqs, known, relayPushers, pusherRelay,
                 userRelay, pulling, gotMedia>>

\* The relay part of the subscriber's Room::OnTimer: the pusher ids whose
\* relay is not alive are erased from pusherId2recvRelay_ and U from
\* pusher_user_id2recvRelay_; a relay no longer referenced is destroyed
\* and its port closed.  The MediaPullers stay.
ReapRelays ==
  LET dead == {p \in Pushers : /\ pusherRelay[p] # NoPort
                               /\ relayState[pusherRelay[p]] = "stale"}
      pr   == [p \in Pushers |-> IF p \in dead THEN NoPort ELSE pusherRelay[p]]
      ur   == IF dead # {} THEN NoPort ELSE userRelay
      held == {pr[p] : p \in Pushers} \cup {ur}
  IN
  /\ dead # {}
  /\ pusherRelay' = pr
  /\ userRelay' = ur
  /\ relayState' = [o \in Ports |-> IF Open(o) /\ o \notin held THEN "closed"
                                                               ELSE relayState[o]]
  /\ UNCHANGED <<originVars, pullReqs, known, relayPushers, pulling, gotMedia>>

-----------------------------------------------------------------------------

CNext ==
  \/ \E p \in Pushers :
       \/ Publish(p) \/ ClosePusher(p) \/ ForwardRtp(p)
       \/ HandleNewPusherNotification(p)
       \/ \E o \in Ports : HandleRemotePullSdp(p, o) \/ HandlePullRemoteStream(o, p)
  \/ \E o \in Ports : ExpireRelay(o)
  \/ ReapRelays

\* The pilot centre delivers every notification, a live pusher keeps
\* producing RTP, and the subscriber's Room timer keeps firing.
CFairness ==
  /\ \A o \in Ports, p \in Pushers : WF_cvars(HandlePullRemoteStream(o, p))
  /\ \A p \in Pushers : WF_cvars(ForwardRtp(p))
  /\ WF_cvars(ReapRelays)

CSpec == CInit /\ [][CNext]_cvars /\ CFairness

-----------------------------------------------------------------------------
(* Properties                                                              *)

CTypeOK ==
  /\ pubState \in [Pushers -> {"new", "live", "closed"}]
  /\ sendEndpoint \in Ports \cup {NoPort}
  /\ sendPushers \subseteq Pushers
  /\ pullReqs \subseteq Ports \X Pushers
  /\ known \subseteq Pushers
  /\ relayState \in [Ports -> {"free", "alive", "stale", "closed"}]
  /\ relayPushers \in [Ports -> SUBSET Pushers]
  /\ pusherRelay \in [Pushers -> Ports \cup {NoPort}]
  /\ userRelay \in Ports \cup {NoPort}
  /\ pulling \subseteq Pushers
  /\ gotMedia \subseteq Pushers

\* A subscriber that pulls a remote stream gets its RTP while the stream
\* is published: the pull's pullRemoteStream notification names the
\* relay's port, and the origin's send relay forwards the stream there.
PulledStreamArrives ==
  \A p \in Pushers :
    (p \in pulling /\ pubState[p] = "live")
      ~> (p \in gotMedia \/ pubState[p] = "closed")


\* The subscriber holds one RtcRecvRelay for U at a time, and its indexes
\* never keep a destroyed one: the relay under U is open and indexed by
\* one of U's pushers, and every pusher indexed is on that relay, so
\* CreateOrGetRecvRtcRelay and the timer's reap keep the two maps of Room
\* and the relays' lifetimes in step.
OneRelayPerPublisher ==
  /\ userRelay # NoPort => /\ Open(userRelay)
                           /\ \E p \in Pushers : pusherRelay[p] = userRelay
  /\ \A p \in Pushers :
       pusherRelay[p] # NoPort => /\ pusherRelay[p] = userRelay
                                  /\ p \in relayPushers[pusherRelay[p]]

=============================================================================
