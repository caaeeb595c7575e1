----------------------------- MODULE RoomProofs -----------------------------
(***************************************************************************)
(* Proofs about the Room model, for every value of its constants.          *)
(***************************************************************************)
EXTENDS Room, TLAPS

USE ConstantsAssumption

\* The remote pushers a user holds are the ones the pilot attributes to it
\* (JoinResponseFromPilotCenter and HandleNewPusherNotificationFromCenter
\* only add the pushers of the announced user).
RemotePushMapOwned ==
  \A u \in Users : pushMap[u] \cap RemotePusherIds \subseteq OwnedRemote(u)

\* A pusher id is indexed only for a remote pusher, and to a relay of the
\* user that publishes it.
RelayIndexedByOwner ==
  \A p \in PusherIds :
    pusherId2recvRelay[p] # NoRelay =>
      /\ p \in RemotePusherIds
      /\ relayUser[pusherId2recvRelay[p]] = RemoteOwner[p]

\* The inductive invariant behind RecvRelayIndexConsistent.
RelayPart == RecvRelayIndexConsistent /\ RemotePushMapOwned /\ RelayIndexedByOwner
RelayInv == TypeOK /\ RelayPart

\* Every handler, pilot callback and timer step keeps every table of the
\* room well typed.
LEMMA TypeOKStep == TypeOK /\ [Next]_vars => TypeOK'
<1> SUFFICES ASSUME TypeOK, [Next]_vars PROVE TypeOK'
  OBVIOUS
<1>1. ASSUME NEW u \in Users
      PROVE  /\ UserJoin(u) => TypeOK'
             /\ ReConnect(u) => TypeOK'
             /\ UserLeave(u) => TypeOK'
             /\ HandleWsHeartbeat(u) => TypeOK'
             /\ Expire(u) => TypeOK'
             /\ HandleNewUserNotificationFromCenter(u) => TypeOK'
  BY DEF UserJoin, ReConnect, UserLeave, HandleWsHeartbeat, Expire,
         HandleNewUserNotificationFromCenter, TypeOK, userVars, pusherVars,
         pullerVars, sendVars, recvVars, envVars, Requester
<1>2. ASSUME NEW u \in Users, NEW P \in SUBSET OwnedRemote(u)
      PROVE  /\ JoinResponseFromPilotCenter(u, P) => TypeOK'
             /\ HandleNewPusherNotificationFromCenter(u, P) => TypeOK'
  <2>1. P \subseteq PusherIds
    BY DEF OwnedRemote, PusherIds
  <2>2. ASSUME JoinResponseFromPilotCenter(u, P), u \notin users
        PROVE  TypeOK'
    <3>1. /\ users' = users \cup {u}
          /\ remote' = [remote EXCEPT ![u] = TRUE]
          /\ respCb' = [respCb EXCEPT ![u] = FALSE]
          /\ alive' = [alive EXCEPT ![u] = TRUE]
          /\ pushMap' = [pushMap EXCEPT ![u] = P]
          /\ joinPending' = FALSE
          /\ UNCHANGED <<pusherVars, pullerVars, sendVars, recvVars,
                         inSession, closed, fault>>
      BY <2>2 DEF JoinResponseFromPilotCenter
    <3>2. QED
      BY <2>1, <3>1 DEF TypeOK, pusherVars, pullerVars, sendVars, recvVars
  <2>3. JoinResponseFromPilotCenter(u, P) /\ u \in users => TypeOK'
    BY DEF JoinResponseFromPilotCenter, TypeOK, userVars, pusherVars,
           pullerVars, sendVars, recvVars
  <2>4. HandleNewPusherNotificationFromCenter(u, P) => TypeOK'
    BY <2>1 DEF HandleNewPusherNotificationFromCenter, TypeOK, pusherVars,
                pullerVars, sendVars, recvVars, envVars
  <2>5. QED
    BY <2>2, <2>3, <2>4
<1>3. ASSUME NEW u \in Users, NEW p \in LocalPusherIds
      PROVE  /\ HandlePullRemoteStreamNotificationFromCenter(u, p) => TypeOK'
             /\ KeyFrameFromSendRelay(u, p) => TypeOK'
             /\ \A s \in Ssrcs : HandlePushSdp(u, s, p) => TypeOK'
  <2>1. HandlePullRemoteStreamNotificationFromCenter(u, p) => TypeOK'
    BY DEF HandlePullRemoteStreamNotificationFromCenter, TypeOK, userVars,
           pusherVars, pullerVars, recvVars, envVars
  <2>2. KeyFrameFromSendRelay(u, p) => TypeOK'
    BY DEF KeyFrameFromSendRelay, OnKeyFrameRequest, TypeOK, userVars,
           pusherVars, pullerVars, sendVars, recvVars
  <2>3. ASSUME NEW s \in Ssrcs, HandlePushSdp(u, s, p) PROVE TypeOK'
    BY <2>3 DEF HandlePushSdp, Refresh, NoteStray, TypeOK, pullerVars,
                sendVars, recvVars, envVars, PusherIds
  <2>4. QED
    BY <2>1, <2>2, <2>3
<1>4. ASSUME NEW src \in Users, NEW target \in Users, NEW q \in PullerIds,
             NEW p \in LocalPusherIds
      PROVE  HandlePullSdp(src, target, p, q) => TypeOK'
  BY DEF HandlePullSdp, Requester, NoteStray, TypeOK, userVars, pusherVars,
         pullerVars, sendVars, recvVars, envVars, PusherIds
<1>5. ASSUME NEW src \in Users, NEW target \in Users, NEW q \in PullerIds,
             NEW p \in RemotePusherIds, NEW r \in RelayIds,
             NEW ok \in BOOLEAN,
             HandleRemotePullSdp(src, target, p, q, r, ok)
      PROVE  TypeOK'
  <2>1. p \in PusherIds
    BY DEF PusherIds
  <2>2. (/\ relayUser \in [RelayIds -> Users \cup {NoUser}]
        /\ relayAlive \in [RelayIds -> BOOLEAN]
        /\ relayPushers \in [RelayIds -> SUBSET RemotePusherIds]
        /\ pusherId2recvRelay \in [PusherIds -> RelayIds \cup {NoRelay}]
        /\ pusherUser2recvRelay \in [Users -> RelayIds \cup {NoRelay}])'
    <3>1. CASE target \in users /\ p \in pushMap[target]
      <4>1. PullRemotePusher(target, p, r)
        BY <1>5, <3>1 DEF HandleRemotePullSdp
      <4>2. pusherUser2recvRelay[target] # NoRelay
              => pusherUser2recvRelay[target] \in RelayIds
        BY DEF TypeOK
      <4>3. QED
        BY <4>1, <4>2, <2>1 DEF PullRemotePusher, TypeOK
    <3>2. CASE ~(target \in users /\ p \in pushMap[target])
      BY <1>5, <3>2 DEF HandleRemotePullSdp, TypeOK, recvVars
    <3>3. QED
      BY <3>1, <3>2
  <2>3. (/\ pusher2pullers \in [PusherIds -> SUBSET PullerIds]
        /\ pullerUser \in [PullerIds -> Users \cup {NoUser}]
        /\ pullerTarget \in [PullerIds -> Users \cup {NoUser}]
        /\ strayPullers \subseteq PullerIds)'
    BY <1>5, <2>1 DEF HandleRemotePullSdp, NoteStray, TypeOK
  <2>4. UNCHANGED <<userVars, pusherVars, pullClosed, sendVars, envVars>>
    BY <1>5 DEF HandleRemotePullSdp
  <2>5. QED
    BY <2>2, <2>3, <2>4 DEF TypeOK, userVars, pusherVars, sendVars, envVars
<1>6. ASSUME NEW p \in LocalPusherIds
      PROVE  /\ OnRtpPacketFromRtcPusher(p) => TypeOK'
             /\ OnPushClose(p) => TypeOK'
  BY DEF OnRtpPacketFromRtcPusher, OnPushClose, Refresh, TypeOK,
         userVars, pusherVars, pullerVars, sendVars, recvVars, envVars
<1>7. ASSUME NEW q \in PullerIds
      PROVE  /\ OnPullClose(q) => TypeOK'
             /\ KeyFrameFromPuller(q) => TypeOK'
  <2>1. OnPullClose(q) => TypeOK'
    BY DEF OnPullClose, TypeOK, userVars, pusherVars, sendVars, recvVars,
           envVars
  <2>2. KeyFrameFromPuller(q) => TypeOK'
    BY DEF KeyFrameFromPuller, OnKeyFrameRequest, TypeOK, userVars,
           pusherVars, pullerVars, sendVars, recvVars
  <2>3. QED
    BY <2>1, <2>2
<1>8. ASSUME NEW r \in RelayIds
      PROVE  /\ RecvRelayDropRtp(r) => TypeOK'
             /\ ExpireRelay(r) => TypeOK'
             /\ \A p \in PusherIds :
                  OnRtpPacketFromRemoteRtcPusher(r, p) => TypeOK'
  BY DEF RecvRelayDropRtp, ExpireRelay, OnRtpPacketFromRemoteRtcPusher,
         Refresh, TypeOK, userVars, pusherVars, pullerVars, sendVars,
         recvVars, envVars
<1>9. ASSUME OnTimer PROVE TypeOK'
  <2>1. ReleaseUserResources(TimedOutUsers) /\ ReapRecvRelays
    BY <1>9 DEF OnTimer
  <2>2. (/\ users \subseteq Users
        /\ respCb \in [Users -> BOOLEAN]
        /\ alive \in [Users -> BOOLEAN]
        /\ pushMap \in [Users -> SUBSET PusherIds]
        /\ pusherId2pusher \subseteq LocalPusherIds
        /\ sendRelays \subseteq Users
        /\ sendRelayPushers \in [Users -> SUBSET LocalPusherIds]
        /\ pusher2pullers \in [PusherIds -> SUBSET PullerIds])'
    BY <2>1 DEF ReleaseUserResources, TypeOK
  <2>3. (/\ pusherId2recvRelay \in [PusherIds -> RelayIds \cup {NoRelay}]
        /\ pusherUser2recvRelay \in [Users -> RelayIds \cup {NoRelay}])'
    BY <2>1 DEF ReapRecvRelays, TypeOK
  <2>4. UNCHANGED <<remote, pusherOwner, pusherSsrc, pushClosed, strayPushers,
                   pullerUser, pullerTarget, pullClosed, strayPullers,
                   relayUser, relayAlive, relayPushers, inSession,
                   joinPending, closed, fault>>
    BY <1>9 DEF OnTimer, envVars
  <2>5. QED
    BY <2>2, <2>3, <2>4 DEF TypeOK
<1>10. Close => TypeOK'
  BY DEF Close, TypeOK, userVars, pusherVars, pullerVars, sendVars,
         recvVars, envVars
<1>11. UNCHANGED vars => TypeOK'
  BY DEF vars, TypeOK, userVars, pusherVars, pullerVars, sendVars,
         recvVars, envVars
<1>12. QED
  BY <1>1, <1>2, <1>3, <1>4, <1>5, <1>6, <1>7, <1>8, <1>9, <1>10, <1>11
  DEF Next, OwnedRemote

\* Room::Room starts from well-typed, empty tables, and every handler
\* keeps every table well typed.
THEOREM TypeCorrect == Spec => []TypeOK
<1>1. Init => TypeOK
  BY DEF Init, TypeOK, PusherIds
<1>2. QED
  BY <1>1, TypeOKStep, PTL DEF Spec

\* A step that leaves the push maps, the relays' owners and pushers and
\* both indexes alone keeps the relay invariant.
LEMMA RelayFrame ==
  ASSUME RelayPart,
         UNCHANGED <<pushMap, relayUser, relayPushers, pusherId2recvRelay,
                     pusherUser2recvRelay>>
  PROVE  RelayPart'
  BY DEF RelayPart, RecvRelayIndexConsistent, RemotePushMapOwned,
         RelayIndexedByOwner

\* A step that leaves the relays and both indexes alone and gives each
\* user only remote pushers the pilot attributes to it keeps the relay
\* invariant.
LEMMA RelayPushMap ==
  ASSUME RelayPart,
         UNCHANGED <<relayUser, relayPushers, pusherId2recvRelay,
                     pusherUser2recvRelay>>,
         \A u \in Users : pushMap'[u] \cap RemotePusherIds \subseteq OwnedRemote(u)
  PROVE  RelayPart'
  BY DEF RelayPart, RecvRelayIndexConsistent, RemotePushMapOwned,
         RelayIndexedByOwner

\* Room::PullRemotePusher for a remote pusher p that user u holds, with r
\* a relay id not yet used, keeps the relay invariant: either u's relay
\* is reused, or the new relay r is indexed under both p and u.
LEMMA RelayPullRemote ==
  ASSUME TypeOK, RelayPart,
         NEW u \in Users, NEW p \in RemotePusherIds, NEW r \in RelayIds,
         relayUser[r] = NoUser, p \in pushMap[u],
         PullRemotePusher(u, p, r), UNCHANGED pushMap
  PROVE  RelayPart'
<1> DEFINE rr == IF pusherUser2recvRelay[u] # NoRelay
                   THEN pusherUser2recvRelay[u] ELSE r
<1>1. RemoteOwner[p] = u
  BY DEF RelayPart, RemotePushMapOwned, OwnedRemote
<1>2. /\ rr \in RelayIds
      /\ relayUser' = [relayUser EXCEPT ![rr] = u]
      /\ relayPushers' = [relayPushers EXCEPT ![rr] = @ \cup {p}]
      /\ pusherId2recvRelay' = [pusherId2recvRelay EXCEPT ![p] = rr]
      /\ pusherUser2recvRelay' = [pusherUser2recvRelay EXCEPT ![u] = rr]
  BY DEF PullRemotePusher, TypeOK
<1>3. p \in PusherIds
  BY DEF PusherIds
<1>4. \A w \in Users : pusherUser2recvRelay[w] # NoRelay =>
                        relayUser[pusherUser2recvRelay[w]] = w
  BY DEF RelayPart, RecvRelayIndexConsistent
<1>5. \A w \in Users \ {u} : pusherUser2recvRelay[w] # rr
  BY <1>4 DEF TypeOK
<1>6. \A q \in PusherIds \ {p} : pusherId2recvRelay[q] = rr =>
                                   RemoteOwner[q] = u
  BY <1>4 DEF RelayPart, RelayIndexedByOwner, TypeOK
<1>7. RecvRelayIndexConsistent'
  <2>1. ASSUME NEW w \in Users, pusherUser2recvRelay'[w] # NoRelay
        PROVE  /\ relayUser'[pusherUser2recvRelay'[w]] = w
               /\ \E q \in PusherIds :
                    pusherId2recvRelay'[q] = pusherUser2recvRelay'[w]
    <3>1. CASE w = u
      BY <1>2, <1>3, <3>1 DEF TypeOK
    <3>2. CASE w # u
      <4>1. pusherUser2recvRelay'[w] = pusherUser2recvRelay[w]
        BY <1>2, <3>2 DEF TypeOK
      <4>2. PICK q \in PusherIds :
              pusherId2recvRelay[q] = pusherUser2recvRelay[w]
        BY <2>1, <4>1 DEF RelayPart, RecvRelayIndexConsistent
      <4>3. q # p
        BY <1>1, <1>4, <2>1, <3>2, <4>1, <4>2
        DEF RelayPart, RelayIndexedByOwner
      <4>4. QED
        BY <1>2, <1>5, <2>1, <3>2, <4>1, <4>2, <4>3, <1>4 DEF TypeOK
    <3>3. QED
      BY <3>1, <3>2
  <2>2. ASSUME NEW q \in PusherIds, pusherId2recvRelay'[q] # NoRelay
        PROVE  /\ q \in relayPushers'[pusherId2recvRelay'[q]]
               /\ pusherUser2recvRelay'[relayUser'[pusherId2recvRelay'[q]]]
                    = pusherId2recvRelay'[q]
    <3>1. CASE q = p
      BY <1>2, <1>3, <3>1 DEF TypeOK
    <3>2. CASE q # p /\ pusherId2recvRelay[q] = rr
      <4>1. q \in relayPushers[rr]
        BY <1>2, <3>2 DEF RelayPart, RecvRelayIndexConsistent, TypeOK
      <4>2. QED
        BY <1>2, <1>3, <3>2, <4>1 DEF TypeOK
    <3>3. CASE q # p /\ pusherId2recvRelay[q] # rr
      <4>1. pusherId2recvRelay'[q] = pusherId2recvRelay[q]
        BY <1>2, <3>3 DEF TypeOK
      <4>2. /\ q \in relayPushers[pusherId2recvRelay[q]]
            /\ pusherUser2recvRelay[relayUser[pusherId2recvRelay[q]]]
                 = pusherId2recvRelay[q]
            /\ relayUser[pusherId2recvRelay[q]] = RemoteOwner[q]
        BY <2>2, <4>1 DEF RelayPart, RecvRelayIndexConsistent,
                          RelayIndexedByOwner
      <4>3. RemoteOwner[q] # u \/ pusherUser2recvRelay[u] = NoRelay
        BY <3>3, <4>2
      <4>4. QED
        BY <1>2, <2>2, <3>3, <4>1, <4>2, <4>3 DEF TypeOK
    <3>4. QED
      BY <3>1, <3>2, <3>3
  <2>3. QED
    BY <2>1, <2>2 DEF RecvRelayIndexConsistent
<1>8. RelayIndexedByOwner'
  BY <1>1, <1>2, <1>3, <1>6 DEF RelayPart, RelayIndexedByOwner, TypeOK
<1>9. RemotePushMapOwned'
  BY DEF RelayPart, RemotePushMapOwned, OwnedRemote
<1>10. QED
  BY <1>7, <1>8, <1>9 DEF RelayPart

\* The second half of Room::OnTimer keeps the relay invariant: a relay
\* found dead under one pusher id is dead under all of them, so it leaves
\* both indexes at once, and a live relay keeps every entry.
LEMMA RelayTimer ==
  ASSUME TypeOK, RelayPart, ReapRecvRelays,
         UNCHANGED <<relayUser, relayPushers, relayAlive>>,
         \A u \in Users : pushMap'[u] \subseteq pushMap[u]
  PROVE  RelayPart'
<1> DEFINE P == pusherId2recvRelay
           U == pusherUser2recvRelay
           deadU == {relayUser[P[p]] : p \in DeadRelayPushers}
<1>1. /\ P' = [p \in PusherIds |-> IF p \in DeadRelayPushers THEN NoRelay
                                                           ELSE P[p]]
      /\ U' = [u \in Users |-> IF u \in deadU THEN NoRelay ELSE U[u]]
  BY DEF ReapRecvRelays
<1>2. ASSUME NEW u \in Users, U[u] # NoRelay
      PROVE  u \in deadU <=> ~relayAlive[U[u]]
  <2>1. PICK q \in PusherIds : P[q] = U[u]
    BY <1>2 DEF RelayPart, RecvRelayIndexConsistent
  <2>2. relayUser[U[u]] = u
    BY <1>2 DEF RelayPart, RecvRelayIndexConsistent
  <2>3. ASSUME u \in deadU PROVE ~relayAlive[U[u]]
    <3>1. PICK d \in DeadRelayPushers : relayUser[P[d]] = u
      BY <2>3
    <3>2. P[d] # NoRelay /\ ~relayAlive[P[d]]
      BY <3>1 DEF DeadRelayPushers
    <3>3. U[relayUser[P[d]]] = P[d]
      BY <3>1, <3>2 DEF RelayPart, RecvRelayIndexConsistent, DeadRelayPushers
    <3>4. QED
      BY <3>1, <3>2, <3>3
  <2>4. ASSUME ~relayAlive[U[u]] PROVE u \in deadU
    <3>1. q \in DeadRelayPushers
      BY <1>2, <2>1, <2>4 DEF DeadRelayPushers
    <3>2. QED
      BY <2>1, <2>2, <3>1
  <2>5. QED
    BY <2>3, <2>4
<1>3. RecvRelayIndexConsistent'
  <2>1. ASSUME NEW u \in Users, U'[u] # NoRelay
        PROVE  /\ relayUser'[U'[u]] = u
               /\ \E q \in PusherIds : P'[q] = U'[u]
    <3>1. u \notin deadU /\ U'[u] = U[u] /\ U[u] # NoRelay
      BY <1>1, <2>1
    <3>2. relayAlive[U[u]]
      BY <1>2, <3>1
    <3>3. PICK q \in PusherIds : P[q] = U[u]
      BY <3>1 DEF RelayPart, RecvRelayIndexConsistent
    <3>4. q \notin DeadRelayPushers
      BY <3>2, <3>3 DEF DeadRelayPushers
    <3>5. QED
      BY <1>1, <3>1, <3>3, <3>4 DEF RelayPart, RecvRelayIndexConsistent
  <2>2. ASSUME NEW q \in PusherIds, P'[q] # NoRelay
        PROVE  /\ q \in relayPushers'[P'[q]]
               /\ U'[relayUser'[P'[q]]] = P'[q]
    <3>1. q \notin DeadRelayPushers /\ P'[q] = P[q] /\ P[q] # NoRelay
      BY <1>1, <2>2
    <3>2. relayAlive[P[q]]
      BY <3>1 DEF DeadRelayPushers
    <3>3. /\ q \in relayPushers[P[q]]
          /\ U[relayUser[P[q]]] = P[q]
          /\ relayUser[P[q]] \in Users
      BY <3>1 DEF RelayPart, RecvRelayIndexConsistent, RelayIndexedByOwner,
                 TypeOK
    <3>4. relayUser[P[q]] \notin deadU
      BY <1>2, <3>1, <3>2, <3>3
    <3>5. QED
      BY <1>1, <3>1, <3>3, <3>4
  <2>3. QED
    BY <2>1, <2>2 DEF RecvRelayIndexConsistent
<1>4. RelayIndexedByOwner'
  BY <1>1 DEF RelayPart, RelayIndexedByOwner
<1>5. RemotePushMapOwned'
  BY DEF RelayPart, RemotePushMapOwned
<1>6. QED
  BY <1>3, <1>4, <1>5 DEF RelayPart

\* Every step of the room keeps the relay invariant.
LEMMA RelayStep == RelayInv /\ [Next]_vars => RelayPart'
<1> SUFFICES ASSUME TypeOK, RelayPart, [Next]_vars PROVE RelayPart'
  BY DEF RelayInv
<1> USE DEF userVars, pusherVars, pullerVars, sendVars, recvVars, envVars
<1>1. ASSUME NEW u \in Users
      PROVE  /\ UserJoin(u) => RelayPart'
             /\ HandleNewUserNotificationFromCenter(u) => RelayPart'
             /\ \A P \in SUBSET OwnedRemote(u) :
                  /\ JoinResponseFromPilotCenter(u, P) => RelayPart'
                  /\ HandleNewPusherNotificationFromCenter(u, P) => RelayPart'
             /\ \A s \in Ssrcs, p \in LocalPusherIds :
                  HandlePushSdp(u, s, p) => RelayPart'
  <2>1. UserJoin(u) => RelayPart'
    BY RelayPushMap DEF UserJoin, TypeOK, RelayPart, RemotePushMapOwned
  <2>2. HandleNewUserNotificationFromCenter(u) => RelayPart'
    BY RelayPushMap DEF HandleNewUserNotificationFromCenter, TypeOK, RelayPart,
                        RemotePushMapOwned
  <2>3. ASSUME NEW P \in SUBSET OwnedRemote(u),
               JoinResponseFromPilotCenter(u, P)
        PROVE  RelayPart'
    BY <2>3, RelayPushMap DEF JoinResponseFromPilotCenter, TypeOK, RelayPart,
                              RemotePushMapOwned
  <2>4. ASSUME NEW P \in SUBSET OwnedRemote(u),
               HandleNewPusherNotificationFromCenter(u, P)
        PROVE  RelayPart'
    BY <2>4, RelayPushMap DEF HandleNewPusherNotificationFromCenter, TypeOK,
                              RelayPart, RemotePushMapOwned
  <2>5. ASSUME NEW s \in Ssrcs, NEW p \in LocalPusherIds, HandlePushSdp(u, s, p)
        PROVE  RelayPart'
    BY <2>5, RelayPushMap DEF HandlePushSdp, TypeOK, RelayPart,
                              RemotePushMapOwned
  <2>6. QED
    BY <2>1, <2>2, <2>3, <2>4, <2>5
<1>2. ASSUME NEW src \in Users, NEW target \in Users, NEW q \in PullerIds,
             NEW p \in RemotePusherIds, NEW r \in RelayIds, NEW ok \in BOOLEAN,
             HandleRemotePullSdp(src, target, p, q, r, ok)
      PROVE  RelayPart'
  <2>1. CASE target \in users /\ p \in pushMap[target]
    BY <1>2, <2>1, RelayPullRemote DEF HandleRemotePullSdp
  <2>2. CASE ~(target \in users /\ p \in pushMap[target])
    BY <1>2, <2>2, RelayFrame DEF HandleRemotePullSdp
  <2>3. QED
    BY <2>1, <2>2
<1>3. ASSUME OnTimer PROVE RelayPart'
  <2>1. \A u \in Users : pushMap'[u] \subseteq pushMap[u]
    BY <1>3 DEF OnTimer, ReleaseUserResources
  <2>2. QED
    BY <1>3, <2>1, RelayTimer DEF OnTimer
<1>4. ASSUME NEW r \in RelayIds
      PROVE  /\ RecvRelayDropRtp(r) => RelayPart'
             /\ ExpireRelay(r) => RelayPart'
             /\ \A p \in PusherIds :
                  OnRtpPacketFromRemoteRtcPusher(r, p) => RelayPart'
  BY RelayFrame DEF RecvRelayDropRtp, ExpireRelay,
                    OnRtpPacketFromRemoteRtcPusher
<1>5. ASSUME NEW u \in Users
      PROVE  /\ ReConnect(u) => RelayPart'
             /\ UserLeave(u) => RelayPart'
             /\ HandleWsHeartbeat(u) => RelayPart'
             /\ Expire(u) => RelayPart'
             /\ \A p \in LocalPusherIds :
                  /\ HandlePullRemoteStreamNotificationFromCenter(u, p)
                       => RelayPart'
                  /\ KeyFrameFromSendRelay(u, p) => RelayPart'
  BY RelayFrame DEF ReConnect, UserLeave, HandleWsHeartbeat, Expire,
                    HandlePullRemoteStreamNotificationFromCenter,
                    KeyFrameFromSendRelay, OnKeyFrameRequest
<1>6. ASSUME NEW src \in Users, NEW target \in Users, NEW q \in PullerIds,
             NEW p \in LocalPusherIds
      PROVE  HandlePullSdp(src, target, p, q) => RelayPart'
  BY RelayFrame DEF HandlePullSdp
<1>7. ASSUME NEW p \in LocalPusherIds
      PROVE  /\ OnRtpPacketFromRtcPusher(p) => RelayPart'
             /\ OnPushClose(p) => RelayPart'
  BY RelayFrame DEF OnRtpPacketFromRtcPusher, OnPushClose
<1>10. ASSUME NEW q \in PullerIds
       PROVE  /\ OnPullClose(q) => RelayPart'
              /\ KeyFrameFromPuller(q) => RelayPart'
  BY RelayFrame DEF OnPullClose, KeyFrameFromPuller, OnKeyFrameRequest
<1>8. Close \/ UNCHANGED vars => RelayPart'
  BY RelayFrame DEF Close, vars
<1>9. QED
  BY <1>1, <1>2, <1>3, <1>4, <1>5, <1>6, <1>7, <1>8, <1>10 DEF Next

\* In the initial state, with every index empty, the relay invariant holds.
LEMMA RelayInit == Init => RelayInv
<1> SUFFICES ASSUME Init PROVE RelayInv
  OBVIOUS
<1>1. TypeOK
  BY DEF Init, TypeOK, PusherIds
<1>2. RecvRelayIndexConsistent
  BY DEF Init, RecvRelayIndexConsistent
<1>3. RemotePushMapOwned
  BY DEF Init, RemotePushMapOwned
<1>4. RelayIndexedByOwner
  BY DEF Init, RelayIndexedByOwner
<1>5. QED
  BY <1>1, <1>2, <1>3, <1>4 DEF RelayInv, RelayPart

\* The two receive-relay indexes of the room stay consistent in every
\* reachable state, for any number of users, pushers and relays.
THEOREM RecvRelayIndexCorrect == Spec => []RecvRelayIndexConsistent
<1>1. Init => RelayInv
  BY RelayInit
<1>2. RelayInv /\ [Next]_vars => RelayInv'
  BY TypeOKStep, RelayStep DEF RelayInv
<1>3. RelayInv => RecvRelayIndexConsistent
  BY DEF RelayInv, RelayPart
<1>4. QED
  BY <1>1, <1>2, <1>3, PTL DEF Spec

-----------------------------------------------------------------------------
(* OrphansAreStrays, whatever requests the front end forwards.             *)

\* A pusher or puller id the room has handed to a requester is no longer
\* free: every stray has an owner, and a pusher id HandlePushSdp has not
\* yet taken has no pullers (HandlePullSdp only pulls indexed pushers).
StraysCreated ==
  /\ \A p \in strayPushers : pusherOwner[p] # NoUser
  /\ \A q \in strayPullers : pullerUser[q] # NoUser
UnclaimedUnpulled ==
  \A p \in LocalPusherIds : pusherOwner[p] = NoUser => pusher2pullers[p] = {}

\* The inductive invariant behind OrphansAreStrays.
StrayPart == OrphansAreStrays /\ StraysCreated /\ UnclaimedUnpulled

\* Under StrayPart a pusher or puller id not yet taken is in no table.
LEMMA FreshIdsUnused ==
  ASSUME TypeOK, StrayPart
  PROVE  /\ \A p \in LocalPusherIds :
              pusherOwner[p] = NoUser => p \notin pusherId2pusher \cup strayPushers
         /\ \A q \in PullerIds :
              pullerUser[q] = NoUser =>
                /\ q \notin strayPullers
                /\ \A x \in PusherIds : q \notin pusher2pullers[x]
  BY DEF StrayPart, OrphansAreStrays, StraysCreated, TypeOK

\* A step that leaves users_, the pusher and puller tables, their owners
\* and the history alone keeps StrayPart.
LEMMA StrayFrame ==
  ASSUME StrayPart,
         UNCHANGED <<users, pusherId2pusher, pusherOwner, pusher2pullers,
                     pullerUser, strayPushers, strayPullers>>
  PROVE  StrayPart'
  BY DEF StrayPart, OrphansAreStrays, StraysCreated, UnclaimedUnpulled

\* Adding a fresh puller q of requester src under pusher p, recorded as a
\* stray when src is not in users_, keeps StrayPart.
LEMMA StrayNewPuller ==
  ASSUME TypeOK, StrayPart, NEW src \in Users, NEW p \in PusherIds,
         NEW q \in PullerIds, pullerUser[q] = NoUser,
         p \in LocalPusherIds => pusherOwner[p] # NoUser,
         pusher2pullers' = [pusher2pullers EXCEPT ![p] = @ \cup {q}],
         pullerUser' = [pullerUser EXCEPT ![q] = src],
         strayPullers' = NoteStray(strayPullers, src, q),
         UNCHANGED <<users, pusherId2pusher, pusherOwner, strayPushers>>
  PROVE  StrayPart'
<1>1. OrphansAreStrays'
  BY DEF OrphansAreStrays, NoteStray, StrayPart, TypeOK
<1>2. StraysCreated'
  BY ConstantsAssumption DEF StraysCreated, NoteStray, StrayPart, TypeOK
<1>3. UnclaimedUnpulled'
  BY DEF UnclaimedUnpulled, StrayPart, TypeOK
<1>4. QED
  BY <1>1, <1>2, <1>3 DEF StrayPart

\* Every step keeps StrayPart: a new pusher or puller belongs to the
\* requester or is recorded as a stray, users_ only loses the users
\* Room::OnTimer releases, and their pushers and pullers go in the same
\* step.
LEMMA StrayStep ==
  ASSUME TypeOK, StrayPart, [Next]_vars
  PROVE  StrayPart'
<1> USE DEF userVars, pusherVars, pullerVars, sendVars, recvVars, envVars
<1>1. ASSUME NEW u \in Users
      PROVE  /\ UserJoin(u) => StrayPart'
             /\ HandleNewUserNotificationFromCenter(u) => StrayPart'
             /\ \A P \in SUBSET OwnedRemote(u) :
                  JoinResponseFromPilotCenter(u, P) => StrayPart'
  BY DEF UserJoin, HandleNewUserNotificationFromCenter,
         JoinResponseFromPilotCenter, StrayPart, OrphansAreStrays,
         StraysCreated, UnclaimedUnpulled
<1>2. ASSUME NEW u \in Users, NEW s \in Ssrcs, NEW p \in LocalPusherIds,
             HandlePushSdp(u, s, p)
      PROVE  StrayPart'
  <2>1. /\ pusherOwner' = [pusherOwner EXCEPT ![p] = u]
        /\ pusherId2pusher' = pusherId2pusher \cup {p}
        /\ strayPushers' = NoteStray(strayPushers, u, p)
        /\ UNCHANGED <<users, pusher2pullers, pullerUser, strayPullers>>
    BY <1>2 DEF HandlePushSdp
  <2>2. OrphansAreStrays'
    BY <2>1 DEF OrphansAreStrays, NoteStray, StrayPart, TypeOK
  <2>3. StraysCreated'
    BY <2>1, ConstantsAssumption DEF StraysCreated, NoteStray, StrayPart,
                                     TypeOK
  <2>4. UnclaimedUnpulled'
    BY <2>1 DEF UnclaimedUnpulled, StrayPart, TypeOK
  <2>5. QED
    BY <2>2, <2>3, <2>4 DEF StrayPart
<1>3. ASSUME NEW src \in Users, NEW target \in Users, NEW q \in PullerIds,
             NEW p \in LocalPusherIds, HandlePullSdp(src, target, p, q)
      PROVE  StrayPart'
  <2>1. pusherOwner[p] # NoUser
    BY <1>3, ConstantsAssumption
       DEF HandlePullSdp, StrayPart, OrphansAreStrays, StraysCreated, TypeOK
  <2>2. QED
    BY <1>3, <2>1, StrayNewPuller DEF HandlePullSdp, PusherIds
<1>4. ASSUME NEW src \in Users, NEW target \in Users, NEW q \in PullerIds,
             NEW p \in RemotePusherIds, NEW r \in RelayIds, NEW ok \in BOOLEAN,
             HandleRemotePullSdp(src, target, p, q, r, ok)
      PROVE  StrayPart'
  <2>1. /\ pullerUser[q] = NoUser
        /\ UNCHANGED <<users, pusherId2pusher, pusherOwner, strayPushers>>
        /\ \/ UNCHANGED <<pusher2pullers, pullerUser, strayPullers>>
           \/ /\ pusher2pullers' = [pusher2pullers EXCEPT ![p] = @ \cup {q}]
              /\ pullerUser' = [pullerUser EXCEPT ![q] = src]
              /\ strayPullers' = NoteStray(strayPullers, src, q)
    BY <1>4 DEF HandleRemotePullSdp
  <2>2. p \in PusherIds /\ p \notin LocalPusherIds
    BY ConstantsAssumption DEF PusherIds
  <2>3. QED
    BY <2>1, <2>2, StrayFrame, StrayNewPuller
<1>5. ASSUME OnTimer PROVE StrayPart'
  <2> DEFINE rel == TimedOutUsers
  <2>1. /\ users' = users \ rel
        /\ pusherId2pusher' = {x \in pusherId2pusher : pusherOwner[x] \notin rel}
        /\ pusher2pullers' =
             [x \in PusherIds |-> {y \in pusher2pullers[x] : pullerUser[y] \notin rel}]
        /\ UNCHANGED <<pusherOwner, pullerUser, strayPushers, strayPullers>>
    BY <1>5 DEF OnTimer, ReleaseUserResources
  <2>2. OrphansAreStrays'
    BY <2>1 DEF OrphansAreStrays, StrayPart
  <2>3. StraysCreated'
    BY <2>1 DEF StraysCreated, StrayPart
  <2>4. UnclaimedUnpulled'
    BY <2>1 DEF UnclaimedUnpulled, StrayPart, PusherIds
  <2>5. QED
    BY <2>2, <2>3, <2>4 DEF StrayPart
<1>6. ASSUME NEW p \in LocalPusherIds
      PROVE  /\ OnRtpPacketFromRtcPusher(p) => StrayPart'
             /\ OnPushClose(p) => StrayPart'
  BY DEF OnRtpPacketFromRtcPusher, OnPushClose, StrayPart, OrphansAreStrays,
         StraysCreated, UnclaimedUnpulled
<1>7. ASSUME NEW q \in PullerIds
      PROVE  /\ OnPullClose(q) => StrayPart'
             /\ KeyFrameFromPuller(q) => StrayPart'
  <2>1. ASSUME OnPullClose(q) PROVE StrayPart'
    <3>1. /\ pusher2pullers' = [x \in PusherIds |-> pusher2pullers[x] \ {q}]
          /\ UNCHANGED <<users, pusherId2pusher, pusherOwner, pullerUser,
                         strayPushers, strayPullers>>
      BY <2>1 DEF OnPullClose
    <3>2. QED
      BY <3>1 DEF StrayPart, OrphansAreStrays, StraysCreated,
                  UnclaimedUnpulled, PusherIds
  <2>2. KeyFrameFromPuller(q) => StrayPart'
    BY StrayFrame DEF KeyFrameFromPuller, OnKeyFrameRequest
  <2>3. QED
    BY <2>1, <2>2
<1>8. ASSUME NEW u \in Users
      PROVE  /\ ReConnect(u) => StrayPart'
             /\ UserLeave(u) => StrayPart'
             /\ HandleWsHeartbeat(u) => StrayPart'
             /\ Expire(u) => StrayPart'
             /\ \A P \in SUBSET OwnedRemote(u) :
                  HandleNewPusherNotificationFromCenter(u, P) => StrayPart'
             /\ \A p \in LocalPusherIds :
                  /\ HandlePullRemoteStreamNotificationFromCenter(u, p)
                       => StrayPart'
                  /\ KeyFrameFromSendRelay(u, p) => StrayPart'
  BY StrayFrame DEF ReConnect, UserLeave, HandleWsHeartbeat, Expire,
                    HandleNewPusherNotificationFromCenter,
                    HandlePullRemoteStreamNotificationFromCenter,
                    KeyFrameFromSendRelay, OnKeyFrameRequest
<1>9. ASSUME NEW r \in RelayIds
      PROVE  /\ RecvRelayDropRtp(r) => StrayPart'
             /\ ExpireRelay(r) => StrayPart'
             /\ \A p \in PusherIds :
                  OnRtpPacketFromRemoteRtcPusher(r, p) => StrayPart'
  BY StrayFrame DEF RecvRelayDropRtp, ExpireRelay,
                    OnRtpPacketFromRemoteRtcPusher
<1>10. Close \/ UNCHANGED vars => StrayPart'
  BY StrayFrame DEF Close, vars
<1>11. QED
  BY <1>1, <1>2, <1>3, <1>4, <1>5, <1>6, <1>7, <1>8, <1>9, <1>10 DEF Next

\* Room::Room starts with no pusher, puller or stray.
LEMMA StrayInit == Init => TypeOK /\ StrayPart
  BY DEF Init, TypeOK, StrayPart, OrphansAreStrays, StraysCreated,
         UnclaimedUnpulled, PusherIds

\* Whatever requests the front end forwards, including requests on a
\* session whose user Room::OnTimer has already released, every
\* MediaPusher in pusherId2pusher_ and MediaPuller in pusher2pullers_ that
\* belongs to no member was created for such a request: the release in
\* Room::OnTimer leaves nothing of a released user behind.
THEOREM OrphansAreStraysCorrect == Spec => []OrphansAreStrays
<1>1. TypeOK /\ StrayPart /\ [Next]_vars => (TypeOK /\ StrayPart)'
  BY TypeOKStep, StrayStep
<1>2. QED
  BY StrayInit, <1>1, PTL DEF Spec, StrayPart

-----------------------------------------------------------------------------
(* NoLiveRelayReaped: only dead receive relays are ever destroyed.          *)

\* A step that leaves both receive-relay indexes alone holds the same
\* relays.
LEMMA HeldFrame ==
  ASSUME UNCHANGED <<pusherId2recvRelay, pusherUser2recvRelay>>
  PROVE  HeldRelays' = HeldRelays
  BY DEF HeldRelays

\* Room::PullRemotePusher never drops a relay: re-indexing pusher p of
\* user u lands on the relay p and u already had, because p is u's (the
\* pilot only gives u its own pushers) and the indexes agree.
LEMMA PullKeepsHeld ==
  ASSUME TypeOK, RelayPart,
         NEW u \in Users, NEW p \in RemotePusherIds, NEW r \in RelayIds,
         p \in pushMap[u], PullRemotePusher(u, p, r)
  PROVE  HeldRelays \ {NoRelay} \subseteq HeldRelays'
<1> DEFINE rr == IF pusherUser2recvRelay[u] # NoRelay
                   THEN pusherUser2recvRelay[u] ELSE r
<1>1. RemoteOwner[p] = u
  BY DEF RelayPart, RemotePushMapOwned, OwnedRemote
<1>2. /\ pusherId2recvRelay' = [pusherId2recvRelay EXCEPT ![p] = rr]
      /\ pusherUser2recvRelay' = [pusherUser2recvRelay EXCEPT ![u] = rr]
  BY DEF PullRemotePusher
<1>3. p \in PusherIds
  BY DEF PusherIds
<1>4. pusherId2recvRelay[p] # NoRelay => pusherId2recvRelay[p] = rr
  BY <1>1, <1>3 DEF RelayPart, RecvRelayIndexConsistent, RelayIndexedByOwner
<1>5. pusherUser2recvRelay[u] # NoRelay => pusherUser2recvRelay[u] = rr
  OBVIOUS
<1>6. ASSUME NEW x \in HeldRelays \ {NoRelay} PROVE x \in HeldRelays'
  <2>1. CASE \E q \in PusherIds : pusherId2recvRelay[q] = x
    <3>1. PICK q \in PusherIds : pusherId2recvRelay[q] = x
      BY <2>1
    <3>3. CASE q = p
      BY <1>2, <1>3, <1>4, <3>1, <3>3 DEF HeldRelays, TypeOK
    <3>4. CASE q # p
      BY <1>2, <3>1, <3>4 DEF HeldRelays, TypeOK
    <3>5. QED
      BY <3>3, <3>4
  <2>2. CASE \E w \in Users : pusherUser2recvRelay[w] = x
    <3>1. PICK w \in Users : pusherUser2recvRelay[w] = x
      BY <2>2
    <3>2. CASE w = u
      BY <1>2, <1>5, <3>1, <3>2 DEF HeldRelays, TypeOK
    <3>3. CASE w # u
      BY <1>2, <3>1, <3>3 DEF HeldRelays, TypeOK
    <3>4. QED
      BY <3>2, <3>3
  <2>3. QED
    BY <2>1, <2>2 DEF HeldRelays
<1>7. QED
  BY <1>6

\* The timer's reap in Room::OnTimer keeps every alive relay: an alive
\* relay under a user id is also under one of that user's pusher ids,
\* and a pusher id on an alive relay is not in the dead list.
LEMMA TimerKeepsLiveHeld ==
  ASSUME TypeOK, RelayPart, ReapRecvRelays,
         NEW r \in RelayIds, r \in HeldRelays, relayAlive[r]
  PROVE  r \in HeldRelays'
<1>1. PICK q \in PusherIds : pusherId2recvRelay[q] = r
  <2>1. CASE \E q \in PusherIds : pusherId2recvRelay[q] = r
    BY <2>1
  <2>2. CASE \E w \in Users : pusherUser2recvRelay[w] = r
    BY <2>2 DEF RelayPart, RecvRelayIndexConsistent, TypeOK
  <2>3. QED
    BY <2>1, <2>2 DEF HeldRelays
<1>2. q \notin DeadRelayPushers
  BY <1>1 DEF DeadRelayPushers
<1>3. pusherId2recvRelay'[q] = r
  BY <1>1, <1>2 DEF ReapRecvRelays
<1>4. QED
  BY <1>3 DEF HeldRelays

\* No step of the room destroys a receive relay that is still alive.
LEMMA LiveRelayStep == RelayInv /\ [Next]_vars => LiveRelayKept
<1> SUFFICES ASSUME TypeOK, RelayPart, [Next]_vars,
                    NEW r \in RelayIds, r \in HeldRelays, relayAlive[r]
             PROVE  r \in HeldRelays'
  BY DEF RelayInv, LiveRelayKept
<1> USE DEF userVars, pusherVars, pullerVars, sendVars, recvVars, envVars
<1>1. ASSUME NEW src \in Users, NEW target \in Users, NEW q \in PullerIds,
             NEW p \in RemotePusherIds, NEW r0 \in RelayIds, NEW ok \in BOOLEAN,
             HandleRemotePullSdp(src, target, p, q, r0, ok)
      PROVE  r \in HeldRelays'
  <2>1. r # NoRelay
    BY DEF TypeOK, ConstantsAssumption
  <2>2. CASE target \in users /\ p \in pushMap[target]
    BY <1>1, <2>1, <2>2, PullKeepsHeld DEF HandleRemotePullSdp
  <2>3. CASE ~(target \in users /\ p \in pushMap[target])
    BY <1>1, <2>3, HeldFrame DEF HandleRemotePullSdp
  <2>4. QED
    BY <2>2, <2>3
<1>2. ASSUME OnTimer PROVE r \in HeldRelays'
  BY <1>2, TimerKeepsLiveHeld DEF OnTimer
<1>3. ASSUME NEW u \in Users
      PROVE  /\ UserJoin(u) => r \in HeldRelays'
             /\ ReConnect(u) => r \in HeldRelays'
             /\ UserLeave(u) => r \in HeldRelays'
             /\ HandleWsHeartbeat(u) => r \in HeldRelays'
             /\ Expire(u) => r \in HeldRelays'
             /\ HandleNewUserNotificationFromCenter(u) => r \in HeldRelays'
             /\ \A P \in SUBSET OwnedRemote(u) :
                  /\ JoinResponseFromPilotCenter(u, P) => r \in HeldRelays'
                  /\ HandleNewPusherNotificationFromCenter(u, P)
                       => r \in HeldRelays'
             /\ \A p \in LocalPusherIds :
                  /\ HandlePullRemoteStreamNotificationFromCenter(u, p)
                       => r \in HeldRelays'
                  /\ KeyFrameFromSendRelay(u, p) => r \in HeldRelays'
                  /\ \A s \in Ssrcs : HandlePushSdp(u, s, p) => r \in HeldRelays'
  BY HeldFrame DEF UserJoin, ReConnect, UserLeave, HandleWsHeartbeat, Expire,
                   HandleNewUserNotificationFromCenter,
                   JoinResponseFromPilotCenter,
                   HandleNewPusherNotificationFromCenter,
                   HandlePullRemoteStreamNotificationFromCenter,
                   KeyFrameFromSendRelay, OnKeyFrameRequest, HandlePushSdp
<1>4. ASSUME NEW src \in Users, NEW target \in Users, NEW q \in PullerIds,
             NEW p \in LocalPusherIds
      PROVE  HandlePullSdp(src, target, p, q) => r \in HeldRelays'
  BY HeldFrame DEF HandlePullSdp
<1>5. ASSUME NEW p \in LocalPusherIds
      PROVE  /\ OnRtpPacketFromRtcPusher(p) => r \in HeldRelays'
             /\ OnPushClose(p) => r \in HeldRelays'
  BY HeldFrame DEF OnRtpPacketFromRtcPusher, OnPushClose
<1>6. ASSUME NEW q \in PullerIds
      PROVE  /\ OnPullClose(q) => r \in HeldRelays'
             /\ KeyFrameFromPuller(q) => r \in HeldRelays'
  BY HeldFrame DEF OnPullClose, KeyFrameFromPuller, OnKeyFrameRequest
<1>7. ASSUME NEW r1 \in RelayIds
      PROVE  /\ RecvRelayDropRtp(r1) => r \in HeldRelays'
             /\ ExpireRelay(r1) => r \in HeldRelays'
             /\ \A p \in PusherIds :
                  OnRtpPacketFromRemoteRtcPusher(r1, p) => r \in HeldRelays'
  BY HeldFrame DEF RecvRelayDropRtp, ExpireRelay,
                   OnRtpPacketFromRemoteRtcPusher
<1>8. Close \/ UNCHANGED vars => r \in HeldRelays'
  BY HeldFrame DEF Close, vars
<1>9. QED
  BY <1>1, <1>2, <1>3, <1>4, <1>5, <1>6, <1>7, <1>8 DEF Next

\* Room::OnTimer and the pulls never destroy a receive relay that is
\* still receiving RTP, for any number of users, pushers and relays.
THEOREM NoLiveRelayReapedCorrect == Spec => NoLiveRelayReaped
<1>1. Init => RelayInv
  BY RelayInit
<1>2. RelayInv /\ [Next]_vars => RelayInv'
  BY TypeOKStep, RelayStep DEF RelayInv
<1>3. RelayInv /\ [Next]_vars => [LiveRelayKept]_vars
  BY LiveRelayStep
<1>4. Spec => []RelayInv
  BY <1>1, <1>2, PTL DEF Spec
<1>5. []RelayInv /\ [][Next]_vars => [][LiveRelayKept]_vars
  BY <1>3, PTL
<1>6. QED
  BY <1>4, <1>5 DEF Spec, NoLiveRelayReaped

=============================================================================
