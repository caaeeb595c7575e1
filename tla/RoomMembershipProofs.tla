------------------------ MODULE RoomMembershipProofs ------------------------
(***************************************************************************)
(* Proof that Room implements RoomMembership under the mapping Membership *)
(* of Room.tla, whatever requests the signaling front end forwards.  The  *)
(* steps of Room that change membership, publications or subscriptions   *)
(* are matched to one step of RoomMembership each; the others, and the    *)
(* requests of non-members (whose pushers and pullers the mapping sets    *)
(* aside as strays), leave the mapped state alone.  The invariant the     *)
(* proof needs is TypeOK /\ StrayPart, proved inductive in RoomProofs.    *)
(***************************************************************************)
EXTENDS RoomProofs

USE ConstantsAssumption

\* The mapped state is a function of these five variables only.
LEMMA MembershipFrame ==
  ASSUME UNCHANGED <<users, pusherId2pusher, pusherOwner, pusher2pullers,
                     pullerUser, strayPushers, strayPullers>>
  PROVE  UNCHANGED Membership!mvars
  BY DEF Membership!mvars, PublishedBy, SubscribedBy

\* Whoever holds a subscription with puller q has q stored under a pusher,
\* so a puller id not yet taken is in no subscription.
LEMMA FreshPullerUnused ==
  ASSUME TypeOK, StrayPart, NEW q \in PullerIds, pullerUser[q] = NoUser
  PROVE  /\ q \notin Membership!UsedPullers
         /\ \A x \in PusherIds : q \notin pusher2pullers[x]
         /\ q \notin strayPullers
<1>1. \A x \in PusherIds : q \notin pusher2pullers[x]
  BY FreshIdsUnused
<1>2. q \notin Membership!UsedPullers
  BY <1>1 DEF Membership!UsedPullers, SubscribedBy
<1>3. QED
  BY <1>1, <1>2, FreshIdsUnused

\* A users_ change that only adds u is Membership!Enter(u).
LEMMA EnterStep ==
  ASSUME NEW u \in Users, users' = users \cup {u},
         UNCHANGED <<pusherId2pusher, pusherOwner, pusher2pullers, pullerUser,
                     strayPushers, strayPullers>>
  PROVE  Membership!Enter(u)
  BY DEF Membership!Enter, PublishedBy, SubscribedBy

\* Room::OnPushClose is Membership!Unpublish.
LEMMA PushCloseStep ==
  ASSUME TypeOK, NEW p \in LocalPusherIds, OnPushClose(p)
  PROVE  Membership!Unpublish(p)
<1>1. \A v \in Users : PublishedBy'[v] = PublishedBy[v] \ {p}
  BY DEF OnPushClose, PublishedBy, pusherVars
<1>2. UNCHANGED <<users, SubscribedBy>>
  BY DEF OnPushClose, SubscribedBy, userVars, pullerVars
<1>3. QED
  BY <1>1, <1>2 DEF Membership!Unpublish, PublishedBy

\* Room::OnPullClose is Membership!Unsubscribe.
LEMMA PullCloseStep ==
  ASSUME TypeOK, NEW q \in PullerIds, OnPullClose(q)
  PROVE  Membership!Unsubscribe(q)
<1>1. \A v \in Users :
        SubscribedBy'[v] = {x \in SubscribedBy[v] : x[2] # q}
  BY DEF OnPullClose, SubscribedBy, pusherVars
<1>2. UNCHANGED <<users, PublishedBy>>
  BY DEF OnPullClose, PublishedBy, userVars, pusherVars
<1>3. QED
  BY <1>1, <1>2 DEF Membership!Unsubscribe, SubscribedBy


\* Room::HandlePushSdp by a member is Membership!Publish: the fresh
\* pusher id is in no member's publications and has no pullers.
LEMMA PushSdpStep ==
  ASSUME TypeOK, StrayPart,
         NEW u \in Users, NEW s \in Ssrcs, NEW p \in LocalPusherIds,
         HandlePushSdp(u, s, p), u \in users
  PROVE  Membership!Publish(u, p)
<1>1. p \notin pusherId2pusher \cup strayPushers
  BY FreshIdsUnused DEF HandlePushSdp
<1>2. p \notin Membership!Published
  BY <1>1 DEF Membership!Published, PublishedBy
<1>3. /\ pusherOwner' = [pusherOwner EXCEPT ![p] = u]
      /\ pusherId2pusher' = pusherId2pusher \cup {p}
      /\ strayPushers' = strayPushers
      /\ UNCHANGED <<users, pusher2pullers, pullerUser, strayPullers>>
  BY DEF HandlePushSdp, NoteStray, pullerVars
<1>4. \A v \in Users :
        PublishedBy'[v] = IF v = u THEN PublishedBy[v] \cup {p}
                                   ELSE PublishedBy[v]
  BY <1>1, <1>3 DEF PublishedBy, TypeOK
<1>5. PublishedBy' = [PublishedBy EXCEPT ![u] = @ \cup {p}]
  BY <1>4 DEF PublishedBy
<1>6. UNCHANGED SubscribedBy
  BY <1>3 DEF SubscribedBy
<1>7. QED
  BY <1>2, <1>3, <1>5, <1>6 DEF Membership!Publish

\* Room::HandlePushSdp for a non-member only adds a stray, which the
\* mapping sets aside: the fresh pusher has no pullers yet.
LEMMA StrayPushStep ==
  ASSUME TypeOK, StrayPart,
         NEW u \in Users, NEW s \in Ssrcs, NEW p \in LocalPusherIds,
         HandlePushSdp(u, s, p), u \notin users
  PROVE  UNCHANGED Membership!mvars
<1>1. /\ pusherOwner' = [pusherOwner EXCEPT ![p] = u]
      /\ pusherId2pusher' = pusherId2pusher \cup {p}
      /\ strayPushers' = strayPushers \cup {p}
      /\ UNCHANGED <<users, pusher2pullers, pullerUser, strayPullers>>
  BY DEF HandlePushSdp, NoteStray, pullerVars
<1>2. pusher2pullers[p] = {}
  BY DEF HandlePushSdp, StrayPart, UnclaimedUnpulled
<1>3. UNCHANGED PublishedBy
  <2>1. p \notin pusherId2pusher
    BY FreshIdsUnused DEF HandlePushSdp
  <2>2. \A v \in Users : PublishedBy'[v] = PublishedBy[v]
    BY <1>1, <2>1 DEF PublishedBy, TypeOK
  <2>3. QED
    BY <2>2 DEF PublishedBy
<1>4. UNCHANGED SubscribedBy
  BY <1>1, <1>2 DEF SubscribedBy
<1>5. QED
  BY <1>1, <1>3, <1>4 DEF Membership!mvars

\* Adding a fresh puller q of requester src under pusher p, recorded as a
\* stray when src is not in users_: Membership!Subscribe(src, p, q) when
\* src is a member and p a published or remote stream that is no stray,
\* and no change of the mapped state when src is a non-member or p a
\* stray.
LEMMA NewPullerStep ==
  ASSUME TypeOK, StrayPart,
         NEW src \in Users, NEW p \in PusherIds, NEW q \in PullerIds,
         pullerUser[q] = NoUser,
         p \notin strayPushers => p \in Membership!Published \cup RemotePusherIds,
         pusher2pullers' = [pusher2pullers EXCEPT ![p] = @ \cup {q}],
         pullerUser' = [pullerUser EXCEPT ![q] = src],
         strayPullers' = NoteStray(strayPullers, src, q),
         UNCHANGED <<users, pusherId2pusher, pusherOwner, strayPushers>>
  PROVE  [Membership!MNext]_Membership!mvars
<1>1. /\ q \notin Membership!UsedPullers
      /\ \A x \in PusherIds : q \notin pusher2pullers[x]
      /\ q \notin strayPullers
  BY FreshPullerUnused
<1>2. UNCHANGED PublishedBy
  BY DEF PublishedBy
<1>3. \A x \in PusherIds \X PullerIds :
        /\ x[2] \in pusher2pullers'[x[1]] <=>
             (x[2] \in pusher2pullers[x[1]] \/ x = <<p, q>>)
        /\ x[2] # q => pullerUser'[x[2]] = pullerUser[x[2]]
  BY <1>1 DEF TypeOK
<1>4. CASE src \in users /\ p \notin strayPushers
  <2>1. strayPullers' = strayPullers
    BY <1>4 DEF NoteStray
  <2>2. \A v \in Users :
          SubscribedBy'[v] = IF v = src THEN SubscribedBy[v] \cup {<<p, q>>}
                                        ELSE SubscribedBy[v]
    BY <1>1, <1>3, <1>4, <2>1 DEF SubscribedBy, TypeOK
  <2>3. SubscribedBy' = [SubscribedBy EXCEPT ![src] = @ \cup {<<p, q>>}]
    BY <2>2 DEF SubscribedBy
  <2>4. Membership!Subscribe(src, p, q)
    BY <1>1, <1>2, <1>4, <2>3 DEF Membership!Subscribe
  <2>5. p \in LocalPusherIds \cup RemotePusherIds
    BY DEF PusherIds
  <2>6. QED
    BY <2>4, <2>5 DEF Membership!MNext
<1>5. CASE ~(src \in users /\ p \notin strayPushers)
  <2>1. p \in strayPushers \/ q \in strayPullers'
    BY <1>5 DEF NoteStray
  <2>2. \A y \in PullerIds \ {q} : y \in strayPullers' <=> y \in strayPullers
    BY DEF NoteStray
  <2>3. \A v \in Users : SubscribedBy'[v] = SubscribedBy[v]
    <3>1. SUFFICES ASSUME NEW v \in Users,
                          NEW x \in PusherIds \X PullerIds
                   PROVE  x \in SubscribedBy'[v] <=> x \in SubscribedBy[v]
      BY DEF SubscribedBy
    <3>2. CASE x[2] = q
      <4>1. x \notin SubscribedBy[v]
        BY <1>1, <3>2 DEF SubscribedBy
      <4>2. x \notin SubscribedBy'[v]
        BY <1>1, <1>3, <2>1, <3>2 DEF SubscribedBy
      <4>3. QED
        BY <4>1, <4>2
    <3>3. CASE x[2] # q
      BY <1>3, <2>2, <3>3 DEF SubscribedBy
    <3>4. QED
      BY <3>2, <3>3
  <2>4. UNCHANGED SubscribedBy
    BY <2>3 DEF SubscribedBy
  <2>5. QED
    BY <1>2, <2>4 DEF Membership!mvars
<1>6. QED
  BY <1>4, <1>5

\* Room::OnTimer is Membership!Depart of the users it times out.
LEMMA TimerStep ==
  ASSUME TypeOK, OnTimer
  PROVE  Membership!Depart(TimedOutUsers)
<1>1. \A v \in Users :
        PublishedBy'[v] = IF v \in TimedOutUsers THEN {} ELSE PublishedBy[v]
  BY DEF OnTimer, ReleaseUserResources, PublishedBy, TypeOK
<1>2. \A v \in Users :
        SubscribedBy'[v] = IF v \in TimedOutUsers THEN {} ELSE SubscribedBy[v]
  BY DEF OnTimer, ReleaseUserResources, SubscribedBy, TypeOK
<1>3. QED
  BY <1>1, <1>2 DEF Membership!Depart, OnTimer, ReleaseUserResources,
                    TimedOutUsers, PublishedBy, SubscribedBy


\* Every step of Room is a step of RoomMembership or leaves the mapped
\* state unchanged.
LEMMA MembershipStep ==
  ASSUME TypeOK, StrayPart, [Next]_vars
  PROVE  [Membership!MNext]_Membership!mvars
<1> USE DEF userVars, pusherVars, pullerVars, sendVars, recvVars, envVars
<1>1. ASSUME NEW u \in Users
      PROVE  /\ UserJoin(u) => Membership!Enter(u)
             /\ HandleNewUserNotificationFromCenter(u) => Membership!Enter(u)
             /\ \A P \in SUBSET OwnedRemote(u) :
                  JoinResponseFromPilotCenter(u, P) => Membership!Enter(u)
  <2>1. UserJoin(u) => Membership!Enter(u)
    BY EnterStep DEF UserJoin
  <2>2. HandleNewUserNotificationFromCenter(u) => Membership!Enter(u)
    BY EnterStep DEF HandleNewUserNotificationFromCenter
  <2>3. ASSUME NEW P \in SUBSET OwnedRemote(u),
               JoinResponseFromPilotCenter(u, P)
        PROVE  Membership!Enter(u)
    <3>1. users' = users \cup {u}
      BY <2>3 DEF JoinResponseFromPilotCenter
    <3>2. UNCHANGED <<pusherId2pusher, pusherOwner, pusher2pullers, pullerUser,
                      strayPushers, strayPullers>>
      BY <2>3 DEF JoinResponseFromPilotCenter
    <3>3. QED
      BY <3>1, <3>2, EnterStep
  <2>4. QED
    BY <2>1, <2>2, <2>3
<1>2. ASSUME NEW src \in Users, NEW target \in Users, NEW q \in PullerIds,
             NEW p \in LocalPusherIds, HandlePullSdp(src, target, p, q)
      PROVE  [Membership!MNext]_Membership!mvars
  <2>1. p \notin strayPushers => p \in Membership!Published
    <3>1. SUFFICES ASSUME p \notin strayPushers PROVE p \in Membership!Published
      OBVIOUS
    <3>2. pusherOwner[p] \in users
      BY <1>2, <3>1 DEF HandlePullSdp, StrayPart, OrphansAreStrays
    <3>3. pusherOwner[p] \in Users /\ p \in PublishedBy[pusherOwner[p]]
      BY <1>2, <3>1, <3>2 DEF HandlePullSdp, TypeOK, PublishedBy
    <3>4. QED
      BY <3>3 DEF Membership!Published
  <2>2. QED
    BY <1>2, <2>1, NewPullerStep DEF HandlePullSdp, PusherIds
<1>3. ASSUME NEW src \in Users, NEW target \in Users, NEW q \in PullerIds,
             NEW p \in RemotePusherIds, NEW r \in RelayIds, NEW ok \in BOOLEAN,
             HandleRemotePullSdp(src, target, p, q, r, ok)
      PROVE  [Membership!MNext]_Membership!mvars
  <2>1. /\ pullerUser[q] = NoUser
        /\ UNCHANGED <<users, pusherId2pusher, pusherOwner, strayPushers>>
        /\ \/ UNCHANGED <<pusher2pullers, pullerUser, strayPullers>>
           \/ /\ pusher2pullers' = [pusher2pullers EXCEPT ![p] = @ \cup {q}]
              /\ pullerUser' = [pullerUser EXCEPT ![q] = src]
              /\ strayPullers' = NoteStray(strayPullers, src, q)
    BY <1>3 DEF HandleRemotePullSdp
  <2>2. p \in PusherIds
    BY DEF PusherIds
  <2>3. QED
    BY <2>1, <2>2, MembershipFrame, NewPullerStep
<1>4. ASSUME NEW u \in Users, NEW s \in Ssrcs, NEW p \in LocalPusherIds,
             HandlePushSdp(u, s, p)
      PROVE  [Membership!MNext]_Membership!mvars
  <2>1. CASE u \in users
    BY <1>4, <2>1, PushSdpStep DEF Membership!MNext
  <2>2. CASE u \notin users
    BY <1>4, <2>2, StrayPushStep
  <2>3. QED
    BY <2>1, <2>2
<1>5. ASSUME OnTimer PROVE Membership!Depart(TimedOutUsers)
  BY <1>5, TimerStep
<1>6. TimedOutUsers \in SUBSET Users
  BY DEF TimedOutUsers, TypeOK
<1>7. ASSUME NEW p \in LocalPusherIds, OnPushClose(p)
      PROVE  Membership!Unpublish(p)
  BY <1>7, PushCloseStep
<1>8. ASSUME NEW q \in PullerIds, OnPullClose(q)
      PROVE  Membership!Unsubscribe(q)
  BY <1>8, PullCloseStep
<1>9. ASSUME NEW p \in LocalPusherIds, OnRtpPacketFromRtcPusher(p)
      PROVE  UNCHANGED Membership!mvars
  BY <1>9, MembershipFrame DEF OnRtpPacketFromRtcPusher
<1>10. ASSUME NEW q \in PullerIds, KeyFrameFromPuller(q)
       PROVE  UNCHANGED Membership!mvars
  BY <1>10, MembershipFrame DEF KeyFrameFromPuller, OnKeyFrameRequest
<1>11. ASSUME NEW u \in Users
       PROVE  /\ ReConnect(u) => UNCHANGED Membership!mvars
              /\ UserLeave(u) => UNCHANGED Membership!mvars
              /\ HandleWsHeartbeat(u) => UNCHANGED Membership!mvars
              /\ Expire(u) => UNCHANGED Membership!mvars
              /\ \A P \in SUBSET OwnedRemote(u) :
                   HandleNewPusherNotificationFromCenter(u, P)
                     => UNCHANGED Membership!mvars
              /\ \A p \in LocalPusherIds :
                   /\ HandlePullRemoteStreamNotificationFromCenter(u, p)
                        => UNCHANGED Membership!mvars
                   /\ KeyFrameFromSendRelay(u, p) => UNCHANGED Membership!mvars
  BY MembershipFrame DEF ReConnect, UserLeave, HandleWsHeartbeat, Expire,
                         HandleNewPusherNotificationFromCenter,
                         HandlePullRemoteStreamNotificationFromCenter,
                         KeyFrameFromSendRelay, OnKeyFrameRequest
<1>12. ASSUME NEW r \in RelayIds
       PROVE  /\ RecvRelayDropRtp(r) => UNCHANGED Membership!mvars
              /\ ExpireRelay(r) => UNCHANGED Membership!mvars
              /\ \A p \in PusherIds :
                   OnRtpPacketFromRemoteRtcPusher(r, p)
                     => UNCHANGED Membership!mvars
  BY MembershipFrame DEF RecvRelayDropRtp, ExpireRelay,
                         OnRtpPacketFromRemoteRtcPusher
<1>13. Close \/ UNCHANGED vars => UNCHANGED Membership!mvars
  BY MembershipFrame DEF Close, vars
<1>14. QED
  <2>1. SUFFICES ASSUME Next PROVE [Membership!MNext]_Membership!mvars
    BY <1>13
  <2>2. QED
    BY <1>1, <1>2, <1>3, <1>4, <1>5, <1>6, <1>7, <1>8, <1>9, <1>10,
       <1>11, <1>12, <1>13 DEF Next, Membership!MNext

\* Whatever requests the signaling front end forwards, Room implements
\* RoomMembership once the strays are set aside: releasing a user in
\* Room::OnTimer takes all its pushers and pullers at once, a close
\* callback removes exactly its own pusher or puller, and HandlePullSdp and
\* HandleRemotePullSdp create a member's puller only on a published or
\* remote stream and never reuse a subscription id.
THEOREM RoomImplementsMembership == Spec => ImplementsMembership
<1>1. Init => Membership!MInit
  BY DEF Init, Membership!MInit, PublishedBy, SubscribedBy
<1>2. TypeOK /\ StrayPart /\ [Next]_vars => (TypeOK /\ StrayPart)'
  BY TypeOKStep, StrayStep
<1>3. TypeOK /\ StrayPart /\ [Next]_vars
        => [Membership!MNext]_Membership!mvars
  BY MembershipStep
<1>4. QED
  BY <1>1, StrayInit, <1>2, <1>3, PTL DEF Spec, ImplementsMembership,
                                        Membership!MSpec

=============================================================================
