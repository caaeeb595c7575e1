# Formal model of the RTCPilot webrtc_room

This directory holds a TLA+ model of the room controller of RTCPilot, an SFU
(selective forwarding unit). It also holds the TLC configurations that check the
model on small instances, and TLAPS proofs of its main invariants for every
instance. Source paths below are relative to the repository root
(`src/src/webrtc_room/...`).

## The system

A `Room` (`room.cpp`) runs on one libuv loop. Everything below happens on that
loop, one handler at a time, and the interleaving of those handlers is what the
model explores. The room keeps:

- `users_`: the room's `RtcUser`s. A user is *local* when it joined over this
  instance's websocket. It is *remote* when the pilot centre announced it
  (`newUser`, `newPusher`, the join response).
- `pusherId2pusher_`: the `MediaPusher`s that local users publish (`HandlePushSdp`).
- `pusher2pullers_`: the `MediaPuller`s of each pusher. A local subscriber creates
  them with `HandlePullSdp` (a local publisher) or `HandleRemotePullSdp` (a
  publisher behind another instance).
- `pusher_user_id2sendRelay_`: the `RtcSendRelay`s. Each forwards a local
  user's media to another instance after a `pullRemoteStream` notification.
- `pusher_id2recvRelay_` and `pusher_user_id2recvRelay_`: two indexes of the
  `RtcRecvRelay`s that receive a remote publisher's media (`PullRemotePusher`,
  `CreateOrGetRecvRtcRelay`).

The 1 Hz timer (`Room::OnTimer`) does two things:

- It releases every local user whose heartbeat is older than 40 s
  (`ReleaseUserResources`).
- It erases dead receive relays from both indexes.

RTP from a pusher refreshes its owner and every subscriber. This refresh is what
keeps subscribers alive. Close callbacks from the sessions (`OnPushClose`,
`OnPullClose`) and PLI key-frame requests (`OnKeyFrameRequest`) come back into
the room through the `MediaPushPullEventI` interface of `rtc_info.hpp`.

## Modules

| module | what it is |
|---|---|
| `Room.tla` | the room: state, one action per handler, the timer, the properties |
| `MC_Room.tla` | model values and constant definitions for TLC; symmetry set |
| `RoomProofs.tla` | TLAPS proofs of type correctness, the relay index invariant, orphan freedom and `NoLiveRelayReaped` |
| `CascadeProofs.tla` | TLAPS proofs of `CTypeOK` (a lemma) and `OneRelayPerPublisher` for `Cascade` |
| `RoomMembership.tla` | abstract spec of what a room promises: members, their publications, their subscriptions |
| `RoomMembershipProofs.tla` | TLAPS proof that `Room` refines `RoomMembership` |
| `Cascade.tla` | two instances of the SFU joined by the pilot centre: the origin's `RtcSendRelay` and the subscriber's `RtcRecvRelay`s |
| `MC_Cascade.tla` | model values for `Cascade` |

### Refinement: Room as a membership service

`Room.tla` ends with the refinement mapping `Membership`. It instantiates
`RoomMembership` with:

- `members <- users`;
- `published[u] <-` the pushers of `pusherId2pusher_` that `u` owns (`PublishedBy`);
- `subscribed[u] <-` the pairs (pusher, puller) of `pusher2pullers_` whose
  puller `u` holds (`SubscribedBy`).

Both mapped sets leave out the strays. A stray is a pusher or puller that a
handler created for a requester that was not in `users_`; a pair whose pusher
is a stray is left out too. Two history variables, `strayPushers` and
`strayPullers`, record the strays. They model no state of the code: the handlers
that create a pusher or puller add it when the requester is not a member, and no
guard reads them.

Under this mapping:

- a join or a new remote user is `Enter`;
- `HandlePushSdp` by a member is `Publish`, and `OnPushClose` is `Unpublish`;
- a pull by a member that adds a fresh puller to a pusher that is not a stray
  is `Subscribe`, and `OnPullClose` is `Unsubscribe`;
- a push or pull by a non-member, and a pull of a stray, is a stutter;
- the timer's user reap is `Depart` of the timed-out users;
- heartbeats, RTP, relays, key frames and callbacks are stutters.

`ImplementsMembership` states `Membership!MSpec` as a property.

### Cascade: a stream pulled across two instances

`Cascade.tla` follows one publishing user U through the pilot centre.

On the origin instance:
- U's pushers go live (`Publish`, `NewPusher2PilotCenter`) and close (`OnPushClose`).
- Room keeps one `RtcSendRelay` for U. It is created with the UDP endpoint
  of the first `pullRemoteStream` notification. Later notifications only add
  a `PushInfo` to it (`room.cpp:1354-1363`).
- `ForwardRtp` is `OnRtpPacketFromRtcPusher`, then `SendRtpPacket` to that one
  port, then the subscriber relay's `OnRead`.

On the subscriber instance:
- `HandleRemotePullSdp` reuses U's `RtcRecvRelay`, or opens a new one on a
  fresh port (`PortGenerator`), indexes it and sends the port in a pull request.
- `ExpireRelay` is 40 s without RTP on a relay. It is enabled only when no
  live pusher feeds that port and no pull request for it is in transit.
- `ReapRelays` is the relay part of `OnTimer`. It erases both indexes and
  destroys a relay that is no longer referenced, which closes its port.

UDP is reliable in this model.

### How the state maps to the code

| variable | code |
|---|---|
| `users`, `remote`, `respCb`, `alive`, `pushMap` | the keys of `users_`, `IsRemote()`, `GetRespCb() != nullptr`, `IsAlive()`, `GetPushers()` |
| `pusherOwner`, `pusherSsrc`, `pusherId2pusher`, `pushClosed` | each `MediaPusher`'s user and SSRC; the keys of `pusherId2pusher_`; whether the session has called `OnPushClose` |
| `pusher2pullers`, `pullerUser`, `pullerTarget`, `pullClosed` | the same for `MediaPuller`s and `pusher2pullers_` |
| `sendRelays`, `sendRelayPushers` | the keys of `pusher_user_id2sendRelay_` and each relay's `push_infos_` |
| `relayUser`, `relayAlive`, `relayPushers`, `pusherId2recvRelay`, `pusherUser2recvRelay` | each `RtcRecvRelay`'s publisher, `IsAlive()`, virtual pushers, and the two indexes |
| `inSession` | the user has a live websocket session (the front end outside `src/`) |
| `joinPending`, `closed`, `fault` | a join is outstanding at the pilot centre; `Room::Close` has run; undefined behaviour was reached |
| `strayPushers`, `strayPullers` | history only, with no code counterpart: the pushers and pullers created for a requester not in `users_` |

Ids are model values taken fresh from constant sets. An SDP is reduced to the one
pusher id and SSRC it announces. JSON (`rtc_info.hpp`) is reduced to the ids it
carries. Time is reduced to the result of the 40 s checks: the environment steps
`Expire(u)` and `ExpireRelay(r)` make a user or relay stale, and heartbeats and
RTP make it fresh again.

### Actions

Every action models a whole handler, early returns and trailing updates included:

- **Signaling:** `UserJoin`, `ReConnect`, `UserLeave`, `HandlePushSdp`,
  `HandlePullSdp`, `HandleRemotePullSdp`, `HandleWsHeartbeat`.
  - `UserLeave` stands for both `UserLeave` and `DisconnectUser`, which change
    the same state.
  - `HandleRemotePullSdp` includes `PullRemotePusher` and
    `CreateOrGetRecvRtcRelay`.
- **Media callbacks:** `OnRtpPacketFromRtcPusher`, `OnRtpPacketFromRemoteRtcPusher`,
  `RecvRelayDropRtp`, `OnPushClose`, `OnPullClose`.
  - `KeyFrameFromPuller` and `KeyFrameFromSendRelay` are the two callers of
    `OnKeyFrameRequest`. The puller's caller is the `WebRtcSession`, which is
    not in this repository, so `KeyFrameFromPuller` is modelled from the spec.
- **Pilot centre:** `JoinResponseFromPilotCenter`,
  `HandleNewUserNotificationFromCenter`, `HandleNewPusherNotificationFromCenter`,
  `HandlePullRemoteStreamNotificationFromCenter`.
  - The user-disconnect, user-leave and text-message notifications only send
    messages to local users. They change no room state and are left out.
- **Timer and environment:** `OnTimer`, which combines `ReleaseUserResources`
  over `TimedOutUsers` with `ReapRecvRelays`. Also `Expire`, `ExpireRelay` and
  `Close`.

The constant `SignalFromMembers` chooses between two front ends:

- **TRUE:** the front end only forwards requests of users that are in `users_`.
- **FALSE:** a session whose user the timer has released can still send requests.
  This is the case the code itself does not rule out.

`local_safety` and `nonmember_push` use FALSE. The other runs use TRUE to keep
the state space small. The theorems hold for both values.

## Runs

The first runs use `MC_Room`. The cascade runs use `MC_Cascade`.

| run | cfg | checks | result |
|---|---|---|---|
| local_safety | MC_Room.cfg | `TypeOK`, `OrphansAreStrays`, `ImplementsMembership` (with `SignalFromMembers = FALSE`) | pass (about 2.3M distinct states, 3 min) |
| remote_safety | MC_RoomRemote.cfg | `RecvRelayIndexConsistent`, `NoLiveRelayReaped` | pass (about 1.4M distinct states) |
| liveness | MC_RoomLive.cfg | `UserReaped`, `RelayReaped` | pass (about 559k distinct states) |
| keyframe_unknown_user | MC_KeyFrame.cfg | `NoUndefinedKeyFrame` | violation |
| reconnect_callback | MC_Reconnect.cfg | `SessionCallbackBound` | violation |
| send_relay_leak | MC_SendRelayLeak.cfg | `SendRelayOwned` | violation |
| ssrc_collision | MC_Ssrc.cfg | `SsrcUnique` | violation |
| nonmember_push | MC_NonMember.cfg | `OrphanFree` (with `SignalFromMembers = FALSE`) | violation |
| remote_mark_local | MC_RemoteMark.cfg | `RemoteHasNoRespCb` | violation |
| cascade_pull | MC_Cascade.cfg | `PulledStreamArrives` | pass (425 distinct states) |
| cascade_relay_timeouts | MC_CascadeTimeouts.cfg | `OneRelayPerPublisher` | pass (about 4k distinct states) |
| cascade_stale_endpoint | MC_CascadeStale.cfg | `PulledStreamArrives` (relays may time out) | violation |

What the properties say:

- `OrphansAreStrays`: a pusher in `pusherId2pusher_` or a puller in
  `pusher2pullers_` whose user is not a member is a stray. So the timer's
  release leaves nothing of a released user behind, whatever the front end
  forwards.
  - It holds across joins, leaves, timeouts, reconnects, closes and late
    requests.
  - It holds only because `ReleaseUserResources` scans every pusher's puller
    map. Line 158, `pusher2pullers_.erase(user_id)`, looks a user id up among
    pusher ids and removes nothing.
  - It says nothing of other users' pullers left under a released pusher.
    Those are what `keyframe_unknown_user` shows to be harmful.
- `OrphanFree` (checked only by `nonmember_push`): every pusher and puller in
  those tables belongs to a member. It is what the room would need, and the
  late requests break it.
- `RecvRelayIndexConsistent`: the two relay indexes agree.
  - A relay under a user key belongs to that user and is the relay of one of
    that user's pushers.
  - A relay under a pusher key holds that pusher and is its user's relay.
  - `OnTimer` has to erase both indexes for this to hold.
- `NoLiveRelayReaped` (action property): a receive relay leaves both indexes,
  which destroys it, only if it is no longer alive. Two places could break
  this:
  - `OnTimer` erases the user index by the dead relay's user;
  - a pull re-indexes a pusher in `CreateOrGetRecvRtcRelay`.

  Neither drops a relay that still receives RTP.
- `UserReaped` and `RelayReaped`: a stale local user, and a dead receive relay,
  are eventually removed. The only exceptions are a refresh in the meantime, the
  user becoming remote, or the room closing.

- `ImplementsMembership`: every step of the room maps to a step of
  `RoomMembership` or to a stutter, with the strays set aside. In particular:
  - a pull never attaches a puller to a stream that nobody publishes;
  - puller ids are never reused;
  - a user who departs holds nothing afterwards.
- `PulledStreamArrives`: a stream pulled from a remote instance reaches the
  subscriber while it stays published.
- `OneRelayPerPublisher`: the subscriber holds at most one open receive relay
  for U, and neither index keeps a destroyed relay.

The violations are findings, listed in PROJECT.json:

- **cascade_stale_endpoint:** the origin's send relay keeps the first port it
  was given. TLC's trace:
  1. p1 is pulled through a relay on port o1.
  2. p1 closes, so relay o1 gets no RTP, lapses and is reaped.
  3. p2 is pulled through a new relay on port o2.
  4. The origin adds p2 to the old send relay, which still targets o1, now closed.
  5. p2 never arrives.

  The code never re-targets or frees the send relay while U stays.

- **keyframe_unknown_user:** a PLI for a publisher that has been reaped
  dereferences `users_.end()` (`room.cpp:1008`).
- **reconnect_callback:** `ReConnect` never rebinds the response callback, which
  the spec says it does. Two traces reach an open session with no callback, and
  TLC reports either one depending on its worker count:
  - the pilot's `newUser` announces `u1` as a remote user, and a client then
    joins as `u1`, which `UserJoin` routes to `ReConnect`;
  - `u1` joins, leaves (which nulls the callback), and joins again.
- **remote_mark_local:** a `newPusher` notification can mark a local user remote.
  That user keeps its callback and is never reaped.
- **send_relay_leak:** a `pullRemoteStream` notification after a user's release
  creates a send relay that nothing frees.
- **ssrc_collision:** SSRC collisions are not rejected at push setup, which the
  spec says they are.
- **nonmember_push:** `HandlePushSdp` indexes the pusher before it checks that
  the user exists.

### Bounds

The three passing runs use these bounds:

- Two users, one or two local pusher ids, one remote pusher id owned by `u2`,
  one or two puller ids, one or two relays, and one SSRC.
- Two users are enough for a publisher and a different subscriber, and for one
  user to time out while the other keeps state that refers to it.
- One remote pusher and two relays let a relay die and a second be created for
  the same publisher.
- Ids are never reused, as in the code, which takes fresh UUIDs. So the id sets
  bound how many operations happen.

The local run uses symmetry over users and pullers. This is sound because no
definition tells two users or two pullers apart. The remote runs do not use
symmetry, because `RemoteOwner` names `u2`.

Every action and every disjunct of `Next` fires in the passing runs. Each
property of a passing run is broken by a mutant of a mapped definition, which
is a plausible bug of that code:

| mutant | breaks |
|---|---|
| puller stored under the wrong target (`HandlePullSdpSwapped`) | `TypeOK` |
| the puller loop dropped from the release (`ReleaseUserResourcesKeepPullers`) | `OrphansAreStrays` |
| the user index not erased on reap (`ReapRecvRelaysKeepUserIndex`) | `RecvRelayIndexConsistent` |
| only users who left are reaped (`TimedOutUsersLeftOnly`) | `UserReaped` |
| a new relay that is not indexed (`PullRemotePusherNewUnindexed`) | `RelayReaped` |
| the `IsAlive()` check dropped from the timer's relay loop (`DeadRelayPushersAll`) | `NoLiveRelayReaped` |
| a pull that accepts a closed pusher (`HandlePullSdpAnyPusher`) | `ImplementsMembership` |
| the push info added only to a new send relay (`HandlePullRemoteStreamFirstOnly`) | `PulledStreamArrives` |
| the receive relay looked up by pusher instead of by user (`HandleRemotePullSdpPerPusher`) | `OneRelayPerPublisher` |

### Fairness

`Spec` assumes `WF_vars(OnTimer)`. The room's timer is a libuv repeating timer
started in the constructor (`TimerInterface(1000)`, `StartTimer()`). On a loop
that is not blocked forever it fires every second until `Close`. No other action
is assumed to happen: users, the pilot centre and the network may all stop.

`CSpec` (Cascade) assumes weak fairness of three actions:
- the pilot centre delivering a `pullRemoteStream` notification, since the
  pilot relays every notification it accepts;
- `ForwardRtp` of a live pusher, since a live publisher keeps sending RTP;
- the subscriber's timer reap, since the room timer fires every second.

Nothing else is assumed. The cascade runs use two pushers and two ports:
- two pushers let one pusher close while another is still to be pulled;
- two ports let a relay lapse and be re-created on a new port.

The liveness run uses one puller and one relay. With two of each the state
space exceeds what TLC covers within a run. The refinement is checked in
`local_safety`, which allows late requests.

## Proofs (RoomProofs.tla, RoomMembershipProofs.tla, CascadeProofs.tla)

The proofs are checked by `tlapm` on each of the three modules.
`CascadeProofs` depends only on `CascadeAssumption`: `NoPort` is not a port,
and `RelayTimeouts` is Boolean, so the proofs cover both the runs with timeouts
and the runs without. The Room proofs depend only on `ConstantsAssumption`:

- the local and remote pusher ids are disjoint;
- `RemoteOwner` is a function into `Users`;
- SSRCs are positive;
- the sentinels `NoUser` and `NoRelay` are not ids.

| theorem | statement | argument |
|---|---|---|
| `TypeCorrect` | `Spec => []TypeOK` | `TypeOK` is inductive; lemma `TypeOKStep` has one step per action |
| `RecvRelayIndexCorrect` | `Spec => []RecvRelayIndexConsistent` | see below |
| `OrphansAreStraysCorrect` | `Spec => []OrphansAreStrays` | see below |
| `RoomImplementsMembership` | `Spec => ImplementsMembership` | see below |
| `NoLiveRelayReapedCorrect` | `Spec => NoLiveRelayReaped` | from `RelayInv`; see below |
| `CTypeCorrect` (Cascade) | `CSpec => []CTypeOK` | `CTypeOK` is inductive; no run checks it, since a wrong type there would be a slip of the model rather than of the code |
| `OneRelayCorrect` (Cascade) | `CSpec => []OneRelayPerPublisher` | see below |

`RecvRelayIndexConsistent` is not inductive on its own. A pull by `u` could
index a relay under a pusher that `u` does not own. The strengthening `RelayInv`
adds two facts:

- every remote pusher in a user's `pushMap` is owned by that user
  (`RemotePushMapOwned`);
- every pusher index points to a relay of the pusher's owner
  (`RelayIndexedByOwner`).

The lemmas `RelayFrame`, `RelayPushMap`, `RelayPullRemote` and `RelayTimer`
cover the actions that leave the relays alone, the actions that grow `pushMap`,
the remote pull, and the timer's reap. `RelayStep` combines them.

`NoLiveRelayReapedCorrect` is an action property, proved as
`RelayInv /\ [Next]_vars => [LiveRelayKept]_vars` (lemma `LiveRelayStep`)
and closed by PTL with the invariance of `RelayInv`. Only two kinds of step
change the relay indexes:

- **A pull** (`PullKeepsHeld`): re-indexing pusher `p` of user `u` lands on
  the relay that `p` and `u` already had. This needs all three conjuncts of
  `RelayInv`: the pilot gives `u` only its own pushers, `p` is indexed to a
  relay of its owner, and that relay is the one under `u`.
- **The timer's reap** (`TimerKeepsLiveHeld`): an alive relay under a user key
  is also under one of its pushers' keys, by the first half of
  `RecvRelayIndexConsistent`, and that entry is not in the dead list.

`OneRelayCorrect` (in `CascadeProofs.tla`) needs no strengthening:
`CTypeOK /\ OneRelayPerPublisher` is inductive. The key step is the reap
(`ReapEmptiesIndex`): every indexed pusher is on the one relay under U, so
when one of them is stale they all are, and the reap empties both indexes at
once. The pull (`PullKeepsOneRelay`) either reuses U's relay or opens a new
one at a moment when no pusher is indexed.

Writing this proof exposed a modelling slip. A pull that reused U's relay
while choosing its own port as the "fresh" one marked the relay alive. The
code does not refresh a reused relay, so the model now refreshes a relay only
when it creates one.

`OrphansAreStraysCorrect` and `RoomImplementsMembership` hold for either value
of `SignalFromMembers`. The history variables make this possible. `OrphanFree`
itself is false once a late request is allowed, as `nonmember_push` shows. What
the code does guarantee is that every orphan is a stray, and the refinement
holds for everything that is not a stray.

`OrphansAreStrays` is not inductive alone. The strengthening `StrayPart` adds two
facts:

- every stray has an owner (`StraysCreated`);
- a local pusher id not yet taken has no pullers (`UnclaimedUnpulled`).

So a fresh pusher or puller id is in no table and is not a stray
(`FreshIdsUnused`). `StrayStep` has one step per action, and `StrayNewPuller`
covers the two pull handlers. In the timer's release, the users it drops take
their pushers, and their pullers under every pusher, in the same step.

`RoomImplementsMembership` (in `RoomMembershipProofs.tla`) has the usual
refinement shape:

1. `Init` maps to `MInit`.
2. Under `TypeOK /\ StrayPart`, each step maps to an abstract step or a
   stutter. There is one lemma per kind of step: `EnterStep`, `PushSdpStep`
   (a member's push), `StrayPushStep` (a non-member's push), `PushCloseStep`,
   `NewPullerStep` (a pull: `Subscribe`, or a stutter for a stray),
   `PullCloseStep` and `TimerStep`. Every other action leaves the mapped
   variables alone (`MembershipFrame`).

`StrayPart` is needed for three reasons:
- a fresh puller id is unused in the abstract state (`FreshPullerUnused`);
- a pusher that a member pulls and that is not a stray is published by a member;
- the timer's release empties exactly the departing users' sets.

The last step combines these with the invariance of `TypeOK /\ StrayPart`
by PTL.

What is only model-checked:

- **Liveness:** `UserReaped` and `RelayReaped` need fairness and `ENABLED`,
  which TLAPS does not handle.
- **Cascade liveness:** `PulledStreamArrives` needs fairness and `ENABLED`,
  which TLAPS does not handle.
- **The violated properties:** they are counterexamples and are not proved.

## Not modelled

- **Packet I/O:** RTP/RTCP forwarding, NACK, RR and statistics in
  `MediaPusher`, `MediaPuller` and both relays, and the UDP sockets. They change
  no room state apart from the liveness refreshes that the model keeps.
- **JSON serialisation** of `PushInfo` and `RtpSessionParam`, and message wording.
- **The websocket front end (`WebRtcSession`) and `RtcUser`:** they are not in
  `src/`. `Requester` and `Expire` model them from the spec.
- **Separate publisher user in `HandleRemotePullSdp`:** the code takes a
  `pusher_user_id` argument separately from the pull's `target_user_id`. The
  model uses one user for both, as the callers do. This is listed as a hazard.
- **Eviction of remote users:** no handler ever removes a remote user.

## Plan and what is left

The next steps, in order:

- Model `RtcSendRelay` liveness. `IsAlive` is never called, so there is nothing
  to reap today.
- Model a separate `pusher_user_id` for `HandleRemotePullSdp`.
- Prove `NoUndefinedKeyFrame` under a fixed `OnKeyFrameRequest`.
- Prove a refinement of `Cascade`'s subscriber side against an abstract
  "one relay session per publisher" spec.
- Add UDP loss and pilot delay to `Cascade`. Loss of a pull request leaves the
  relay waiting for RTP that never comes.
