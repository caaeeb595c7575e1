---------------------------- MODULE CascadeProofs ----------------------------
(***************************************************************************)
(* Proofs about the two-instance cascade, for every set of pushers and     *)
(* ports and with or without relay timeouts.                               *)
(***************************************************************************)
EXTENDS Cascade, TLAPS

USE CascadeAssumption

\* Every step of either instance or of the pilot centre keeps the state of
\* the cascade well typed.
LEMMA CTypeOKStep == CTypeOK /\ [CNext]_cvars => CTypeOK'
<1> SUFFICES ASSUME CTypeOK, [CNext]_cvars PROVE CTypeOK'
  OBVIOUS
<1>1. ASSUME NEW p \in Pushers
      PROVE  /\ Publish(p) => CTypeOK'
             /\ ClosePusher(p) => CTypeOK'
             /\ ForwardRtp(p) => CTypeOK'
             /\ HandleNewPusherNotification(p) => CTypeOK'
  BY DEF Publish, ClosePusher, ForwardRtp, HandleNewPusherNotification,
         CTypeOK, originVars, subVars, Open
<1>2. ASSUME NEW p \in Pushers, NEW o \in Ports
      PROVE  /\ HandleRemotePullSdp(p, o) => CTypeOK'
             /\ HandlePullRemoteStream(o, p) => CTypeOK'
  BY DEF HandleRemotePullSdp, HandlePullRemoteStream, AddVirtualPusher,
         CreateSendRelay, AddPushInfo, CTypeOK, originVars, subVars
<1>3. ASSUME NEW o \in Ports PROVE ExpireRelay(o) => CTypeOK'
  BY DEF ExpireRelay, CTypeOK, originVars
<1>4. ReapRelays => CTypeOK'
  BY DEF ReapRelays, CTypeOK, originVars, Open
<1>5. UNCHANGED cvars => CTypeOK'
  BY DEF cvars, originVars, subVars, CTypeOK
<1>6. QED
  BY <1>1, <1>2, <1>3, <1>4, <1>5 DEF CNext

\* Under OneRelayPerPublisher every indexed pusher is on the publisher's one
\* relay, so when the timer finds one of them stale it finds all of them
\* stale: the reap empties pusherId2recvRelay_ entirely.
LEMMA ReapEmptiesIndex ==
  ASSUME CTypeOK, OneRelayPerPublisher, ReapRelays
  PROVE  /\ pusherRelay' = [p \in Pushers |-> NoPort]
         /\ userRelay' = NoPort
<1> DEFINE dead == {p \in Pushers : /\ pusherRelay[p] # NoPort
                                    /\ relayState[pusherRelay[p]] = "stale"}
<1>1. dead # {} /\ userRelay' = NoPort
  BY DEF ReapRelays
<1>2. PICK d \in dead : TRUE
  BY <1>1
<1>3. userRelay # NoPort /\ relayState[userRelay] = "stale"
  BY <1>2 DEF OneRelayPerPublisher
<1>4. \A p \in Pushers : pusherRelay[p] # NoPort => p \in dead
  BY <1>3 DEF OneRelayPerPublisher
<1>5. pusherRelay' = [p \in Pushers |-> IF p \in dead THEN NoPort
                                                      ELSE pusherRelay[p]]
  BY DEF ReapRelays
<1>6. QED
  BY <1>1, <1>4, <1>5 DEF CTypeOK

\* The pull, the only step that indexes a relay, keeps one relay for the
\* publisher: it reuses the relay under U, or opens one on a free port
\* when U has none and so no pusher is indexed either.
LEMMA PullKeepsOneRelay ==
  ASSUME CTypeOK, OneRelayPerPublisher,
         NEW p \in Pushers, NEW o \in Ports, HandleRemotePullSdp(p, o)
  PROVE  OneRelayPerPublisher'
<1>1. CASE userRelay # NoPort
  <2>1. /\ userRelay' = userRelay
        /\ relayState' = relayState
        /\ pusherRelay' = [pusherRelay EXCEPT ![p] = userRelay]
        /\ relayPushers' = [relayPushers EXCEPT ![userRelay] = @ \cup {p}]
    BY <1>1 DEF HandleRemotePullSdp, AddVirtualPusher
  <2>2. userRelay \in Ports
    BY <1>1 DEF CTypeOK
  <2>3. QED
    BY <2>1, <2>2 DEF OneRelayPerPublisher, Open, CTypeOK
<1>2. CASE userRelay = NoPort
  <2>1. /\ userRelay' = o
        /\ relayState' = [relayState EXCEPT ![o] = "alive"]
        /\ pusherRelay' = [pusherRelay EXCEPT ![p] = o]
        /\ relayPushers' = [relayPushers EXCEPT ![o] = @ \cup {p}]
    BY <1>2 DEF HandleRemotePullSdp, AddVirtualPusher
  <2>2. \A q \in Pushers : pusherRelay[q] = NoPort
    BY <1>2 DEF OneRelayPerPublisher
  <2>3. QED
    BY <2>1, <2>2 DEF OneRelayPerPublisher, Open, CTypeOK
<1>3. QED
  BY <1>1, <1>2

\* Every step keeps one relay per publisher and no index on a destroyed
\* relay.
LEMMA OneRelayStep ==
  CTypeOK /\ OneRelayPerPublisher /\ [CNext]_cvars => OneRelayPerPublisher'
<1> SUFFICES ASSUME CTypeOK, OneRelayPerPublisher, [CNext]_cvars
             PROVE  OneRelayPerPublisher'
  OBVIOUS
<1>1. ASSUME NEW p \in Pushers,
             Publish(p) \/ ClosePusher(p) \/ HandleNewPusherNotification(p)
      PROVE  OneRelayPerPublisher'
  BY <1>1 DEF Publish, ClosePusher, HandleNewPusherNotification,
              OneRelayPerPublisher, Open, subVars
<1>2. ASSUME NEW p \in Pushers, NEW o \in Ports, HandlePullRemoteStream(o, p)
      PROVE  OneRelayPerPublisher'
  BY <1>2 DEF HandlePullRemoteStream, OneRelayPerPublisher, Open, subVars
<1>3. ASSUME NEW p \in Pushers, ForwardRtp(p) PROVE OneRelayPerPublisher'
  <2>1. /\ relayState' = [relayState EXCEPT ![sendEndpoint] = "alive"]
        /\ UNCHANGED <<relayPushers, pusherRelay, userRelay>>
    BY <1>3 DEF ForwardRtp
  <2>2. \A o \in Ports : Open(o) => Open(o)'
    BY <2>1 DEF Open, CTypeOK
  <2>3. QED
    BY <2>1, <2>2 DEF OneRelayPerPublisher, CTypeOK
<1>4. ASSUME NEW o \in Ports, ExpireRelay(o) PROVE OneRelayPerPublisher'
  <2>1. /\ relayState' = [relayState EXCEPT ![o] = "stale"]
        /\ UNCHANGED <<relayPushers, pusherRelay, userRelay>>
    BY <1>4 DEF ExpireRelay
  <2>2. \A o2 \in Ports : Open(o2) => Open(o2)'
    BY <2>1 DEF Open, CTypeOK
  <2>3. QED
    BY <2>1, <2>2 DEF OneRelayPerPublisher, CTypeOK
<1>5. ReapRelays => OneRelayPerPublisher'
  BY ReapEmptiesIndex DEF OneRelayPerPublisher
<1>6. ASSUME NEW p \in Pushers, NEW o \in Ports, HandleRemotePullSdp(p, o)
      PROVE  OneRelayPerPublisher'
  BY <1>6, PullKeepsOneRelay
<1>7. UNCHANGED cvars => OneRelayPerPublisher'
  BY DEF cvars, subVars, OneRelayPerPublisher, Open
<1>8. QED
  BY <1>1, <1>2, <1>3, <1>4, <1>5, <1>6, <1>7 DEF CNext

\* Every reachable state of the cascade is well typed, for all pushers and
\* ports.
THEOREM CTypeCorrect == CSpec => []CTypeOK
<1>1. CInit => CTypeOK
  BY DEF CInit, CTypeOK
<1>2. QED
  BY <1>1, CTypeOKStep, PTL DEF CSpec

\* The subscriber's Room never holds two receive relays for one publisher,
\* nor an index entry on a relay whose port the timer has closed, whatever
\* the order of pulls, RTP, 40 s lapses and timer reaps.
THEOREM OneRelayCorrect == CSpec => []OneRelayPerPublisher
<1>1. CInit => CTypeOK /\ OneRelayPerPublisher
  BY DEF CInit, CTypeOK, OneRelayPerPublisher
<1>2. CTypeOK /\ OneRelayPerPublisher /\ [CNext]_cvars
        => (CTypeOK /\ OneRelayPerPublisher)'
  BY CTypeOKStep, OneRelayStep
<1>3. QED
  BY <1>1, <1>2, PTL DEF CSpec

=============================================================================
