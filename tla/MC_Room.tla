------------------------------ MODULE MC_Room ------------------------------
(* Instances of the Room model for TLC.                                    *)
EXTENDS Room, TLC

CONSTANTS u1, u2, lp1, lp2, rp1, q1, q2, r1, r2

\* The local instance: two users, local pushers and pullers, no relays.
LocalUsers == {u1, u2}
LocalPushers == {lp1}
TwoPushers == {lp1, lp2}
LocalPullers == {q1, q2}
NoIds == {}
NoRemoteOwner == [p \in {} |-> u1]
\* The cross-instance instance: rp1 is published by u2 on another
\* instance; two relay ids let a relay be dropped and another created.
RemotePushers == {rp1}
RemoteOwnerMap == (rp1 :> u2)
Relays == {r1, r2}
OnePuller == {q1}
OneRelay == {r1}

\* Users and puller ids are interchangeable in the local instance.
LocalSymmetry == Permutations(LocalUsers) \cup Permutations(LocalPullers)
=============================================================================
