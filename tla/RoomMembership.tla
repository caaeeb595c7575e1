--------------------------- MODULE RoomMembership ---------------------------
(***************************************************************************)
(* What a room promises its users, with no relays, sessions or timers:    *)
(* a set of members, the streams each member publishes here and the       *)
(* subscriptions each member holds (a puller id on a pusher id).  Users   *)
(* enter and depart, publish and unpublish, subscribe and unsubscribe;    *)
(* departing takes a member's publications and subscriptions with it.     *)
(* Room (Room.tla) implements this specification under the mapping        *)
(* Membership defined there.                                              *)
(***************************************************************************)

CONSTANTS
  Users,            \* user ids
  LocalPusherIds,   \* streams published on this instance
  RemotePusherIds,  \* streams published on other instances
  PullerIds         \* subscription ids

VARIABLES
  members,     \* the users in the room
  published,   \* published[u]: the local streams u publishes
  subscribed   \* subscribed[u]: pairs <<pusher, puller>> u subscribes with

mvars == <<members, published, subscribed>>

\* Every stream some member currently publishes.
Published == UNION {published[u] : u \in Users}

\* Puller ids already in use by a subscription.
UsedPullers == {x[2] : x \in UNION {subscribed[u] : u \in Users}}

MInit ==
  /\ members = {}
  /\ published = [u \in Users |-> {}]
  /\ subscribed = [u \in Users |-> {}]

\* A user enters (a no-op for a member).
Enter(u) ==
  /\ members' = members \cup {u}
  /\ UNCHANGED <<published, subscribed>>

\* The members of R depart with everything they hold.
Depart(R) ==
  /\ R \subseteq members
  /\ members' = members \ R
  /\ published' = [u \in Users |-> IF u \in R THEN {} ELSE published[u]]
  /\ subscribed' = [u \in Users |-> IF u \in R THEN {} ELSE subscribed[u]]

\* A member publishes a stream no one publishes.
Publish(u, p) ==
  /\ u \in members
  /\ p \notin Published
  /\ published' = [published EXCEPT ![u] = @ \cup {p}]
  /\ UNCHANGED <<members, subscribed>>

\* A stream stops being published; its subscriptions stay until their
\* holders unsubscribe.
Unpublish(p) ==
  /\ published' = [u \in Users |-> published[u] \ {p}]
  /\ UNCHANGED <<members, subscribed>>

\* A member subscribes with a new puller id to a stream published here or
\* on another instance.
Subscribe(u, p, q) ==
  /\ u \in members
  /\ p \in Published \cup RemotePusherIds
  /\ q \notin UsedPullers
  /\ subscribed' = [subscribed EXCEPT ![u] = @ \cup {<<p, q>>}]
  /\ UNCHANGED <<members, published>>

\* A subscription ends.
Unsubscribe(q) ==
  /\ subscribed' = [u \in Users |-> {x \in subscribed[u] : x[2] # q}]
  /\ UNCHANGED <<members, published>>

MNext ==
  \/ \E u \in Users : Enter(u)
  \/ \E R \in SUBSET Users : Depart(R)
  \/ \E u \in Users, p \in LocalPusherIds : Publish(u, p)
  \/ \E p \in LocalPusherIds : Unpublish(p)
  \/ \E u \in Users, p \in LocalPusherIds \cup RemotePusherIds,
        q \in PullerIds : Subscribe(u, p, q)
  \/ \E q \in PullerIds : Unsubscribe(q)

MSpec == MInit /\ [][MNext]_mvars

\* Users outside the room hold no publication and no subscription.
NonMembersHoldNothing ==
  \A u \in Users \ members : published[u] = {} /\ subscribed[u] = {}

=============================================================================
