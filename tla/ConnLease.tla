----------------------------- MODULE ConnLease -----------------------------
(***************************************************************************)
(* What a connection pool promises its callers, without saying how: every  *)
(* connection has one owner at a time.  It is opened for a user, is handed *)
(* back to the idle stock or retired by its owner, and reaches another     *)
(* user only through the idle stock.  A retired connection never returns.  *)
(***************************************************************************)
CONSTANTS
  Users,    \* callers of the pool
  Conns     \* connections

VARIABLE owner

Fresh == <<"fresh">>      \* not opened yet
Idle == <<"idle">>        \* in stock, owned by the pool
Retired == <<"retired">>  \* its socket is closed
LeasedTo(u) == <<"user", u>>

Init == owner = [c \in Conns |-> Fresh]

Open(u, c) ==
  /\ owner[c] = Fresh
  /\ owner' = [owner EXCEPT ![c] = LeasedTo(u)]

Lend(u, c) ==
  /\ owner[c] = Idle
  /\ owner' = [owner EXCEPT ![c] = LeasedTo(u)]

Return(u, c) ==
  /\ owner[c] = LeasedTo(u)
  /\ owner' = [owner EXCEPT ![c] = Idle]

Retire(u, c) ==
  /\ owner[c] = LeasedTo(u)
  /\ owner' = [owner EXCEPT ![c] = Retired]

(* A user takes a connection only while it owns none. *)
OwnsNone(u) == \A c \in Conns : owner[c] # LeasedTo(u)

Next ==
  \E u \in Users, c \in Conns :
    \/ OwnsNone(u) /\ (Open(u, c) \/ Lend(u, c))
    \/ Return(u, c)
    \/ Retire(u, c)

Spec == Init /\ [][Next]_owner
=============================================================================
