--------------------------- MODULE ConnectionPool ---------------------------
(***************************************************************************)
(* connpool.go: a stack of idle connections to mongod shared by many       *)
(* goroutines.  Get and Put are not atomic: the mutex covers only the pop  *)
(* of rawGet and the append of Put, so every other statement of a call     *)
(* interleaves with the calls of other goroutines.                         *)
(*                                                                         *)
(* A member of Conns stands for a PooledConnection and the net.Conn in it. *)
(***************************************************************************)
EXTENDS Integers, Sequences, FiniteSets, Functions

CONSTANTS
  Users,      \* goroutines that call Get and Put
  Conns,      \* every connection that is ever dialled: bounds the dials
  NoConn,     \* the nil *PooledConnection
  Timeout,    \* cp.timeoutSeconds
  MaxTime     \* bounds the clock

ASSUME PoolAssumption ==
  /\ NoConn \notin Conns
  /\ IsFiniteSet(Users)
  /\ Timeout \in Nat
  /\ MaxTime \in Nat

VARIABLES
  pool,          \* cp.pool, the last element is the top of the stack
  totalCreated,  \* cp.totalCreated
  sock,          \* the socket inside a connection: "none", "open" or "shut"
  closed,        \* pc.closed
  bad,           \* pc.bad
  lastUsed,      \* pc.lastUsedUnix
  now,           \* time.Now().Unix()
  poolpc,        \* the statement of connpool.go a user's call has reached
  conn,          \* the connection that call, or the user between calls, has
  crashed        \* a panic nobody recovers ended the process

poolVars == <<pool, totalCreated, sock, closed, bad, lastUsed, now,
              poolpc, conn, crashed>>

PoolPcs == {"out", "rawGet", "check", "dial", "hook", "count", "has", "push"}

(* The points of connpool.go at which a call refers to a connection. *)
Holding == {"check", "hook", "count", "has", "push"}

PoolTypeOK ==
  /\ pool \in Seq(Conns)
  /\ totalCreated \in Nat
  /\ sock \in [Conns -> {"none", "open", "shut"}]
  /\ closed \in [Conns -> BOOLEAN]
  /\ bad \in [Conns -> BOOLEAN]
  /\ lastUsed \in [Conns -> Nat]
  /\ now \in Nat
  /\ poolpc \in [Users -> PoolPcs]
  /\ conn \in [Users -> Conns \cup {NoConn}]
  /\ crashed \in BOOLEAN

PoolInit ==
  /\ pool = <<>>
  /\ totalCreated = 0
  /\ sock = [c \in Conns |-> "none"]
  /\ closed = [c \in Conns |-> FALSE]
  /\ bad = [c \in Conns |-> FALSE]
  /\ lastUsed = [c \in Conns |-> 0]
  /\ now = 0
  /\ poolpc = [u \in Users |-> "out"]
  /\ conn = [u \in Users |-> NoConn]
  /\ crashed = FALSE

(* User u's call moves on to statement p with connection c. *)
Goto(u, p, c) ==
  /\ poolpc' = [poolpc EXCEPT ![u] = p]
  /\ conn' = [conn EXCEPT ![u] = c]

-----------------------------------------------------------------------------
(* Get *)

GetCall(u) ==
  /\ poolpc[u] = "out"
  /\ Goto(u, "rawGet", NoConn)
  /\ UNCHANGED <<pool, totalCreated, sock, closed, bad, lastUsed, now, crashed>>

(* Faulty variant: the slice is not shortened after the pop. *)
RawGetHitKeeps(u) ==
  /\ poolpc[u] = "rawGet"
  /\ Len(pool) > 0
  /\ Goto(u, "check", pool[Len(pool)])
  /\ UNCHANGED <<pool, totalCreated, sock, closed, bad, lastUsed, now, crashed>>

(* rawGet pops the top of the stack under the mutex. *)
RawGetHit(u) ==
  /\ poolpc[u] = "rawGet"
  /\ Len(pool) > 0
  /\ pool' = SubSeq(pool, 1, Len(pool) - 1)
  /\ Goto(u, "check", pool[Len(pool)])
  /\ UNCHANGED <<totalCreated, sock, closed, bad, lastUsed, now, crashed>>

(* Faulty variant: "last <= 0" for "last < 0". *)
RawGetMissEarly(u) ==
  /\ poolpc[u] = "rawGet"
  /\ Len(pool) <= 1
  /\ Goto(u, "dial", NoConn)
  /\ UNCHANGED <<pool, totalCreated, sock, closed, bad, lastUsed, now, crashed>>

RawGetMiss(u) ==
  /\ poolpc[u] = "rawGet"
  /\ Len(pool) = 0
  /\ Goto(u, "dial", NoConn)
  /\ UNCHANGED <<pool, totalCreated, sock, closed, bad, lastUsed, now, crashed>>

IdleTooLong(c) == ~(now - lastUsed[c] < Timeout)

(* Faulty variant: closed is not reset when a connection is lent again. *)
ReuseStillClosed(u) ==
  /\ poolpc[u] = "check"
  /\ ~IdleTooLong(conn[u])
  /\ Goto(u, "has", conn[u])
  /\ UNCHANGED <<pool, totalCreated, sock, closed, bad, lastUsed, now, crashed>>

Reuse(u) ==
  /\ poolpc[u] = "check"
  /\ ~IdleTooLong(conn[u])
  /\ closed' = [closed EXCEPT ![conn[u]] = FALSE]
  /\ Goto(u, "has", conn[u])
  /\ UNCHANGED <<pool, totalCreated, sock, bad, lastUsed, now, crashed>>

(* An expired connection is closed and the loop pops the next one. *)
Expire(u) ==
  /\ poolpc[u] = "check"
  /\ IdleTooLong(conn[u])
  /\ sock' = [sock EXCEPT ![conn[u]] = "shut"]
  /\ Goto(u, "rawGet", NoConn)
  /\ UNCHANGED <<pool, totalCreated, closed, bad, lastUsed, now, crashed>>

Dial(u) ==
  /\ poolpc[u] = "dial"
  /\ \E c \in Conns :
       /\ sock[c] = "none"
       /\ sock' = [sock EXCEPT ![c] = "open"]
       /\ Goto(u, "hook", c)
  /\ UNCHANGED <<pool, totalCreated, closed, bad, lastUsed, now, crashed>>

DialFails(u) ==
  /\ poolpc[u] = "dial"
  /\ Goto(u, "out", NoConn)
  /\ UNCHANGED <<pool, totalCreated, sock, closed, bad, lastUsed, now, crashed>>

(* postCreateHook is nil or accepts the connection. *)
HookAccepts(u) ==
  /\ poolpc[u] = "hook"
  /\ Goto(u, "count", conn[u])
  /\ UNCHANGED <<pool, totalCreated, sock, closed, bad, lastUsed, now, crashed>>

(* Faulty variant: the socket is not closed when the hook refuses it. *)
HookFailsLeaks(u) ==
  /\ poolpc[u] = "hook"
  /\ Goto(u, "out", NoConn)
  /\ UNCHANGED <<pool, totalCreated, sock, closed, bad, lastUsed, now, crashed>>

(* Faulty variant: the connection is counted before the hook has seen it. *)
HookFailsCounted(u) ==
  /\ poolpc[u] = "hook"
  /\ totalCreated' = totalCreated + 1
  /\ sock' = [sock EXCEPT ![conn[u]] = "shut"]
  /\ Goto(u, "out", NoConn)
  /\ UNCHANGED <<pool, closed, bad, lastUsed, now, crashed>>

HookFails(u) ==
  /\ poolpc[u] = "hook"
  /\ sock' = [sock EXCEPT ![conn[u]] = "shut"]
  /\ Goto(u, "out", NoConn)
  /\ UNCHANGED <<pool, totalCreated, closed, bad, lastUsed, now, crashed>>

(* Faulty variant: the counter is decremented. *)
CountDown(u) ==
  /\ poolpc[u] = "count"
  /\ totalCreated' = totalCreated - 1
  /\ Goto(u, "has", conn[u])
  /\ UNCHANGED <<pool, sock, closed, bad, lastUsed, now, crashed>>

(* The atomic increment, and the new PooledConnection that Get returns. *)
CountCreated(u) ==
  /\ poolpc[u] = "count"
  /\ totalCreated' = totalCreated + 1
  /\ lastUsed' = [lastUsed EXCEPT ![conn[u]] = 0]
  /\ closed' = [closed EXCEPT ![conn[u]] = FALSE]
  /\ bad' = [bad EXCEPT ![conn[u]] = FALSE]
  /\ Goto(u, "has", conn[u])
  /\ UNCHANGED <<pool, sock, now, crashed>>

-----------------------------------------------------------------------------
(* Put, called with any connection the caller has a pointer to *)

(* A second Put of a connection panics.  The process is gone then: what else *)
(* the step writes no longer matters.                                        *)
StampClosed(c) ==
  /\ crashed' = closed[c]
  /\ lastUsed' = [lastUsed EXCEPT ![c] = now]
  /\ closed' = [closed EXCEPT ![c] = TRUE]

(* Faulty variant: no return after a bad connection is closed. *)
PutBadFallsThrough(u, c) ==
  /\ bad[c]
  /\ StampClosed(c)
  /\ sock' = [sock EXCEPT ![c] = "shut"]
  /\ Goto(u, "push", c)
  /\ UNCHANGED <<pool, totalCreated, bad, now>>

PutBad(u, c) ==
  /\ bad[c]
  /\ StampClosed(c)
  /\ sock' = [sock EXCEPT ![c] = "shut"]
  /\ Goto(u, "out", NoConn)
  /\ UNCHANGED <<pool, totalCreated, bad, now>>

(* A good connection is stamped here and appended later, under the mutex. *)
PutGood(u, c) ==
  /\ ~bad[c]
  /\ StampClosed(c)
  /\ Goto(u, "push", c)
  /\ UNCHANGED <<pool, totalCreated, sock, bad, now>>

Push(u) ==
  /\ poolpc[u] = "push"
  /\ pool' = Append(pool, conn[u])
  /\ Goto(u, "out", NoConn)
  /\ UNCHANGED <<totalCreated, sock, closed, bad, lastUsed, now, crashed>>

Put(u, c) == PutBad(u, c) \/ PutGood(u, c)

-----------------------------------------------------------------------------
(* A user of a connection sees an error on it. *)
MarkBad(u, c) ==
  /\ bad' = [bad EXCEPT ![c] = TRUE]
  /\ UNCHANGED <<pool, totalCreated, sock, closed, lastUsed, now, poolpc, conn,
                 crashed>>

Tick ==
  /\ now < MaxTime
  /\ now' = now + 1
  /\ UNCHANGED <<pool, totalCreated, sock, closed, bad, lastUsed, poolpc, conn,
                 crashed>>

(* The steps of Get up to, but not including, the one that returns. *)
GetStep(u) ==
  \/ RawGetHit(u)
  \/ RawGetMiss(u)
  \/ Expire(u)
  \/ Dial(u)
  \/ HookAccepts(u)

GetReturns(u) == Reuse(u) \/ CountCreated(u)

GetFails(u) == DialFails(u) \/ HookFails(u)

(* The contract of the callers: a user that has a connection may find it   *)
(* bad, and passes it to Put once.                                         *)
UseStep(u) ==
  /\ poolpc[u] = "has"
  /\ \/ MarkBad(u, conn[u])
     \/ Put(u, conn[u])

PoolNext ==
  /\ ~crashed
  /\ \/ Tick
     \/ \E u \in Users :
          \/ GetCall(u)
          \/ GetStep(u)
          \/ GetReturns(u)
          \/ GetFails(u)
          \/ UseStep(u)
          \/ Push(u)

PoolSpec == PoolInit /\ [][PoolNext]_poolVars

(* A goroutine inside Get or Put is runnable, so the scheduler runs it,      *)
(* but for the two statements that wait for others: net.Dial or tls.Dial,   *)
(* and postCreateHook.  Neither has a deadline in connpool.go; that they    *)
(* return, with a connection or an error, is assumed here.                  *)
PoolFairness ==
  \A u \in Users :
    WF_poolVars(~crashed /\ (GetStep(u) \/ GetReturns(u) \/ GetFails(u) \/ Push(u)))

FairPoolSpec == PoolSpec /\ PoolFairness
-----------------------------------------------------------------------------
(* Properties *)

Holds(u, c) == poolpc[u] \in Holding /\ conn[u] = c

(* A connection is referred to at most once: it has one place in cp.pool,   *)
(* or one goroutine has it.  Two sessions on one socket would mix replies.  *)
Exclusive ==
  /\ \A i, j \in 1..Len(pool) : pool[i] = pool[j] => i = j
  /\ \A u \in Users, i \in 1..Len(pool) : ~Holds(u, pool[i])
  /\ \A u, v \in Users, c \in Conns : Holds(u, c) /\ Holds(v, c) => u = v

(* What rawGet may pop was put back once, after it was stamped, by a user    *)
(* that found nothing wrong with it, and its socket is open.                *)
PoolHealthy ==
  \A i \in 1..Len(pool) :
    /\ sock[pool[i]] = "open"
    /\ closed[pool[i]]
    /\ ~bad[pool[i]]
    /\ lastUsed[pool[i]] <= now

(* Every socket that is open can still be reached, to be used or closed:    *)
(* no path of Get or Put, expiry and failing hook included, drops one.      *)
NoSocketLost ==
  \A c \in Conns :
    sock[c] = "open" => c \in Range(pool) \/ \E u \in Users : Holds(u, c)

(* Put's "closing a connection twice" does not fire on callers that return  *)
(* what Get gave them once.                                                 *)
NoDoubleClose == ~crashed

(* The connections that Get has created and returned: a user has it, or has *)
(* passed it to Put.                                                        *)
HandedOut ==
  {c \in Conns : closed[c] \/ \E u \in Users : poolpc[u] = "has" /\ conn[u] = c}

(* LoadTotalCreated tells how many connections Get has created and returned: *)
(* one that is lent again is not counted again, and neither are a dial that  *)
(* fails and a socket that postCreateHook refuses.                           *)
CreatedCounted == totalCreated = Cardinality(HandedOut)

OpenSockets == {c \in Conns : sock[c] = "open"}
Dialling == {u \in Users : poolpc[u] = "dial"}

(* Get dials only when the stack is empty, so the sockets that are open or  *)
(* being opened never outnumber the callers, though Get and Put are not     *)
(* atomic and the pool has no limit of its own.                             *)
SocketBound ==
  Cardinality(OpenSockets) + Cardinality(Dialling) <= Cardinality(Users)

(* The conjunction that every step of connpool.go keeps: the properties      *)
(* above, and what they need to know of a connection somebody holds and of  *)
(* one that is not dialled yet.                                             *)
HeldSound ==
  \A u \in Users :
    poolpc[u] \in Holding =>
      /\ conn[u] \in Conns
      /\ sock[conn[u]] = "open"
      /\ poolpc[u] \in {"check", "push"} => closed[conn[u]] /\ ~bad[conn[u]]
      /\ poolpc[u] \in {"hook", "count", "has"} => ~closed[conn[u]]

FreshUntouched ==
  \A c \in Conns : sock[c] = "none" => ~closed[c] /\ ~bad[c] /\ lastUsed[c] = 0

StampsPast == \A c \in Conns : lastUsed[c] <= now

PoolInv ==
  /\ PoolTypeOK
  /\ Exclusive
  /\ PoolHealthy
  /\ HeldSound
  /\ FreshUntouched
  /\ StampsPast
  /\ NoSocketLost
  /\ NoDoubleClose

(* A Get that is called returns if its dial and the hook do: the loop over  *)
(* expired connections ends, whatever other goroutines push meanwhile.      *)
GetTerminates ==
  \A u \in Users : poolpc[u] = "rawGet" ~> poolpc[u] \in {"out", "has"}

ownerOf(c) ==
  IF \E u \in Users : Holds(u, c)
  THEN <<"user", CHOOSE u \in Users : Holds(u, c)>>
  ELSE IF c \in Range(pool) THEN <<"idle">>
  ELSE IF sock[c] = "none" THEN <<"fresh">> ELSE <<"retired">>

Lease == INSTANCE ConnLease WITH owner <- [c \in Conns |-> ownerOf(c)]

(* Get and Put implement the lease of ConnLease: a connection passes from   *)
(* one goroutine to another only through the idle stack.                    *)
RefinesLease == Lease!Spec
=============================================================================
