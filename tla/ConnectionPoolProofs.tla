------------------------ MODULE ConnectionPoolProofs ------------------------
(***************************************************************************)
(* Proofs about ConnectionPool for any set of users and connections, any   *)
(* timeout and any clock bound.                                            *)
(***************************************************************************)
EXTENDS ConnectionPool, FiniteSetTheorems, SequenceTheorems, TLAPS

(* The members of a stack, by position. *)
LEMMA MemberFacts ==
  ASSUME NEW S, NEW s \in Seq(S)
  PROVE  \A e : e \in Range(s) <=> \E i \in 1..Len(s) : e = s[i]
<1>1. DOMAIN s = 1..Len(s)
  OBVIOUS
<1>. QED BY <1>1 DEF Range

(* The stack that rawGet's pop leaves. *)
Popped(s) == SubSeq(s, 1, Len(s) - 1)

(* What rawGet's pop of the top of a stack returns and leaves. *)
LEMMA PopFacts ==
  ASSUME NEW S, NEW s \in Seq(S), Len(s) > 0
  PROVE  /\ Popped(s) \in Seq(S)
         /\ Len(Popped(s)) = Len(s) - 1
         /\ \A i \in 1..Len(Popped(s)) : Popped(s)[i] = s[i]
         /\ s[Len(s)] \in S
         /\ Range(s) = Range(Popped(s)) \cup {s[Len(s)]}
<1>1. /\ Popped(s) \in Seq(S)
      /\ Len(Popped(s)) = Len(s) - 1
      /\ \A i \in 1..Len(Popped(s)) : Popped(s)[i] = s[i]
  <2>. DEFINE n == Len(s) - 1
              t == SubSeq(s, 1, n)
  <2>1. n \in Nat /\ \A i \in 1..n : s[i] \in S
    OBVIOUS
  <2>2. /\ t \in Seq(S)
        /\ Len(t) = IF 1 <= n THEN n - 1 + 1 ELSE 0
        /\ \A i \in 1..(n - 1 + 1) : t[i] = s[1 + i - 1]
    BY <2>1, SubSeqProperties
  <2>3. Popped(s) = t
    BY DEF Popped
  <2>4. Len(s) - 1 = n
    OBVIOUS
  <2>. HIDE DEF n, t
  <2>5. Len(t) = n /\ n - 1 + 1 = n
    BY <2>1, <2>2
  <2>6. \A i \in 1..n : t[i] = s[i]
    BY <2>1, <2>2
  <2>. QED BY <2>2, <2>3, <2>4, <2>5, <2>6
<1>2. s[Len(s)] \in S
  OBVIOUS
<1>3. Range(s) = Range(Popped(s)) \cup {s[Len(s)]}
  <2>1. ASSUME NEW e PROVE e \in Range(s) <=> \E i \in 1..Len(s) : e = s[i]
    BY MemberFacts
  <2>2. ASSUME NEW e
        PROVE  e \in Range(Popped(s)) <=> \E i \in 1..(Len(s) - 1) : e = s[i]
    BY <1>1, MemberFacts
  <2>3. ASSUME NEW e
        PROVE  e \in Range(s) <=> e \in Range(Popped(s)) \/ e = s[Len(s)]
    BY <1>2, <2>1, <2>2
  <2>. QED BY <2>3
<1>. QED BY <1>1, <1>2, <1>3

(* What Put's append leaves. *)
LEMMA PushFacts ==
  ASSUME NEW S, NEW s \in Seq(S), NEW e \in S
  PROVE  /\ Append(s, e) \in Seq(S)
         /\ Len(Append(s, e)) = Len(s) + 1
         /\ \A i \in 1..Len(s) : Append(s, e)[i] = s[i]
         /\ Append(s, e)[Len(s) + 1] = e
         /\ Range(s) \cup {e} \subseteq Range(Append(s, e))
<1>1. /\ Append(s, e) \in Seq(S)
      /\ Len(Append(s, e)) = Len(s) + 1
      /\ \A i \in 1..Len(s) : Append(s, e)[i] = s[i]
      /\ Append(s, e)[Len(s) + 1] = e
  OBVIOUS
<1>2. DOMAIN s = 1..Len(s) /\ DOMAIN Append(s, e) = 1..(Len(s) + 1)
  BY <1>1
<1>3. Range(s) \cup {e} \subseteq Range(Append(s, e))
  BY <1>1, <1>2 DEF Range
<1>. QED BY <1>1, <1>3

-----------------------------------------------------------------------------
(* A fresh pool satisfies the invariant. *)
LEMMA PoolInitInv == PoolInit => PoolInv
<1>. SUFFICES ASSUME PoolInit PROVE PoolInv
  OBVIOUS
<1>1. PoolTypeOK
  <2>1. closed \in [Conns -> BOOLEAN] /\ bad \in [Conns -> BOOLEAN] /\ crashed \in BOOLEAN
    BY Zenon DEF PoolInit
  <2>2. /\ pool \in Seq(Conns)
        /\ totalCreated \in Nat
        /\ sock \in [Conns -> {"none", "open", "shut"}]
        /\ lastUsed \in [Conns -> Nat]
        /\ now \in Nat
        /\ poolpc \in [Users -> PoolPcs]
        /\ conn \in [Users -> Conns \cup {NoConn}]
    BY SMT DEF PoolInit, PoolPcs
  <2>. QED BY <2>1, <2>2, Zenon DEF PoolTypeOK
<1>2. Exclusive /\ PoolHealthy
  BY DEF PoolInit, Exclusive, PoolHealthy, Holds, Holding
<1>3. HeldSound /\ FreshUntouched /\ StampsPast
  BY DEF PoolInit, HeldSound, Holding, FreshUntouched, StampsPast
<1>4. NoSocketLost /\ NoDoubleClose
  BY DEF PoolInit, NoSocketLost, NoDoubleClose
<1>. QED BY <1>1, <1>2, <1>3, <1>4 DEF PoolInv

(* A step of one user that leaves the stack alone and moves that user       *)
(* between two statements at which it holds no connection.                  *)
LEMMA IdleMoveInv ==
  ASSUME PoolInv, NEW u \in Users, NEW p \in PoolPcs \ Holding,
         poolpc[u] \notin Holding, Goto(u, p, NoConn),
         UNCHANGED <<pool, totalCreated, sock, closed, bad, lastUsed, now, crashed>>
  PROVE  PoolInv'
  BY DEF PoolInv, PoolTypeOK, PoolPcs, Exclusive, PoolHealthy, HeldSound,
    FreshUntouched, StampsPast, NoSocketLost, NoDoubleClose, Holds, Holding, Goto

(* Calling Get keeps the invariant. *)
LEMMA GetCallInv == ASSUME PoolInv, NEW u \in Users, GetCall(u) PROVE PoolInv'
  BY IdleMoveInv DEF GetCall, PoolPcs, Holding

(* So does finding the stack empty, *)
LEMMA RawGetMissInv == ASSUME PoolInv, NEW u \in Users, RawGetMiss(u) PROVE PoolInv'
  BY IdleMoveInv DEF RawGetMiss, PoolPcs, Holding

(* and a dial that fails. *)
LEMMA DialFailsInv == ASSUME PoolInv, NEW u \in Users, DialFails(u) PROVE PoolInv'
  BY IdleMoveInv DEF DialFails, PoolPcs, Holding

(* The pop of rawGet moves a connection from the stack to one user. *)
LEMMA RawGetHitInv == ASSUME PoolInv, NEW u \in Users, RawGetHit(u) PROVE PoolInv'
<1>. DEFINE top == pool[Len(pool)]
<1>1. /\ pool' \in Seq(Conns)
      /\ Len(pool') = Len(pool) - 1
      /\ \A i \in 1..Len(pool') : pool'[i] = pool[i]
      /\ top = pool[Len(pool)]
      /\ top \in Conns
      /\ Range(pool) = Range(pool') \cup {top}
  BY PopFacts DEF PoolInv, PoolTypeOK, RawGetHit, Popped
<1>2. /\ Len(pool) \in Nat /\ Len(pool) > 0
      /\ poolpc[u] = "rawGet"
      /\ poolpc' = [poolpc EXCEPT ![u] = "check"]
      /\ conn' = [conn EXCEPT ![u] = top]
      /\ UNCHANGED <<totalCreated, sock, closed, bad, lastUsed, now, crashed>>
  BY DEF PoolInv, PoolTypeOK, RawGetHit, Goto
<1>. HIDE DEF top
<1>. USE DEF PoolInv, PoolTypeOK, PoolPcs, Holds, Holding
<1>3. PoolTypeOK'
  BY <1>1, <1>2
<1>4. /\ sock[top] = "open" /\ closed[top] /\ ~bad[top]
      /\ \A v \in Users : ~Holds(v, top)
      /\ \A i \in 1..Len(pool') : pool'[i] # top
  BY <1>1, <1>2, SMTT(40) DEF Exclusive, PoolHealthy
<1>5. Exclusive'
  BY <1>1, <1>2, <1>4 DEF Exclusive
<1>6. PoolHealthy' /\ HeldSound'
  <2>1. PoolHealthy'
    BY <1>1, <1>2, SMTT(30) DEF PoolHealthy
  <2>2. ASSUME NEW v \in Users, poolpc'[v] \in Holding, v # u
        PROVE  poolpc'[v] = poolpc[v] /\ conn'[v] = conn[v]
    BY <1>2, <2>2
  <2>3. poolpc'[u] = "check" /\ conn'[u] = top
    BY <1>2
  <2>4. HeldSound'
    BY <1>1, <1>2, <1>4, <2>2, <2>3 DEF HeldSound
  <2>. QED BY <2>1, <2>4
<1>7. FreshUntouched' /\ StampsPast' /\ NoDoubleClose'
  BY <1>2 DEF FreshUntouched, StampsPast, NoDoubleClose
<1>8. NoSocketLost'
  <2>. SUFFICES ASSUME NEW c \in Conns, sock[c] = "open", c \notin Range(pool')
                PROVE  \E v \in Users : Holds(v, c)'
    BY <1>2 DEF NoSocketLost
  <2>1. CASE c = top
    BY <1>2, <2>1
  <2>2. CASE c # top
    <3>1. PICK v \in Users : Holds(v, c)
      BY <1>1, <2>2 DEF NoSocketLost
    <3>2. v # u
      BY <1>2, <3>1
    <3>. QED BY <1>2, <3>1, <3>2
  <2>. QED BY <2>1, <2>2
<1>. QED BY <1>3, <1>5, <1>6, <1>7, <1>8

(* A young connection is marked as lent again. *)
LEMMA ReuseInv == ASSUME PoolInv, NEW u \in Users, Reuse(u) PROVE PoolInv'
<1>. USE DEF PoolInv, Holds, Holding, Goto, Reuse
<1>1. PoolTypeOK'
  BY SMT DEF PoolTypeOK, PoolPcs, HeldSound
<1>2. Exclusive'
  BY SMT DEF PoolTypeOK, PoolPcs, Exclusive, HeldSound, PoolHealthy, NoSocketLost
<1>3. PoolHealthy' /\ HeldSound'
  BY SMT DEF PoolTypeOK, PoolPcs, Exclusive, PoolHealthy, HeldSound, FreshUntouched, StampsPast
<1>4. FreshUntouched' /\ StampsPast' /\ NoDoubleClose'
  BY SMT DEF PoolTypeOK, PoolPcs, HeldSound, FreshUntouched, StampsPast, NoDoubleClose
<1>5. NoSocketLost'
  BY SMT DEF PoolTypeOK, PoolPcs, Exclusive, HeldSound, NoSocketLost
<1>. QED BY <1>1, <1>2, <1>3, <1>4, <1>5

(* An expired connection is shut and has no owner after. *)
LEMMA ExpireInv == ASSUME PoolInv, NEW u \in Users, Expire(u) PROVE PoolInv'
<1>. USE DEF PoolInv, Holds, Holding, Goto, Expire
<1>1. PoolTypeOK'
  BY SMT DEF PoolTypeOK, PoolPcs, HeldSound
<1>2. Exclusive'
  BY SMT DEF PoolTypeOK, PoolPcs, Exclusive, HeldSound, PoolHealthy, NoSocketLost
<1>3. PoolHealthy' /\ HeldSound'
  <2>. DEFINE c == conn[u]
  <2>1. c \in Conns /\ \A i \in 1..Len(pool) : pool[i] # c
    BY DEF Exclusive, HeldSound
  <2>2. PoolHealthy'
    BY <2>1 DEF PoolTypeOK, PoolHealthy
  <2>3. ASSUME NEW v \in Users, poolpc'[v] \in Holding
        PROVE  v # u /\ poolpc'[v] = poolpc[v] /\ conn'[v] = conn[v] /\ conn[v] # c
    BY <2>1, <2>3 DEF PoolTypeOK, Exclusive, HeldSound
  <2>4. HeldSound'
    BY <2>1, <2>3 DEF PoolTypeOK, HeldSound
  <2>. QED BY <2>2, <2>4
<1>4. FreshUntouched' /\ StampsPast' /\ NoDoubleClose'
  BY SMT DEF PoolTypeOK, PoolPcs, HeldSound, FreshUntouched, StampsPast, NoDoubleClose
<1>5. NoSocketLost'
  BY SMT DEF PoolTypeOK, PoolPcs, Exclusive, HeldSound, NoSocketLost
<1>. QED BY <1>1, <1>2, <1>3, <1>4, <1>5

(* A new connection belongs to the user who dialled it. *)
LEMMA DialInv == ASSUME PoolInv, NEW u \in Users, Dial(u) PROVE PoolInv'
<1>. USE DEF PoolInv, Holds, Holding, Goto, Dial
<1>1. PoolTypeOK'
  BY SMT DEF PoolTypeOK, PoolPcs, HeldSound
<1>2. Exclusive'
  BY SMT DEF PoolTypeOK, PoolPcs, Exclusive, HeldSound, PoolHealthy, NoSocketLost
<1>3. PoolHealthy' /\ HeldSound'
  BY SMT DEF PoolTypeOK, PoolPcs, Exclusive, PoolHealthy, HeldSound, FreshUntouched, StampsPast
<1>4. FreshUntouched' /\ StampsPast' /\ NoDoubleClose'
  BY SMT DEF PoolTypeOK, PoolPcs, HeldSound, FreshUntouched, StampsPast, NoDoubleClose
<1>5. NoSocketLost'
  BY SMT DEF PoolTypeOK, PoolPcs, Exclusive, HeldSound, NoSocketLost
<1>. QED BY <1>1, <1>2, <1>3, <1>4, <1>5

(* The hook accepts the new connection. *)
LEMMA HookAcceptsInv == ASSUME PoolInv, NEW u \in Users, HookAccepts(u) PROVE PoolInv'
<1>. USE DEF PoolInv, Holds, Holding, Goto, HookAccepts
<1>1. PoolTypeOK'
  BY SMT DEF PoolTypeOK, PoolPcs, HeldSound
<1>2. Exclusive'
  BY SMT DEF PoolTypeOK, PoolPcs, Exclusive, HeldSound, PoolHealthy, NoSocketLost
<1>3. PoolHealthy' /\ HeldSound'
  BY SMT DEF PoolTypeOK, PoolPcs, Exclusive, PoolHealthy, HeldSound, FreshUntouched, StampsPast
<1>4. FreshUntouched' /\ StampsPast' /\ NoDoubleClose'
  BY SMT DEF PoolTypeOK, PoolPcs, HeldSound, FreshUntouched, StampsPast, NoDoubleClose
<1>5. NoSocketLost'
  BY SMT DEF PoolTypeOK, PoolPcs, Exclusive, HeldSound, NoSocketLost
<1>. QED BY <1>1, <1>2, <1>3, <1>4, <1>5

(* The hook fails and the new socket is shut. *)
LEMMA HookFailsInv == ASSUME PoolInv, NEW u \in Users, HookFails(u) PROVE PoolInv'
<1>. USE DEF PoolInv, Holds, Holding, Goto, HookFails
<1>1. PoolTypeOK'
  BY SMT DEF PoolTypeOK, PoolPcs, HeldSound
<1>2. Exclusive'
  BY SMT DEF PoolTypeOK, PoolPcs, Exclusive, HeldSound, PoolHealthy, NoSocketLost
<1>3. PoolHealthy' /\ HeldSound'
  BY SMT DEF PoolTypeOK, PoolPcs, Exclusive, PoolHealthy, HeldSound, FreshUntouched, StampsPast
<1>4. FreshUntouched' /\ StampsPast' /\ NoDoubleClose'
  BY SMT DEF PoolTypeOK, PoolPcs, HeldSound, FreshUntouched, StampsPast, NoDoubleClose
<1>5. NoSocketLost'
  BY SMT DEF PoolTypeOK, PoolPcs, Exclusive, HeldSound, NoSocketLost
<1>. QED BY <1>1, <1>2, <1>3, <1>4, <1>5

(* Get counts and returns the new connection. *)
LEMMA CountCreatedInv == ASSUME PoolInv, NEW u \in Users, CountCreated(u) PROVE PoolInv'
<1>. USE DEF PoolInv, Holds, Holding, Goto, CountCreated
<1>1. PoolTypeOK'
  BY SMT DEF PoolTypeOK, PoolPcs, HeldSound
<1>2. Exclusive'
  BY SMT DEF PoolTypeOK, PoolPcs, Exclusive, HeldSound, PoolHealthy, NoSocketLost
<1>3. PoolHealthy' /\ HeldSound'
  BY SMT DEF PoolTypeOK, PoolPcs, Exclusive, PoolHealthy, HeldSound, FreshUntouched, StampsPast
<1>4. FreshUntouched' /\ StampsPast' /\ NoDoubleClose'
  BY SMT DEF PoolTypeOK, PoolPcs, HeldSound, FreshUntouched, StampsPast, NoDoubleClose
<1>5. NoSocketLost'
  BY SMT DEF PoolTypeOK, PoolPcs, Exclusive, HeldSound, NoSocketLost
<1>. QED BY <1>1, <1>2, <1>3, <1>4, <1>5

(* Put appends the connection its user no longer holds. *)
LEMMA PushInv == ASSUME PoolInv, NEW u \in Users, Push(u) PROVE PoolInv'
<1>. USE DEF PoolInv, Holds, Holding, Goto, Push
<1>1. PoolTypeOK'
  BY PushFacts, SMT DEF PoolTypeOK, PoolPcs, HeldSound
<1>2. Exclusive'
  BY PushFacts, SMT DEF PoolTypeOK, PoolPcs, Exclusive, HeldSound, PoolHealthy, NoSocketLost
<1>3. PoolHealthy' /\ HeldSound'
  BY PushFacts, SMT DEF PoolTypeOK, PoolPcs, Exclusive, PoolHealthy, HeldSound, FreshUntouched,
    StampsPast
<1>4. FreshUntouched' /\ StampsPast' /\ NoDoubleClose'
  BY SMT DEF PoolTypeOK, PoolPcs, HeldSound, FreshUntouched, StampsPast, NoDoubleClose
<1>5. NoSocketLost'
  BY PushFacts, SMT DEF PoolTypeOK, PoolPcs, Exclusive, HeldSound, NoSocketLost
<1>. QED BY <1>1, <1>2, <1>3, <1>4, <1>5

(* A user sets bad on the connection it holds. *)
LEMMA MarkBadInv ==
  ASSUME PoolInv, NEW u \in Users, poolpc[u] = "has", MarkBad(u, conn[u])
  PROVE  PoolInv'
<1>. USE DEF PoolInv, Holds, Holding, Goto, MarkBad, StampClosed
<1>1. PoolTypeOK'
  BY SMT DEF PoolTypeOK, PoolPcs, HeldSound
<1>2. Exclusive'
  BY SMT DEF PoolTypeOK, PoolPcs, Exclusive, HeldSound, PoolHealthy, NoSocketLost
<1>3. PoolHealthy' /\ HeldSound'
  BY SMT DEF PoolTypeOK, PoolPcs, Exclusive, PoolHealthy, HeldSound, FreshUntouched, StampsPast
<1>4. FreshUntouched' /\ StampsPast' /\ NoDoubleClose'
  BY SMT DEF PoolTypeOK, PoolPcs, HeldSound, FreshUntouched, StampsPast, NoDoubleClose
<1>5. NoSocketLost'
  BY SMT DEF PoolTypeOK, PoolPcs, Exclusive, HeldSound, NoSocketLost
<1>. QED BY <1>1, <1>2, <1>3, <1>4, <1>5

(* Put shuts a bad connection. *)
LEMMA PutBadInv ==
  ASSUME PoolInv, NEW u \in Users, poolpc[u] = "has", PutBad(u, conn[u])
  PROVE  PoolInv'
<1>. USE DEF PoolInv, Holds, Holding, Goto, PutBad, StampClosed
<1>1. PoolTypeOK'
  BY SMT DEF PoolTypeOK, PoolPcs, HeldSound
<1>2. Exclusive'
  BY SMT DEF PoolTypeOK, PoolPcs, Exclusive, HeldSound, PoolHealthy, NoSocketLost
<1>3. PoolHealthy' /\ HeldSound'
  BY SMT DEF PoolTypeOK, PoolPcs, Exclusive, PoolHealthy, HeldSound, FreshUntouched, StampsPast
<1>4. FreshUntouched' /\ StampsPast' /\ NoDoubleClose'
  BY SMT DEF PoolTypeOK, PoolPcs, HeldSound, FreshUntouched, StampsPast, NoDoubleClose
<1>5. NoSocketLost'
  BY SMT DEF PoolTypeOK, PoolPcs, Exclusive, HeldSound, NoSocketLost
<1>. QED BY <1>1, <1>2, <1>3, <1>4, <1>5

(* Put stamps a good connection, which stays with its user until it is pushed. *)
LEMMA PutGoodInv ==
  ASSUME PoolInv, NEW u \in Users, poolpc[u] = "has", PutGood(u, conn[u])
  PROVE  PoolInv'
<1>. USE DEF PoolInv, Holds, Holding, Goto, PutGood, StampClosed
<1>1. PoolTypeOK'
  BY SMT DEF PoolTypeOK, PoolPcs, HeldSound
<1>2. Exclusive'
  BY SMT DEF PoolTypeOK, PoolPcs, Exclusive, HeldSound, PoolHealthy, NoSocketLost
<1>3. PoolHealthy' /\ HeldSound'
  BY SMT DEF PoolTypeOK, PoolPcs, Exclusive, PoolHealthy, HeldSound, FreshUntouched, StampsPast
<1>4. FreshUntouched' /\ StampsPast' /\ NoDoubleClose'
  BY SMT DEF PoolTypeOK, PoolPcs, HeldSound, FreshUntouched, StampsPast, NoDoubleClose
<1>5. NoSocketLost'
  BY SMT DEF PoolTypeOK, PoolPcs, Exclusive, HeldSound, NoSocketLost
<1>. QED BY <1>1, <1>2, <1>3, <1>4, <1>5

(* Time passes. *)
LEMMA TickInv == ASSUME PoolInv, Tick PROVE PoolInv'
  BY DEF PoolInv, PoolTypeOK, PoolPcs, Exclusive, PoolHealthy, HeldSound,
    FreshUntouched, StampsPast, NoSocketLost, NoDoubleClose, Holds, Holding, Tick

(* Every step of the pool's users keeps the invariant. *)
LEMMA PoolStepInv == PoolInv /\ [PoolNext]_poolVars => PoolInv'
<1>. SUFFICES ASSUME PoolInv, [PoolNext]_poolVars PROVE PoolInv'
  OBVIOUS
<1>1. CASE UNCHANGED poolVars
  BY <1>1 DEF poolVars, PoolInv, PoolTypeOK, Exclusive, PoolHealthy, HeldSound,
    FreshUntouched, StampsPast, NoSocketLost, NoDoubleClose, Holds
<1>2. CASE Tick
  BY <1>2, TickInv
<1>3. ASSUME NEW u \in Users, GetCall(u) PROVE PoolInv'
  BY <1>3, GetCallInv
<1>4. ASSUME NEW u \in Users, GetStep(u) PROVE PoolInv'
  BY <1>4, RawGetHitInv, RawGetMissInv, ExpireInv, DialInv, HookAcceptsInv DEF GetStep
<1>5. ASSUME NEW u \in Users, GetReturns(u) PROVE PoolInv'
  BY <1>5, ReuseInv, CountCreatedInv DEF GetReturns
<1>6. ASSUME NEW u \in Users, GetFails(u) PROVE PoolInv'
  BY <1>6, DialFailsInv, HookFailsInv DEF GetFails
<1>7. ASSUME NEW u \in Users, UseStep(u) PROVE PoolInv'
  BY <1>7, MarkBadInv, PutBadInv, PutGoodInv DEF UseStep, Put
<1>8. ASSUME NEW u \in Users, Push(u) PROVE PoolInv'
  BY <1>8, PushInv
<1>. QED BY <1>1, <1>2, <1>3, <1>4, <1>5, <1>6, <1>7, <1>8 DEF PoolNext

(* Get and Put keep the invariant for any number of users and connections. *)
THEOREM PoolInvariant == PoolSpec => []PoolInv
  BY PoolInitInv, PoolStepInv, PTL DEF PoolSpec

(* Every variable of the pool keeps its type. *)
THEOREM PoolTypeCorrect == PoolSpec => []PoolTypeOK
  BY PoolInvariant, PTL DEF PoolInv

(* A connection that Get hands out, or the pool keeps, has one referent. *)
THEOREM PoolExclusive == PoolSpec => []Exclusive
  BY PoolInvariant, PTL DEF PoolInv

(* No caller that returns what Get gave it once meets the panic of Put. *)
THEOREM PoolNeverPanics == PoolSpec => []NoDoubleClose
  BY PoolInvariant, PTL DEF PoolInv

(* What rawGet may pop is open, stamped, and was found good by its last user. *)
THEOREM PoolStaysHealthy == PoolSpec => []PoolHealthy
  BY PoolInvariant, PTL DEF PoolInv

(* No path of Get or Put drops an open socket. *)
THEOREM PoolLosesNoSocket == PoolSpec => []NoSocketLost
  BY PoolInvariant, PTL DEF PoolInv

-----------------------------------------------------------------------------
(* The bound on sockets.  It is kept by every step but one for want of a   *)
(* new socket or a new dialler; the miss of rawGet adds a dialler, at a     *)
(* moment when the stack is empty and each open socket has its own user.   *)
Bounded == IsFiniteSet(OpenSockets) /\ SocketBound

(* With an empty stack the open sockets inject into the users that hold one. *)
LEMMA OpenSocketsHeld ==
  ASSUME PoolInv, Len(pool) = 0
  PROVE  LET H == {v \in Users : poolpc[v] \in Holding}
         IN  IsFiniteSet(OpenSockets) /\ Cardinality(OpenSockets) <= Cardinality(H)
<1>. DEFINE H == {v \in Users : poolpc[v] \in Holding}
            f == [c \in OpenSockets |-> CHOOSE v \in Users : Holds(v, c)]
<1>1. IsFiniteSet(H)
  BY PoolAssumption, FS_Subset
<1>2. \A c \in OpenSockets : \E v \in Users : Holds(v, c)
  <2>1. Range(pool) = {}
    BY DEF PoolInv, PoolTypeOK, Range
  <2>. QED BY <2>1 DEF PoolInv, NoSocketLost, OpenSockets
<1>3. \A c \in OpenSockets : f[c] \in Users /\ Holds(f[c], c)
  BY <1>2
<1>4. f \in [OpenSockets -> H]
  BY <1>3 DEF Holds
<1>5. \A c, d \in OpenSockets : f[c] = f[d] => c = d
  BY <1>3 DEF Holds
<1>6. f \in Injection(OpenSockets, H)
  BY <1>4, <1>5 DEF Injection, IsInjective
<1>. QED BY <1>1, <1>6, FS_Injection

(* A step that opens no socket and starts no dial keeps the bound. *)
LEMMA ShrinkBounded ==
  ASSUME Bounded, OpenSockets' \subseteq OpenSockets, Dialling' \subseteq Dialling
  PROVE  Bounded'
<1>1. IsFiniteSet(Dialling)
  BY PoolAssumption, FS_Subset DEF Dialling
<1>2. /\ IsFiniteSet(OpenSockets')
      /\ Cardinality(OpenSockets') <= Cardinality(OpenSockets)
      /\ Cardinality(Dialling') <= Cardinality(Dialling)
      /\ IsFiniteSet(Dialling')
  BY <1>1, FS_Subset DEF Bounded
<1>3. /\ Cardinality(OpenSockets') \in Nat /\ Cardinality(OpenSockets) \in Nat
      /\ Cardinality(Dialling') \in Nat /\ Cardinality(Dialling) \in Nat
      /\ Cardinality(Users) \in Nat
  BY <1>1, <1>2, PoolAssumption, FS_CardinalityType DEF Bounded
<1>. QED BY <1>2, <1>3 DEF Bounded, SocketBound

(* The miss of rawGet: the stack is empty, so a further dial is within the bound. *)
LEMMA MissBounded ==
  ASSUME PoolInv, NEW u \in Users, RawGetMiss(u) PROVE Bounded'
<1>. DEFINE H == {v \in Users : poolpc[v] \in Holding}
<1>1. IsFiniteSet(OpenSockets) /\ Cardinality(OpenSockets) <= Cardinality(H)
  BY OpenSocketsHeld DEF RawGetMiss
<1>2. OpenSockets' = OpenSockets /\ Dialling' = Dialling \cup {u}
  BY DEF RawGetMiss, Goto, OpenSockets, Dialling, PoolInv, PoolTypeOK
<1>3. Dialling' \in SUBSET Users /\ H \in SUBSET Users /\ H \cap Dialling' = {}
  BY <1>2 DEF RawGetMiss, Dialling, Holding
<1>4. IsFiniteSet(H) /\ IsFiniteSet(Dialling') /\ IsFiniteSet(H \cup Dialling')
  BY <1>3, PoolAssumption, FS_Subset
<1>5. Cardinality(H) + Cardinality(Dialling') <= Cardinality(Users)
  <2>1. Cardinality(H \cup Dialling') =
          Cardinality(H) + Cardinality(Dialling') - Cardinality(H \cap Dialling')
    BY <1>4, FS_Union
  <2>2. Cardinality(H \cap Dialling') = 0
    BY <1>3, FS_EmptySet
  <2>3. H \cup Dialling' \in SUBSET Users
    BY <1>3
  <2>4. Cardinality(H \cup Dialling') <= Cardinality(Users)
    BY <2>3, PoolAssumption, FS_Subset
  <2>5. Cardinality(H) \in Nat /\ Cardinality(Dialling') \in Nat
    BY <1>4, FS_CardinalityType
  <2>. QED BY <2>1, <2>2, <2>4, <2>5
<1>6. /\ Cardinality(OpenSockets) \in Nat /\ Cardinality(H) \in Nat
      /\ Cardinality(Dialling') \in Nat /\ Cardinality(Users) \in Nat
  BY <1>1, <1>4, PoolAssumption, FS_CardinalityType
<1>7. Cardinality(OpenSockets') <= Cardinality(H)
  BY <1>1, <1>2
<1>. HIDE DEF H
<1>. QED BY <1>1, <1>2, <1>5, <1>6, <1>7 DEF Bounded, SocketBound

(* A dial that succeeds trades a dialler for a socket. *)
LEMMA DialBounded ==
  ASSUME PoolInv, Bounded, NEW u \in Users, Dial(u) PROVE Bounded'
<1>1. PICK c \in Conns : sock[c] = "none" /\ sock' = [sock EXCEPT ![c] = "open"]
                          /\ Goto(u, "hook", c)
  BY ZenonT(20) DEF Dial
<1>2. u \in Dialling /\ c \notin OpenSockets
  BY <1>1 DEF Dial, Dialling, OpenSockets
<1>3. OpenSockets' = OpenSockets \cup {c} /\ Dialling' = Dialling \ {u}
  BY <1>1 DEF Goto, OpenSockets, Dialling, PoolInv, PoolTypeOK
<1>4. IsFiniteSet(Dialling)
  BY PoolAssumption, FS_Subset DEF Dialling
<1>5. /\ IsFiniteSet(OpenSockets')
      /\ Cardinality(OpenSockets') = Cardinality(OpenSockets) + 1
  BY <1>2, <1>3, FS_AddElement DEF Bounded
<1>6. Cardinality(Dialling') = Cardinality(Dialling) - 1
  BY <1>2, <1>3, <1>4, FS_RemoveElement, ZenonT(20)
<1>7. /\ Cardinality(OpenSockets) \in Nat /\ Cardinality(Dialling) \in Nat
      /\ Cardinality(Users) \in Nat
  BY <1>4, PoolAssumption, FS_CardinalityType DEF Bounded
<1>. QED BY <1>5, <1>6, <1>7 DEF Bounded, SocketBound

(* The sockets open or being opened never outnumber the callers. *)
THEOREM PoolSocketBound == PoolSpec => []SocketBound
<1>1. PoolInit => Bounded
  <2>. SUFFICES ASSUME PoolInit PROVE Bounded
    OBVIOUS
  <2>1. OpenSockets = {} /\ Dialling = {}
    BY DEF PoolInit, OpenSockets, Dialling
  <2>2. Cardinality(Users) \in Nat
    BY PoolAssumption, FS_CardinalityType
  <2>. QED BY <2>1, <2>2, FS_EmptySet DEF Bounded, SocketBound
<1>2. PoolInv /\ Bounded /\ [PoolNext]_poolVars => Bounded'
  <2>. SUFFICES ASSUME PoolInv, Bounded, [PoolNext]_poolVars PROVE Bounded'
    OBVIOUS
  <2>1. CASE UNCHANGED poolVars
    BY <2>1, ShrinkBounded DEF poolVars, OpenSockets, Dialling
  <2>2. CASE Tick
    BY <2>2, ShrinkBounded DEF Tick, OpenSockets, Dialling
  <2>3. ASSUME NEW u \in Users, RawGetMiss(u) PROVE Bounded'
    BY <2>3, MissBounded
  <2>4. ASSUME NEW u \in Users, Dial(u) PROVE Bounded'
    BY <2>4, DialBounded
  <2>5. ASSUME NEW u \in Users,
               \/ GetCall(u) \/ RawGetHit(u) \/ Expire(u) \/ HookAccepts(u)
               \/ GetReturns(u) \/ GetFails(u) \/ UseStep(u) \/ Push(u)
        PROVE  OpenSockets' \subseteq OpenSockets /\ Dialling' \subseteq Dialling
    BY <2>5 DEF GetCall, RawGetHit, Expire, HookAccepts, GetReturns, Reuse,
      CountCreated, GetFails, DialFails, HookFails, UseStep, MarkBad, Put, PutBad,
      PutGood, Push, Goto, OpenSockets, Dialling, PoolInv, PoolTypeOK, HeldSound, Holding
  <2>. QED BY <2>1, <2>2, <2>3, <2>4, <2>5, ShrinkBounded DEF PoolNext, GetStep
<1>3. Bounded => SocketBound
  BY DEF Bounded
<1>. QED BY <1>1, <1>2, <1>3, PoolInvariant, PTL DEF PoolSpec

-----------------------------------------------------------------------------
(* What totalCreated counts. *)
Counted == IsFiniteSet(HandedOut) /\ CreatedCounted

(* The connection of the atomic increment has not been handed out before. *)
LEMMA CreatedOnce ==
  ASSUME PoolInv, Counted, NEW u \in Users, CountCreated(u) PROVE Counted'
<1>1. PICK c \in Conns : c = conn[u] /\ ~closed[c]
  BY ZenonT(20) DEF CountCreated, PoolInv, HeldSound, Holding
<1>2. c \notin HandedOut
  <2>1. \A v \in Users : ~(poolpc[v] = "has" /\ conn[v] = c)
    BY <1>1 DEF CountCreated, PoolInv, Exclusive, Holds, Holding
  <2>. QED BY <1>1, <2>1 DEF HandedOut
<1>3. HandedOut' = HandedOut \cup {c}
  BY <1>1 DEF CountCreated, Goto, HandedOut, PoolInv, PoolTypeOK
<1>4. IsFiniteSet(HandedOut') /\ Cardinality(HandedOut') = Cardinality(HandedOut) + 1
  BY <1>2, <1>3, FS_AddElement DEF Counted
<1>5. totalCreated' = totalCreated + 1
  BY DEF CountCreated
<1>. QED BY <1>4, <1>5, ZenonT(20) DEF Counted, CreatedCounted

(* A connection that Get lends again, or Put takes back, stays one that has  *)
(* been handed out; one that is expired, or that the hook refuses, stays     *)
(* what it was.                                                              *)
LEMMA HandedOutSame ==
  ASSUME PoolInv, NEW u \in Users,
         \/ GetCall(u) \/ GetStep(u) \/ Reuse(u) \/ GetFails(u) \/ UseStep(u) \/ Push(u)
  PROVE  HandedOut' = HandedOut /\ UNCHANGED totalCreated
<1>1. UNCHANGED totalCreated
  BY ZenonT(20) DEF GetCall, GetStep, RawGetHit, RawGetMiss, Expire, Dial, HookAccepts, Reuse,
    GetFails, DialFails, HookFails, UseStep, MarkBad, Put, PutBad, PutGood, Push
<1>2. CASE UseStep(u) \/ Reuse(u)
  <2>1. PICK c \in Conns : c = conn[u]
    BY <1>2, ZenonT(20) DEF UseStep, Reuse, PoolInv, HeldSound, Holding
  <2>2. c \in HandedOut /\ c \in HandedOut'
    BY <1>2, <2>1 DEF UseStep, Reuse, MarkBad, Put, PutBad, PutGood, StampClosed, Goto,
      HandedOut, PoolInv, PoolTypeOK, HeldSound, Holding
  <2>3. ASSUME NEW d \in Conns \ {c} PROVE d \in HandedOut <=> d \in HandedOut'
    <3>1. /\ closed'[d] = closed[d]
          /\ \A v \in Users : poolpc'[v] = "has" /\ conn'[v] = d
                             <=> poolpc[v] = "has" /\ conn[v] = d
      BY <1>2, <2>1, PoolAssumption DEF UseStep, Reuse, MarkBad, Put, PutBad, PutGood,
        StampClosed, Goto, PoolInv, PoolTypeOK
    <3>. QED BY <3>1 DEF HandedOut
  <2>4. HandedOut \subseteq Conns /\ HandedOut' \subseteq Conns
    BY DEF HandedOut
  <2>. QED BY <1>1, <2>2, <2>3, <2>4
<1>3. CASE GetCall(u) \/ GetStep(u) \/ GetFails(u) \/ Push(u)
  <2>1. UNCHANGED closed /\ \E p \in PoolPcs \ {"has"} : \E c : Goto(u, p, c)
    BY <1>3, ZenonT(20) DEF GetCall, GetStep, RawGetHit, RawGetMiss, Expire, Dial, HookAccepts,
      GetFails, DialFails, HookFails, Push, PoolPcs
  <2>2. poolpc[u] # "has"
    BY <1>3, ZenonT(20) DEF GetCall, GetStep, RawGetHit, RawGetMiss, Expire, Dial, HookAccepts,
      GetFails, DialFails, HookFails, Push
  <2>3. \A v \in Users, c \in Conns : poolpc'[v] = "has" /\ conn'[v] = c
                                  <=> poolpc[v] = "has" /\ conn[v] = c
    BY <2>1, <2>2 DEF Goto, PoolInv, PoolTypeOK
  <2>. QED BY <1>1, <2>1, <2>3 DEF HandedOut
<1>. QED BY <1>2, <1>3

(* totalCreated is the number of connections that Get created and returned, *)
(* however the calls of the goroutines interleave.                          *)
THEOREM PoolCountsCreated == PoolSpec => []CreatedCounted
<1>1. PoolInit => Counted
  <2>1. PoolInit => HandedOut = {} /\ totalCreated = 0
    BY DEF PoolInit, HandedOut
  <2>. QED BY <2>1, FS_EmptySet DEF Counted, CreatedCounted
<1>2. PoolInv /\ Counted /\ [PoolNext]_poolVars => Counted'
  <2>. SUFFICES ASSUME PoolInv, Counted, [PoolNext]_poolVars PROVE Counted'
    OBVIOUS
  <2>1. CASE UNCHANGED poolVars \/ Tick
    BY <2>1 DEF poolVars, Tick, Counted, CreatedCounted, HandedOut
  <2>2. ASSUME NEW u \in Users, CountCreated(u) PROVE Counted'
    BY <2>2, CreatedOnce
  <2>3. ASSUME NEW u \in Users,
               \/ GetCall(u) \/ GetStep(u) \/ Reuse(u) \/ GetFails(u) \/ UseStep(u) \/ Push(u)
        PROVE  Counted'
    <3>1. HandedOut' = HandedOut /\ totalCreated' = totalCreated
      BY <2>3, HandedOutSame
    <3>. QED BY <3>1, ZenonT(20) DEF Counted, CreatedCounted
  <2>. QED BY <2>1, <2>2, <2>3, ZenonT(20) DEF PoolNext, GetReturns
<1>3. Counted => CreatedCounted
  BY DEF Counted
<1>. QED BY <1>1, <1>2, <1>3, PoolInvariant, PTL DEF PoolSpec

-----------------------------------------------------------------------------
(* Get and Put implement the lease.  First, the owner of a connection as    *)
(* the lease sees it, in a state and in its successor.                      *)
LEMMA OwnerHeld ==
  ASSUME PoolInv, NEW c \in Conns, NEW u \in Users, Holds(u, c)
  PROVE  ownerOf(c) = <<"user", u>>
<1>1. \A v \in Users : Holds(v, c) => v = u
  BY DEF PoolInv, Exclusive
<1>2. (CHOOSE v \in Users : Holds(v, c)) = u
  BY <1>1
<1>. QED BY <1>2, ZenonT(20) DEF ownerOf

(* After a step, a connection that a user holds is leased to that user. *)
LEMMA OwnerHeldAfter ==
  ASSUME PoolInv', NEW c \in Conns, NEW u \in Users, Holds(u, c)'
  PROVE  ownerOf(c)' = <<"user", u>>
<1>1. \A v \in Users : Holds(v, c)' => v = u
  BY DEF PoolInv, Exclusive
<1>2. (CHOOSE v \in Users : Holds(v, c)') = u
  BY <1>1
<1>. QED BY <1>2, ZenonT(20) DEF ownerOf

(* The owner does not change while holder, place and dialling stay. *)
LEMMA OwnerSame ==
  ASSUME PoolInv, PoolInv', NEW c \in Conns,
         \A v \in Users : Holds(v, c)' <=> Holds(v, c),
         c \in Range(pool') <=> c \in Range(pool),
         sock'[c] = "none" <=> sock[c] = "none"
  PROVE  ownerOf(c)' = ownerOf(c)
<1>1. CASE \E v \in Users : Holds(v, c)
  <2>1. PICK v \in Users : Holds(v, c)
    BY <1>1
  <2>. QED BY <2>1, OwnerHeld, OwnerHeldAfter
<1>2. CASE ~\E v \in Users : Holds(v, c)
  BY <1>2 DEF ownerOf
<1>. QED BY <1>1, <1>2

(* A user that holds no connection owns none. *)
LEMMA OwnsNoneOutside ==
  ASSUME PoolInv, NEW u \in Users, poolpc[u] \notin Holding
  PROVE  Lease!OwnsNone(u)
<1>. SUFFICES ASSUME NEW c \in Conns PROVE ownerOf(c) # <<"user", u>>
  BY DEF Lease!OwnsNone, Lease!LeasedTo
<1>1. CASE \E v \in Users : Holds(v, c)
  <2>1. PICK v \in Users : Holds(v, c)
    BY <1>1
  <2>. QED BY <2>1, OwnerHeld DEF Holds
<1>2. CASE ~\E v \in Users : Holds(v, c)
  <2>1. ownerOf(c) \in {<<"idle">>, <<"fresh">>, <<"retired">>}
    BY <1>2 DEF ownerOf
  <2>. QED BY <2>1
<1>. QED BY <1>1, <1>2

(* A step of user u that keeps stack and sockets keeps every owner when u    *)
(* holds the same connection, or none, before and after.                    *)
LEMMA OwnersSame ==
  ASSUME PoolInv, PoolInv', UNCHANGED <<pool, sock>>, NEW u \in Users,
         \A v \in Users \ {u} : poolpc'[v] = poolpc[v] /\ conn'[v] = conn[v],
         \A c \in Conns : Holds(u, c)' <=> Holds(u, c)
  PROVE  UNCHANGED [c \in Conns |-> ownerOf(c)]
<1>1. \A c \in Conns, v \in Users : Holds(v, c)' <=> Holds(v, c)
  BY DEF Holds
<1>2. \A c \in Conns : ownerOf(c)' = ownerOf(c)
  BY <1>1, OwnerSame
<1>. QED BY <1>2

(* A step of user u that concerns connection d only. *)
LEMMA OneOwnerChanges ==
  ASSUME PoolInv, PoolInv', NEW u \in Users, NEW d \in Conns,
         \A v \in Users \ {u} : poolpc'[v] = poolpc[v] /\ conn'[v] = conn[v],
         \A c \in Conns \ {d} :
           /\ ~Holds(u, c) /\ ~Holds(u, c)'
           /\ c \in Range(pool') <=> c \in Range(pool)
           /\ sock'[c] = sock[c]
  PROVE  [c \in Conns |-> ownerOf(c)]'
           = [[c \in Conns |-> ownerOf(c)] EXCEPT ![d] = ownerOf(d)']
<1>1. ASSUME NEW c \in Conns \ {d} PROVE ownerOf(c)' = ownerOf(c)
  <2>1. \A v \in Users : Holds(v, c)' <=> Holds(v, c)
    BY DEF Holds
  <2>. QED BY <2>1, OwnerSame
<1>. QED BY <1>1, ZenonT(20)

(* The connection a user gave up is nobody's, and retired if not pooled. *)
LEMMA OwnerLetGo ==
  ASSUME PoolInv, PoolInv', NEW u \in Users, NEW d \in Conns, Holds(u, d),
         \A v \in Users \ {u} : poolpc'[v] = poolpc[v] /\ conn'[v] = conn[v],
         poolpc'[u] \notin Holding, sock'[d] # "none"
  PROVE  ownerOf(d)' = IF d \in Range(pool') THEN <<"idle">> ELSE <<"retired">>
<1>1. \A v \in Users : ~Holds(v, d)'
  BY DEF Holds, PoolInv, Exclusive
<1>. QED BY <1>1 DEF ownerOf

(* The pop of rawGet lends the connection on top of the stack. *)
LEMMA RawGetHitLends ==
  ASSUME PoolInv, PoolInv', NEW u \in Users, RawGetHit(u)
  PROVE  \E c \in Conns : Lease!OwnsNone(u) /\ Lease!Lend(u, c)
<1>1. PICK d \in Conns : /\ d = pool[Len(pool)]
                        /\ Range(pool) = Range(pool') \cup {d}
  <2>1. pool \in Seq(Conns) /\ Len(pool) > 0 /\ pool' = Popped(pool)
    BY DEF PoolInv, PoolTypeOK, RawGetHit, Popped
  <2>. QED BY <2>1, PopFacts
<1>2. Len(pool) \in 1..Len(pool)
  BY DEF PoolInv, PoolTypeOK, RawGetHit
<1>3. /\ poolpc[u] = "rawGet" /\ poolpc'[u] = "check" /\ conn'[u] = d
      /\ \A v \in Users \ {u} : poolpc'[v] = poolpc[v] /\ conn'[v] = conn[v]
      /\ UNCHANGED sock
  BY <1>1 DEF RawGetHit, Goto, PoolInv, PoolTypeOK
<1>4. [c \in Conns |-> ownerOf(c)]'
        = [[c \in Conns |-> ownerOf(c)] EXCEPT ![d] = ownerOf(d)']
  <2>1. \A c \in Conns \ {d} :
           /\ ~Holds(u, c) /\ ~Holds(u, c)'
           /\ c \in Range(pool') <=> c \in Range(pool)
           /\ sock'[c] = sock[c]
    BY <1>1, <1>3 DEF Holds, Holding
  <2>. QED BY <1>1, <1>3, <2>1, OneOwnerChanges
<1>5. ownerOf(d)' = <<"user", u>>
  <2>1. Holds(u, d)'
    BY <1>3 DEF Holds, Holding
  <2>. QED BY <1>1, <2>1, OwnerHeldAfter
<1>6. ownerOf(d) = <<"idle">>
  BY <1>1, <1>2 DEF ownerOf, PoolInv, Exclusive
<1>7. Lease!OwnsNone(u)
  BY <1>3, OwnsNoneOutside DEF Holding
<1>. QED BY <1>1, <1>4, <1>5, <1>6, <1>7, ZenonT(20) DEF Lease!Lend, Lease!Idle, Lease!LeasedTo

(* A dial opens a connection. *)
LEMMA DialOpens ==
  ASSUME PoolInv, PoolInv', NEW u \in Users, Dial(u)
  PROVE  \E c \in Conns : Lease!OwnsNone(u) /\ Lease!Open(u, c)
<1>1. PICK d \in Conns : sock[d] = "none" /\ sock' = [sock EXCEPT ![d] = "open"]
                          /\ Goto(u, "hook", d)
  BY ZenonT(20) DEF Dial
<1>2. /\ poolpc[u] = "dial" /\ poolpc'[u] = "hook" /\ conn'[u] = d
      /\ \A v \in Users \ {u} : poolpc'[v] = poolpc[v] /\ conn'[v] = conn[v]
      /\ UNCHANGED pool
      /\ \A c \in Conns \ {d} : sock'[c] = sock[c]
  BY <1>1, SMTT(30) DEF Dial, Goto, PoolInv, PoolTypeOK
<1>3. [c \in Conns |-> ownerOf(c)]'
        = [[c \in Conns |-> ownerOf(c)] EXCEPT ![d] = ownerOf(d)']
  BY <1>2, OneOwnerChanges DEF Holds, Holding
<1>4. ownerOf(d)' = <<"user", u>>
  BY <1>2, OwnerHeldAfter DEF Holds, Holding
<1>5. ownerOf(d) = <<"fresh">>
  <2>1. \A v \in Users : ~Holds(v, d)
    BY <1>1 DEF PoolInv, HeldSound, Holds
  <2>2. d \notin Range(pool)
    <3>1. \A i \in 1..Len(pool) : pool[i] # d
      BY <1>1 DEF PoolInv, PoolHealthy
    <3>2. d \in Range(pool) <=> \E i \in 1..Len(pool) : d = pool[i]
      BY MemberFacts DEF PoolInv, PoolTypeOK
    <3>. QED BY <3>1, <3>2
  <2>. QED BY <1>1, <2>1, <2>2 DEF ownerOf
<1>6. Lease!OwnsNone(u)
  BY <1>2, OwnsNoneOutside DEF Holding
<1>. QED BY <1>3, <1>4, <1>5, <1>6, ZenonT(20) DEF Lease!Open, Lease!Fresh, Lease!LeasedTo

(* The socket of a connection that u holds is closed and u lets it go: the   *)
(* expiry of Get, a failing hook, a bad connection in Put.                  *)
LEMMA LetGoRetires ==
  ASSUME PoolInv, PoolInv', NEW u \in Users, NEW d \in Conns, Holds(u, d),
         sock' = [sock EXCEPT ![d] = "shut"], UNCHANGED pool,
         NEW p \in PoolPcs \ Holding, Goto(u, p, NoConn)
  PROVE  Lease!Retire(u, d)
<1>1. /\ poolpc'[u] \notin Holding
      /\ \A v \in Users \ {u} : poolpc'[v] = poolpc[v] /\ conn'[v] = conn[v]
      /\ sock'[d] = "shut" /\ \A c \in Conns \ {d} : sock'[c] = sock[c]
  BY DEF Goto, PoolInv, PoolTypeOK
<1>2. [c \in Conns |-> ownerOf(c)]'
        = [[c \in Conns |-> ownerOf(c)] EXCEPT ![d] = ownerOf(d)']
  <2>1. \A c \in Conns \ {d} :
           /\ ~Holds(u, c) /\ ~Holds(u, c)'
           /\ c \in Range(pool') <=> c \in Range(pool)
           /\ sock'[c] = sock[c]
    BY <1>1 DEF Holds
  <2>. QED BY <1>1, <2>1, OneOwnerChanges, ZenonT(20)
<1>3. d \notin Range(pool')
  <2>1. \A i \in 1..Len(pool) : pool[i] # d
    BY DEF PoolInv, Exclusive
  <2>2. d \in Range(pool) <=> \E i \in 1..Len(pool) : d = pool[i]
    BY MemberFacts, ZenonT(20) DEF PoolInv, PoolTypeOK
  <2>. QED BY <2>1, <2>2
<1>4. ownerOf(d)' = <<"retired">>
  BY <1>1, <1>3, OwnerLetGo
<1>5. ownerOf(d) = <<"user", u>>
  BY OwnerHeld
<1>. QED BY <1>2, <1>4, <1>5 DEF Lease!Retire, Lease!Retired, Lease!LeasedTo

(* The append of Put returns the connection to the stock. *)
LEMMA PushReturns ==
  ASSUME PoolInv, PoolInv', NEW u \in Users, Push(u)
  PROVE  \E c \in Conns : Lease!Return(u, c)
<1>1. PICK d \in Conns : d = conn[u]
  BY ZenonT(20) DEF Push, PoolInv, HeldSound, Holding
<1>2. /\ Holds(u, d) /\ poolpc'[u] \notin Holding /\ UNCHANGED sock
      /\ \A v \in Users \ {u} : poolpc'[v] = poolpc[v] /\ conn'[v] = conn[v]
  BY <1>1 DEF Push, Goto, PoolInv, PoolTypeOK, Holds, Holding
<1>3. Range(pool') = Range(pool) \cup {d}
  <2>1. pool \in Seq(Conns) /\ pool' = Append(pool, d)
    BY <1>1 DEF Push, PoolInv, PoolTypeOK
  <2>2. ASSUME NEW e
        PROVE  e \in Range(pool') <=> \E i \in 1..(Len(pool) + 1) : e = pool'[i]
    <3>1. pool' \in Seq(Conns) /\ Len(pool') = Len(pool) + 1
      BY <2>1, PushFacts
    <3>2. \A x : x \in Range(pool') <=> \E i \in 1..Len(pool') : x = pool'[i]
      BY <3>1, MemberFacts
    <3>. QED BY <3>1, <3>2
  <2>3. ASSUME NEW e PROVE e \in Range(pool) <=> \E i \in 1..Len(pool) : e = pool[i]
    BY <2>1, MemberFacts
  <2>4. /\ \A i \in 1..Len(pool) : pool'[i] = pool[i]
        /\ pool'[Len(pool) + 1] = d
        /\ Len(pool) \in Nat
    BY <2>1, PushFacts
  <2>5. ASSUME NEW e PROVE e \in Range(pool') <=> e \in Range(pool) \/ e = d
    BY <2>2, <2>3, <2>4
  <2>. QED BY <2>5
<1>4. [c \in Conns |-> ownerOf(c)]'
        = [[c \in Conns |-> ownerOf(c)] EXCEPT ![d] = ownerOf(d)']
  <2>1. \A c \in Conns \ {d} :
           /\ ~Holds(u, c) /\ ~Holds(u, c)'
           /\ c \in Range(pool') <=> c \in Range(pool)
           /\ sock'[c] = sock[c]
    BY <1>2, <1>3 DEF Holds
  <2>. QED BY <1>2, <2>1, OneOwnerChanges
<1>5. sock'[d] # "none"
  BY <1>2 DEF PoolInv, HeldSound, Holds
<1>6. ownerOf(d)' = <<"idle">>
  BY <1>2, <1>3, <1>5, OwnerLetGo
<1>7. ownerOf(d) = <<"user", u>>
  BY <1>2, OwnerHeld
<1>. QED BY <1>4, <1>6, <1>7, ZenonT(20) DEF Lease!Return, Lease!Idle, Lease!LeasedTo

(* Every step of the pool is a step of the lease or changes no owner. *)
LEMMA LeaseSimulation ==
  PoolInv /\ PoolInv' /\ [PoolNext]_poolVars
    => [Lease!Next]_([c \in Conns |-> ownerOf(c)])
<1>. SUFFICES ASSUME PoolInv, PoolInv', [PoolNext]_poolVars
              PROVE  Lease!Next \/ UNCHANGED [c \in Conns |-> ownerOf(c)]
  OBVIOUS
<1>1. CASE UNCHANGED poolVars \/ Tick
  <2>1. UNCHANGED <<pool, sock, poolpc, conn>>
    BY <1>1 DEF poolVars, Tick
  <2>2. \A c \in Conns : ownerOf(c)' = ownerOf(c)
    BY <2>1, OwnerSame DEF Holds
  <2>. QED BY <2>2
<1>2. ASSUME NEW u \in Users,
             \/ GetCall(u) \/ RawGetMiss(u) \/ HookAccepts(u) \/ Reuse(u)
             \/ CountCreated(u) \/ DialFails(u)
             \/ poolpc[u] = "has" /\ (MarkBad(u, conn[u]) \/ PutGood(u, conn[u]))
      PROVE  UNCHANGED [c \in Conns |-> ownerOf(c)]
  <2>1. /\ UNCHANGED <<pool, sock>>
        /\ \A v \in Users \ {u} : poolpc'[v] = poolpc[v] /\ conn'[v] = conn[v]
        /\ \A c \in Conns : Holds(u, c)' <=> Holds(u, c)
    BY <1>2 DEF GetCall, RawGetMiss, HookAccepts, Reuse, CountCreated, DialFails,
      MarkBad, PutGood, StampClosed, Goto, Holds, Holding, PoolInv, PoolTypeOK
  <2>. QED BY <2>1, OwnersSame
<1>3. ASSUME NEW u \in Users, RawGetHit(u) PROVE Lease!Next
  BY <1>3, RawGetHitLends DEF Lease!Next
<1>4. ASSUME NEW u \in Users, Dial(u) PROVE Lease!Next
  BY <1>4, DialOpens DEF Lease!Next
<1>5. ASSUME NEW u \in Users,
             \/ Expire(u) \/ HookFails(u)
             \/ poolpc[u] = "has" /\ PutBad(u, conn[u])
      PROVE  Lease!Next
  <2>1. /\ Holds(u, conn[u]) /\ conn[u] \in Conns
        /\ sock' = [sock EXCEPT ![conn[u]] = "shut"] /\ UNCHANGED pool
        /\ \E p \in PoolPcs \ Holding : Goto(u, p, NoConn)
    BY <1>5, ZenonT(20) DEF Expire, HookFails, PutBad, Holds, Holding, PoolPcs, PoolInv, HeldSound
  <2>2. Lease!Retire(u, conn[u])
    BY <2>1, LetGoRetires, ZenonT(20)
  <2>. QED BY <2>1, <2>2 DEF Lease!Next
<1>6. ASSUME NEW u \in Users, Push(u) PROVE Lease!Next
  BY <1>6, PushReturns DEF Lease!Next
<1>. QED BY <1>1, <1>2, <1>3, <1>4, <1>5, <1>6, ZenonT(20)
  DEF PoolNext, GetStep, GetReturns, GetFails, UseStep, Put

(* Get and Put implement the lease for any users and connections. *)
THEOREM PoolImplementsLease == PoolSpec => RefinesLease
<1>1. PoolInit => Lease!Init
  <2>. SUFFICES ASSUME PoolInit, NEW c \in Conns PROVE ownerOf(c) = <<"fresh">>
    BY DEF Lease!Init, Lease!Fresh
  <2>1. Range(pool) = {} /\ \A u \in Users : ~Holds(u, c)
    BY DEF PoolInit, Range, Holds, Holding
  <2>. QED BY <2>1 DEF PoolInit, ownerOf
<1>. QED BY <1>1, LeaseSimulation, PoolInvariant, PTL DEF PoolSpec, RefinesLease, Lease!Spec
=============================================================================
