---------------------------- MODULE ProxyProofs -----------------------------
(***************************************************************************)
(* Proofs about Proxy and ProxyAnswers, with an interceptor, for any set   *)
(* of sessions, connections and requests: the sessions use the pool by its *)
(* contract, so that what is proved of the pool holds of the proxy, and,   *)
(* without exhaust queries, a reply reaches the session that waits for it, *)
(* the requests of a client reach mongod in the order they were sent, and  *)
(* the client is told what it waits for.                                   *)
(***************************************************************************)
EXTENDS ProxyReplyProofs, ProxyOrderProofs, ProxyAnswersProofs, ConnectionPoolProofs

(* The pool's invariant and the link to it hold of the proxy. *)
THEOREM ProxyLinked ==
  ASSUME HasInterceptor
  PROVE  Spec => [](PoolInv /\ LinkInv)
<1>1. Init => PoolInv /\ LinkInv
  BY PoolInitInv, LinkInit DEF Init
<1>2. PoolInv /\ LinkInv /\ [Next]_vars => (PoolInv /\ LinkInv)'
  BY LinkStep, PoolStepInv
<1>. QED BY <1>1, <1>2, PTL DEF Spec

(* The sessions of a proxy use the pool by its contract on every path        *)
(* through doLoop and DoLoopTemp: the proxy implements the pool with         *)
(* disciplined users, and every theorem about that pool is one about it.     *)
THEOREM ProxyObeysPool ==
  ASSUME HasInterceptor
  PROVE  Spec => ObeysPool
<1>1. Init => PoolInit
  BY DEF Init
<1>2. PoolInv /\ LinkInv /\ [Next]_vars => [PoolNext]_poolVars
  BY LinkStep, ZenonT(20)
<1>. QED BY <1>1, <1>2, ProxyLinked, PTL DEF Spec, ObeysPool, PoolSpec

(* Neither the panic of Put nor the "oh no!" of doLoop is reached, and no    *)
(* nil interceptor is closed.                                                *)
THEOREM ProxyNeverPanics ==
  ASSUME HasInterceptor
  PROVE  Spec => []NoPanic
<1>1. PoolInv => NoPanic
  BY DEF PoolInv, NoDoubleClose, NoPanic
<1>. QED BY <1>1, ProxyLinked, PTL

(* A session that has left DoLoopTemp, by whichever error, has given its     *)
(* connection back.                                                          *)
THEOREM ProxyKeepsNothing ==
  ASSUME HasInterceptor
  PROVE  Spec => []NothingKept
<1>1. LinkInv => NothingKept
  BY DEF LinkInv, Linked, NothingKept, Holds, Holding
<1>. QED BY <1>1, ProxyLinked, PTL

(* What a session holds of a request and a reply, and what travels to and    *)
(* from mongod, whichever kinds of request clients send.                     *)
THEOREM ProxyTyped ==
  ASSUME HasInterceptor
  PROVE  Spec => []TypeInv
<1>1. Init => TypeInv
  BY TypeInit
<1>2. LinkInv /\ TypeInv /\ [Next]_vars => TypeInv'
  BY TypeStep
<1>. QED BY <1>1, <1>2, ProxyLinked, PTL DEF Spec

(* The types of the proxy, the replies to exhaust queries, which are counted *)
(* down, included.                                                           *)
THEOREM ProxyTypeCorrect ==
  ASSUME HasInterceptor
  PROVE  Spec => []TypeOK
<1>1. PoolInv /\ LinkInv /\ TypeInv => TypeOK
  <2>1. ASSUME TypeInv, NEW s \in Users, resp[s] # None
        PROVE  resp[s].by \in Users /\ resp[s].left \in 1..MaxBatches
    BY <2>1 DEF TypeInv, SentReplies
  <2>2. ASSUME TypeInv, NEW c \in Conns, NEW i \in DOMAIN toMongo[c]
        PROVE  toMongo[c][i].left \in 0..MaxBatches
    <3>1. toMongo[c][i] \in SentMessages
      BY <2>2 DEF TypeInv
    <3>. QED BY <3>1, ZenonT(20) DEF SentMessages
  <2>3. ASSUME TypeInv, NEW c \in Conns, NEW i \in DOMAIN fromMongo[c]
        PROVE  fromMongo[c][i].left \in 1..MaxBatches
    <3>1. fromMongo[c][i] \in SentReplies
      BY <2>3 DEF TypeInv
    <3>. QED BY <3>1 DEF SentReplies
  <2>4. ASSUME TypeInv, NEW s \in Users, sesspc[s] \in {"intercept", "acquire", "send"}
        PROVE  msg[s] # None
    <3>1. msg[s] \in Requests(s, nsent[s])
      BY <2>4 DEF TypeInv, Sending
    <3>. QED BY <3>1 DEF Requests, None
  <2>. QED BY <2>1, <2>2, <2>3, <2>4, ZenonT(20) DEF TypeOK, TypeInv, LinkInv, PoolInv
<1>. QED BY <1>1, ProxyTyped, ProxyLinked, PTL

-----------------------------------------------------------------------------
(* The invariant of the proxy: one reply is under way on a connection that   *)
(* is waited on, and none on any other that will be used again; and the      *)
(* requests of a session that mongod has not served are on one connection,   *)
(* in the order doLoop read them.                                            *)
THEOREM ProxyInvariant ==
  ASSUME HasInterceptor, "exhaust" \notin Kinds
  PROVE  Spec => []ProxyInv
<1>1. Init => MsgInv /\ ReplyInv /\ OrderInv
  BY MsgInit, ReplyInit, OrderInit, ZenonT(20)
<1>2. PoolInv /\ LinkInv /\ MsgInv /\ ReplyInv /\ [Next]_vars => MsgInv' /\ ReplyInv'
  BY MsgStep, ReplyStep, ZenonT(20)
<1>3. PoolInv /\ LinkInv /\ MsgInv /\ ReplyInv /\ OrderInv /\ [Next]_vars => OrderInv'
  BY OrderStep, ZenonT(20)
<1>. QED BY <1>1, <1>2, <1>3, ProxyLinked, PTL DEF Spec, ProxyInv

(* Without exhaust queries the reply that a session forwards is the answer   *)
(* to the request it handles, however many sessions share the connections    *)
(* and whichever of them fail half way.                                      *)
THEOREM ProxyReplyMatches ==
  ASSUME HasInterceptor, "exhaust" \notin Kinds
  PROVE  Spec => []ReplyMatches
<1>1. ProxyInv => ReplyMatches
  <2>1. ASSUME MsgInv, ReplyInv, NEW s \in Users, sesspc[s] = "forward"
        PROVE  resp[s].by = s /\ resp[s].num = msg[s].num
    <3>1. msg[s].by = s
      BY <2>1 DEF MsgInv, Single
    <3>2. resp[s] = [by |-> msg[s].by, num |-> msg[s].num, left |-> msg[s].left]
      BY <2>1, ZenonT(20) DEF ReplyInv, ReplyTo
    <3>. QED BY <3>1, <3>2
  <2>. QED BY <2>1, ZenonT(20) DEF ReplyMatches, At, ProxyInv
<1>. QED BY <1>1, ProxyInvariant, PTL

(* A connection that Put accepted has no reply under way: the next session   *)
(* that Get gives it to starts afresh.                                       *)
THEOREM ProxyPoolQuiet ==
  ASSUME HasInterceptor, "exhaust" \notin Kinds
  PROVE  Spec => []PoolQuiet
<1>1. ASSUME PoolInv, LinkInv, ReplyInv, NEW c \in Conns, closed[c], sock[c] = "open"
      PROVE  Quiet(c)
  <2>1. ~bad[c]
    <3>1. CASE c \in Range(pool)
      <4>1. pool \in Seq(Conns)
        BY <1>1 DEF PoolInv, PoolTypeOK
      <4>2. \A e : e \in Range(pool) <=> \E i \in 1..Len(pool) : e = pool[i]
        BY <4>1, MemberFacts, ZenonT(20)
      <4>3. PICK i \in 1..Len(pool) : c = pool[i]
        BY <3>1, <4>2, ZenonT(20)
      <4>. QED BY <1>1, <4>3, ZenonT(20) DEF PoolInv, PoolHealthy
    <3>2. CASE \E u \in Users : Holds(u, c)
      BY <1>1, <3>2, ZenonT(20) DEF PoolInv, HeldSound, Holds, Holding
    <3>. QED BY <1>1, <3>1, <3>2, ZenonT(20) DEF PoolInv, NoSocketLost
  <2>2. ASSUME NEW s \in Users, sesspc[s] = "await" PROVE pooledConn[s] # c
    <3>1. poolpc[s] = "has" /\ conn[s] = pooledConn[s]
      BY <1>1, <2>2, Alone, ZenonT(20)
    <3>. QED BY <1>1, <3>1, ZenonT(20) DEF PoolInv, HeldSound, Holding
  <2>. QED BY <1>1, <2>1, <2>2, ZenonT(20) DEF ReplyInv
<1>2. ProxyInv => PoolQuiet
  BY <1>1 DEF PoolQuiet, ProxyInv
<1>. QED BY <1>2, ProxyInvariant, PTL

(* mongod serves the requests of a client in the order they were read,       *)
(* although they travel on different connections and other sessions' do in   *)
(* between: no step of any session, of the pool or of mongod makes it serve  *)
(* an earlier request after a later one.                                     *)
THEOREM ProxyOrderKept ==
  ASSUME HasInterceptor, "exhaust" \notin Kinds
  PROVE  Spec => OrderKept
<1>1. ProxyInv /\ [Next]_vars => [\A s \in Users : served'[s] >= served[s]]_vars
  BY OrderStep, ZenonT(20) DEF ProxyInv
<1>. QED BY <1>1, ProxyInvariant, PTL DEF Spec, OrderKept

-----------------------------------------------------------------------------
(* What holds of the proxy holds of it when the answers are kept, too: they *)
(* are history that no step of a session depends on, other than the choice  *)
(* of the interceptor.                                                      *)
THEOREM AnswersImplementProxy == AnswersSpec => Spec
<1>1. AnswersInit => Init
  BY DEF AnswersInit
<1>2. [AnswersNext]_AllVars => [Next]_vars
  BY AnswersAreProxySteps
<1>. QED BY <1>1, <1>2, PTL DEF AnswersSpec, Spec

(* The invariant of the answers. *)
THEOREM AnswersInvariant ==
  ASSUME HasInterceptor, "exhaust" \notin Kinds
  PROVE  AnswersSpec => []AnswersInv
<1>1. AnswersInit => AnswersInv
  BY AnswersInitInv
<1>2. LinkInv /\ ReplyInv /\ TypeInv /\ AnswersInv /\ [AnswersNext]_AllVars => AnswersInv'
  BY AnswersStep
<1>3. Spec => [](LinkInv /\ ReplyInv)
  <2>1. ProxyInv => LinkInv /\ ReplyInv
    BY DEF ProxyInv
  <2>. QED BY <2>1, ProxyInvariant, PTL
<1>. QED BY <1>1, <1>2, <1>3, ProxyTyped, AnswersImplementProxy, PTL DEF AnswersSpec

(* Whoever answers - mongod through doLoop, the interceptor through          *)
(* RespondToCommand, or RespondWithError - a client gets messages of the op  *)
(* code it waits for, in response to the request it sent last, however many  *)
(* sessions share the connections.                                           *)
THEOREM ClientsAnsweredInKind ==
  ASSUME HasInterceptor, "exhaust" \notin Kinds
  PROVE  AnswersSpec => []AnsweredInKind
<1>1. AnswersInv => AnsweredInKind
  BY ZenonT(20) DEF AnswersInv, Dialogue, AnsweredInKind
<1>. QED BY <1>1, AnswersInvariant, PTL

(* When doLoop reads the next request, the client has been told what it      *)
(* waits for: one message, or nothing if it waits for none.                  *)
THEOREM ClientsAnsweredInFull ==
  ASSUME HasInterceptor, "exhaust" \notin Kinds
  PROVE  AnswersSpec => []AnsweredInFull
<1>1. ASSUME AnswersInv, NEW s \in Users, sesspc[s] = "read", asked[s] # None,
             asked[s].kind # "oneway"
      PROVE  IF asked[s].left = 0 THEN told[s] = <<>>
             ELSE /\ told[s] # <<>>
                  /\ \A i \in DOMAIN told[s] : told[s][i].left = Len(told[s]) - i + 1
  <2>1. InFull(asked[s], told[s])
    BY <1>1 DEF AnswersInv, Dialogue
  <2>2. CASE asked[s].left = 0
    BY <1>1, <2>1, <2>2, ZenonT(20) DEF InFull
  <2>3. CASE asked[s].left # 0
    <3>1. PICK e \in Tellings : told[s] = <<e>> /\ e.left = 1
      BY <1>1, <2>1, <2>3, ZenonT(20) DEF InFull
    <3>2. ASSUME NEW f, f.left = 1
          PROVE  <<f>> # <<>> /\ \A i \in DOMAIN <<f>> : <<f>>[i].left = Len(<<f>>) - i + 1
      BY <3>2
    <3>. QED BY <2>3, <3>1, <3>2, ZenonT(20)
  <2>. QED BY <2>2, <2>3, ZenonT(20)
<1>2. AnswersInv => AnsweredInFull
  BY <1>1, ZenonT(20) DEF AnsweredInFull, At
<1>. QED BY <1>2, AnswersInvariant, PTL
=============================================================================
