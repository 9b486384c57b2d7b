-------------------------- MODULE ProxyReplyProofs --------------------------
(***************************************************************************)
(* Every step of Proxy keeps each session in agreement with the pool about *)
(* its connection, and is a step of the pool with disciplined users.       *)
(* Every step that serves no exhaust queries keeps the one reply a session *)
(* waits for on the connection it waits on, and no other reply on a        *)
(* connection that will be used again.                                     *)
(***************************************************************************)
EXTENDS ProxyInvariants, TLAPS

(* The connection of a session *)

(* A session that has not started has no connection. *)
LEMMA LinkInit == Init => LinkInv
  BY DEF Init, PoolInit, LinkInv, Linked, SessPcs

(* A step of one session changes the connection of no other. *)
LEMMA LinkFrame ==
  ASSUME LinkInv, NEW s \in Users, NEW p \in SessPcs,
         sesspc' = [sesspc EXCEPT ![s] = p],
         pooledConn' \in [Users -> Conns \cup {NoConn}],
         \A t \in Users \ {s} : /\ pooledConn'[t] = pooledConn[t]
                                /\ poolpc'[t] = poolpc[t]
                                /\ conn'[t] = conn[t],
         Linked(s)'
  PROVE  LinkInv'
<1>1. sesspc' \in [Users -> SessPcs] /\ \A t \in Users \ {s} : sesspc'[t] = sesspc[t]
  BY DEF LinkInv
<1>2. ASSUME NEW t \in Users \ {s} PROVE Linked(t)'
  BY <1>1, <1>2 DEF LinkInv, Linked
<1>. QED BY <1>1, <1>2 DEF LinkInv

(* They leave the pool alone, and a session with its connection. *)
LEMMA OutsideLink ==
  ASSUME LinkInv, NEW s \in Users, Outside(s)
  PROVE  LinkInv' /\ UNCHANGED poolVars
<1>1. UNCHANGED poolVars /\ UNCHANGED pooledConn
  BY DEF Outside, CreateWorker, ReadRequest, ReadFails, InterceptPasses, InterceptAnswers,
    InterceptFails, InterceptRefuses, KeepConn, ReadReply, ForwardReply, ForwardFails,
    NothingToClose
<1>2. PICK p \in SessPcs : sesspc' = [sesspc EXCEPT ![s] = p]
  BY DEF Outside, CreateWorker, ReadRequest, ReadFails, InterceptPasses, InterceptAnswers,
    InterceptFails, InterceptRefuses, KeepConn, ReadReply, ForwardReply, ForwardFails,
    NothingToClose, GoTo, SessPcs
<1>3. sesspc'[s] = p /\ poolpc' = poolpc /\ conn' = conn
  BY <1>1, <1>2 DEF LinkInv, poolVars
<1>4. Linked(s)'
  <2>1. Linked(s)
    BY DEF LinkInv
  <2>. USE <2>1, <1>1, <1>3 DEF Linked, At, ClosePcs
  <2>2. CASE CreateWorker(s) \/ ReadRequest(s) \/ ReadFails(s)
    <3>1. /\ p \in {"read", "closed", "intercept", "acquire", "exit"}
          /\ sesspc[s] \in {"start", "read"}
          /\ p = "closed" => sesspc[s] = "start"
      BY <2>2, <1>2 DEF CreateWorker, ReadRequest, ReadFails, GoTo, LinkInv
    <3>. QED BY <3>1
  <2>3. CASE InterceptPasses(s) \/ InterceptAnswers(s) \/ InterceptFails(s) \/ InterceptRefuses(s)
    <3>1. sesspc[s] = "intercept" /\ p \in {"acquire", "read", "exit", "fatal"}
      BY <2>3, <1>2 DEF InterceptPasses, InterceptAnswers, InterceptFails, InterceptRefuses, GoTo,
        LinkInv
    <3>2. p = "fatal" => pooledConn[s] # NoConn
      BY <2>3, <1>2 DEF InterceptPasses, InterceptAnswers, InterceptFails, InterceptRefuses, GoTo,
        LinkInv
    <3>. QED BY <3>1, <3>2
  <2>4. CASE KeepConn(s) \/ ReadReply(s) \/ ForwardReply(s) \/ ForwardFails(s)
    <3>1. /\ sesspc[s] \in {"acquire", "await", "forward"}
          /\ p \in {"send", "forward", "await", "deferOk", "deferErr"}
          /\ sesspc[s] = "acquire" => pooledConn[s] # NoConn
      BY <2>4, <1>2 DEF KeepConn, ReadReply, ForwardReply, ForwardFails, GoTo, LinkInv
    <3>. QED BY <3>1
  <2>5. CASE NothingToClose(s)
    BY <2>5, <1>2 DEF NothingToClose, GoTo, LinkInv
  <2>. QED BY <2>2, <2>3, <2>4, <2>5 DEF Outside
<1>. QED BY <1>1, <1>2, <1>3, <1>4, LinkFrame, ZenonT(20) DEF LinkInv

(* The steps inside Get are those of the pool. *)
LEMMA GetLink ==
  ASSUME PoolInv, LinkInv, NEW s \in Users,
         CallGet(s) \/ GetConn(s) \/ GetConnFails(s)
  PROVE  /\ LinkInv'
         /\ GetCall(s) \/ GetStep(s) \/ GetReturns(s) \/ GetFails(s)
<1>1. /\ sesspc[s] = "acquire" /\ Linked(s) /\ sesspc \in [Users -> SessPcs]
      /\ pooledConn \in [Users -> Conns \cup {NoConn}]
      /\ poolpc \in [Users -> PoolPcs] /\ conn \in [Users -> Conns \cup {NoConn}]
  BY DEF CallGet, GetConn, GetConnFails, At, LinkInv, PoolInv, PoolTypeOK
<1>2. CASE CallGet(s)
  <2>1. /\ pooledConn[s] = NoConn
        /\ GetCall(s) \/ GetStep(s)
        /\ UNCHANGED <<sesspc, pooledConn>>
    BY <1>2 DEF CallGet, proxyVars
  <2>2. PICK q \in {"rawGet", "check", "dial", "hook", "count"}, c \in Conns \cup {NoConn} :
          Goto(s, q, c)
    <3>1. CASE RawGetHit(s)
      BY <3>1 DEF RawGetHit, PoolInv, PoolTypeOK
    <3>2. CASE GetCall(s) \/ RawGetMiss(s) \/ Expire(s) \/ Dial(s) \/ HookAccepts(s)
      BY <3>2, <1>1 DEF GetCall, RawGetMiss, Expire, Dial, HookAccepts
    <3>. QED BY <2>1, <3>1, <3>2 DEF GetStep
  <2>3. poolpc'[s] = q /\ \A t \in Users \ {s} : poolpc'[t] = poolpc[t] /\ conn'[t] = conn[t]
    BY <1>1, <2>2 DEF Goto
  <2>4. Linked(s)'
    BY <1>1, <2>1, <2>3 DEF Linked
  <2>5. sesspc' = [sesspc EXCEPT ![s] = "acquire"] /\ "acquire" \in SessPcs
    BY <1>1, <2>1 DEF SessPcs
  <2>. QED BY <1>1, <2>1, <2>3, <2>4, <2>5, LinkFrame, ZenonT(20)
<1>3. CASE GetConn(s)
  <2>1. /\ GetReturns(s) /\ pooledConn' = [pooledConn EXCEPT ![s] = conn[s]]
        /\ sesspc' = [sesspc EXCEPT ![s] = "send"]
    BY <1>3 DEF GetConn, GoTo
  <2>2. poolpc[s] \in {"check", "count"} /\ Goto(s, "has", conn[s])
    BY <2>1 DEF GetReturns, Reuse, CountCreated
  <2>3. conn[s] \in Conns /\ conn[s] # NoConn
    BY <2>2, PoolAssumption DEF PoolInv, HeldSound, Holding
  <2>4. /\ poolpc'[s] = "has" /\ conn'[s] = conn[s] /\ sesspc'[s] = "send"
        /\ pooledConn'[s] = conn[s]
        /\ \A t \in Users \ {s} : /\ poolpc'[t] = poolpc[t] /\ conn'[t] = conn[t]
                                  /\ pooledConn'[t] = pooledConn[t]
    BY <1>1, <2>1, <2>2 DEF Goto
  <2>5. Linked(s)'
    BY <2>3, <2>4 DEF Linked
  <2>6. "send" \in SessPcs /\ pooledConn' \in [Users -> Conns \cup {NoConn}]
    BY <1>1, <2>1, <2>3 DEF SessPcs
  <2>. QED BY <2>1, <2>4, <2>5, <2>6, LinkFrame, ZenonT(20)
<1>4. CASE GetConnFails(s)
  <2>1. /\ GetFails(s) /\ pooledConn' = pooledConn
        /\ sesspc' = [sesspc EXCEPT ![s] = "exit"]
    BY <1>4 DEF GetConnFails, GoTo
  <2>2. poolpc[s] \in {"dial", "hook"} /\ Goto(s, "out", NoConn)
    BY <2>1 DEF GetFails, DialFails, HookFails
  <2>3. /\ poolpc'[s] = "out" /\ sesspc'[s] = "exit"
        /\ \A t \in Users \ {s} : poolpc'[t] = poolpc[t] /\ conn'[t] = conn[t]
    BY <1>1, <2>1, <2>2 DEF Goto
  <2>4. pooledConn[s] = NoConn
    BY <1>1, <2>2 DEF Linked
  <2>5. Linked(s)'
    BY <2>1, <2>3, <2>4 DEF Linked
  <2>6. "exit" \in SessPcs
    BY DEF SessPcs
  <2>. QED BY <1>1, <2>1, <2>3, <2>5, <2>6, LinkFrame, ZenonT(20)
<1>. QED BY <1>2, <1>3, <1>4

(* A write, and the errors of the socket, are uses of a connection that Get  *)
(* gave the session and that it has not closed.                              *)
LEMMA UseLink ==
  ASSUME PoolInv, LinkInv, NEW s \in Users,
         SendToMongo(s) \/ SendFails(s) \/ ReadReplyFails(s)
  PROVE  LinkInv' /\ (UseStep(s) \/ UNCHANGED poolVars)
<1>1. /\ sesspc[s] \in {"send", "await"} /\ Linked(s) /\ sesspc \in [Users -> SessPcs]
      /\ pooledConn \in [Users -> Conns \cup {NoConn}]
  BY DEF SendToMongo, SendFails, ReadReplyFails, At, LinkInv
<1>2. poolpc[s] = "has" /\ conn[s] = pooledConn[s] /\ pooledConn[s] # NoConn
  BY <1>1 DEF Linked, ClosePcs
<1>3. pooledConn' = pooledConn /\ poolpc' = poolpc /\ conn' = conn
  BY DEF SendToMongo, SendFails, ReadReplyFails, MarkBad
<1>4. PICK p \in {"await", "read", "exit", "deferErr"} : sesspc' = [sesspc EXCEPT ![s] = p]
  BY DEF SendToMongo, SendFails, ReadReplyFails, GoTo
<1>5. p \in SessPcs /\ sesspc'[s] = p
  BY <1>1, <1>4 DEF SessPcs
<1>6. Linked(s)'
  BY <1>2, <1>3, <1>5 DEF Linked
<1>7. LinkInv'
  BY <1>1, <1>3, <1>4, <1>5, <1>6, LinkFrame, ZenonT(20)
<1>8. UseStep(s) \/ UNCHANGED poolVars
  <2>1. CASE SendFails(s) \/ ReadReplyFails(s)
    BY <2>1, <1>2 DEF SendFails, ReadReplyFails, UseStep
  <2>2. CASE SendToMongo(s)
    <3>1. conn[s] \in Conns /\ ~closed[conn[s]] /\ closed \in [Conns -> BOOLEAN]
      BY <1>2 DEF PoolInv, PoolTypeOK, HeldSound, Holding
    <3>2. crashed' = closed[conn[s]] /\ crashed \in BOOLEAN /\ ~crashed
      BY <2>2, <1>2 DEF SendToMongo, PoolInv, PoolTypeOK, NoDoubleClose
    <3>3. closed[conn[s]] = FALSE /\ crashed = FALSE
      BY <3>1, <3>2, Zenon
    <3>4. crashed' = crashed
      BY <3>2, <3>3, Zenon
    <3>. QED BY <2>2, <3>4 DEF SendToMongo, poolVars
  <2>. QED BY <2>1, <2>2
<1>. QED BY <1>7, <1>8

(* pooledConn.Close passes to Put what Get gave the session, once. *)
LEMMA CloseLink ==
  ASSUME PoolInv, LinkInv, NEW s \in Users, CloseConn(s)
  PROVE  LinkInv' /\ (UseStep(s) \/ Push(s))
<1>1. /\ sesspc[s] \in ClosePcs /\ pooledConn[s] # NoConn /\ Linked(s)
      /\ sesspc \in [Users -> SessPcs] /\ pooledConn \in [Users -> Conns \cup {NoConn}]
      /\ poolpc \in [Users -> PoolPcs] /\ conn \in [Users -> Conns \cup {NoConn}]
  BY DEF CloseConn, LinkInv, PoolInv, PoolTypeOK
<1>2. conn[s] = pooledConn[s] /\ poolpc[s] \in {"has", "push"}
  BY <1>1 DEF Linked, ClosePcs
<1>3. CASE poolpc[s] # "push" /\ PutGood(s, pooledConn[s]) /\ UNCHANGED <<sesspc, pooledConn>>
  <2>1. Goto(s, "push", pooledConn[s]) /\ UseStep(s)
    BY <1>2, <1>3 DEF PutGood, UseStep, Put
  <2>2. /\ poolpc'[s] = "push" /\ conn'[s] = pooledConn[s]
        /\ \A t \in Users \ {s} : poolpc'[t] = poolpc[t] /\ conn'[t] = conn[t]
    BY <1>1, <2>1 DEF Goto
  <2>3. Linked(s)'
    BY <1>1, <1>3, <2>2 DEF Linked, ClosePcs
  <2>4. sesspc' = [sesspc EXCEPT ![s] = sesspc[s]] /\ sesspc[s] \in SessPcs
    BY <1>1, <1>3
  <2>. QED BY <1>1, <1>3, <2>1, <2>2, <2>3, <2>4, LinkFrame, ZenonT(20)
<1>4. CASE /\ (poolpc[s] # "push" /\ PutBad(s, pooledConn[s])) \/ Push(s)
           /\ CloseReturns(s)
  <2>1. Goto(s, "out", NoConn) /\ (UseStep(s) \/ Push(s))
    BY <1>2, <1>4 DEF PutBad, Push, UseStep, Put
  <2>2. /\ poolpc'[s] = "out"
        /\ \A t \in Users \ {s} : poolpc'[t] = poolpc[t] /\ conn'[t] = conn[t]
    BY <1>1, <2>1 DEF Goto
  <2>3. PICK p \in {"read", "end", "exit"} :
          /\ sesspc' = [sesspc EXCEPT ![s] = p]
          /\ p = "end" <=> sesspc[s] = "exit"
    BY <1>4, ZenonT(20) DEF CloseReturns, GoTo, At
  <2>4. p \in SessPcs /\ sesspc'[s] = p
    BY <1>1, <2>3 DEF SessPcs
  <2>5. /\ pooledConn' \in [Users -> Conns \cup {NoConn}]
        /\ \A t \in Users \ {s} : pooledConn'[t] = pooledConn[t]
        /\ sesspc[s] # "exit" => pooledConn'[s] = NoConn
    BY <1>1, <1>4 DEF CloseReturns, At
  <2>6. Linked(s)'
    BY <2>2, <2>3, <2>4, <2>5 DEF Linked
  <2>. QED BY <2>1, <2>2, <2>3, <2>4, <2>5, <2>6, LinkFrame, ZenonT(20)
<1>. QED BY <1>3, <1>4 DEF CloseConn

(* The end of a session has given everything back. *)
LEMMA EndLink ==
  ASSUME HasInterceptor, PoolInv, LinkInv, NEW s \in Users, EndSession(s)
  PROVE  LinkInv' /\ UNCHANGED poolVars
<1>1. /\ sesspc[s] = "end" /\ Linked(s) /\ sesspc \in [Users -> SessPcs]
      /\ pooledConn' = pooledConn /\ poolpc' = poolpc /\ conn' = conn
      /\ sesspc' = [sesspc EXCEPT ![s] = "closed"] /\ "closed" \in SessPcs
  BY DEF EndSession, At, GoTo, LinkInv, SessPcs
<1>2. Linked(s)'
  BY <1>1 DEF Linked
<1>3. LinkInv'
  BY <1>1, <1>2, LinkFrame, ZenonT(20) DEF LinkInv
<1>4. crashed' = crashed
  <2>1. crashed' = ~HasInterceptor /\ crashed \in BOOLEAN /\ ~crashed
    BY DEF EndSession, PoolInv, PoolTypeOK, NoDoubleClose
  <2>2. (~HasInterceptor) = FALSE /\ crashed = FALSE
    BY <2>1, Zenon
  <2>. QED BY <2>1, <2>2, Zenon
<1>. QED BY <1>3, <1>4 DEF EndSession, poolVars

-----------------------------------------------------------------------------
(* Seen at the pool, every step of the proxy is one of a user who keeps the  *)
(* contract, or none.                                                        *)
LEMMA LinkStep ==
  ASSUME HasInterceptor, PoolInv, LinkInv, [Next]_vars
  PROVE  LinkInv' /\ [PoolNext]_poolVars
<1>1. ~crashed
  BY DEF PoolInv, NoDoubleClose
<1>2. CASE UNCHANGED vars \/ (\E c \in Conns : MongoServes(c))
  <2>1. UNCHANGED <<poolVars, sesspc, pooledConn>>
    BY <1>2, ZenonT(20) DEF vars, proxyVars, MongoServes
  <2>. QED BY <2>1 DEF LinkInv, Linked, poolVars
<1>3. CASE Tick /\ UNCHANGED proxyVars
  <2>1. UNCHANGED <<poolpc, conn, sesspc, pooledConn>>
    BY <1>3 DEF Tick, proxyVars
  <2>. QED BY <1>1, <1>3, <2>1 DEF LinkInv, Linked, PoolNext
<1>4. ASSUME NEW s \in Users,
             SessionStep(s) \/ ReadRequest(s) \/ ReadFails(s) \/ ReadReplyFails(s)
      PROVE  LinkInv' /\ [PoolNext]_poolVars
  <2>1. CASE Outside(s) \/ EndSession(s)
    BY <2>1, OutsideLink, EndLink
  <2>2. CASE CallGet(s) \/ GetConn(s) \/ GetConnFails(s)
    BY <1>1, <2>2, GetLink DEF PoolNext
  <2>3. CASE SendToMongo(s) \/ SendFails(s) \/ ReadReplyFails(s)
    BY <1>1, <2>3, UseLink DEF PoolNext
  <2>4. CASE CloseConn(s)
    BY <1>1, <2>4, CloseLink DEF PoolNext
  <2>. QED BY <1>4, <2>1, <2>2, <2>3, <2>4 DEF SessionStep, Outside
<1>. QED BY <1>2, <1>3, <1>4 DEF Next

-----------------------------------------------------------------------------
(* The replies under way *)

(* What a client may send when it sends no exhaust queries. *)
LEMMA RequestFacts ==
  ASSUME "exhaust" \notin Kinds, NEW s \in Users, NEW n \in Nat, NEW m \in Requests(s, n)
  PROVE  m \in Messages /\ m.by = s /\ (m.left = 1 => HasResponse(m))
<1>1. PICK k \in Kinds : m \in [by: {s}, num: {n}, kind: {k}, left: Replies(k)]
  BY DEF Requests
<1>2. Replies(k) = IF k \in {"write", "kill", "oneway"} THEN {0} ELSE {1}
  BY <1>1, ProxyAssumption DEF Replies
<1>3. m.left \in {0, 1} /\ m.kind = k /\ m.by = s /\ m.num = n
  BY <1>1, <1>2
<1>4. m.left = 1 => k \notin {"write", "kill"}
  BY <1>1, <1>2
<1>. QED BY <1>1, <1>3, <1>4 DEF Messages, HasResponse

(* No request has been read when the proxy starts, *)
LEMMA MsgInit == Init => MsgInv
  BY DEF Init, MsgInv

(* A step that leaves requests and replies alone. *)
LEMMA MsgFrame ==
  ASSUME MsgInv, UNCHANGED <<nsent, msg>>,
         toMongo' \in [Conns -> Seq(Messages)],
         fromMongo' \in [Conns -> Seq(ReplyMessages)],
         resp' \in [Users -> ReplyMessages \cup {None}],
         \A t \in Users : sesspc'[t] \in Handling => sesspc[t] \in Handling
  PROVE  MsgInv'
  BY DEF MsgInv, Single, Handling

(* A new request, or one that the interceptor puts in its place. *)
LEMMA MsgRead ==
  ASSUME "exhaust" \notin Kinds, LinkInv, MsgInv, NEW s \in Users,
         ReadRequest(s) \/ InterceptPasses(s) \/ InterceptRefuses(s)
  PROVE  MsgInv'
<1>0. PICK n \in Nat : \E m \in Requests(s, n) : msg' = [msg EXCEPT ![s] = m]
  BY DEF MsgInv, ReadRequest, InterceptPasses, InterceptRefuses
<1>1. PICK m \in Requests(s, n) : msg' = [msg EXCEPT ![s] = m]
  BY <1>0, ZenonT(20)
<1>2. m \in Messages /\ m.by = s /\ (m.left = 1 => HasResponse(m))
  BY <1>1, RequestFacts
<1>3. nsent' \in [Users -> Nat] /\ UNCHANGED <<toMongo, fromMongo, resp>>
  <2>1. UNCHANGED <<toMongo, fromMongo, resp>>
    BY ZenonT(20) DEF ReadRequest, InterceptPasses, InterceptRefuses
  <2>2. UNCHANGED nsent \/ nsent' = [nsent EXCEPT ![s] = @ + 1]
    BY ZenonT(20) DEF ReadRequest, InterceptPasses, InterceptRefuses
  <2>3. nsent \in [Users -> Nat]
    BY ZenonT(20) DEF MsgInv
  <2>4. nsent' \in [Users -> Nat]
    BY <2>2, <2>3
  <2>. QED BY <2>1, <2>4
<1>4. \A t \in Users \ {s} : sesspc'[t] = sesspc[t] /\ msg'[t] = msg[t]
  BY <1>1 DEF ReadRequest, InterceptPasses, InterceptRefuses, GoTo, LinkInv, MsgInv
<1>5. msg'[s] = m /\ msg' \in [Users -> Messages \cup {None}]
  BY <1>1, <1>2 DEF MsgInv
<1>6. \A t \in Users : sesspc'[t] \in Handling => Single(t)'
  <2>1. Single(s)'
    BY <1>2, <1>5 DEF Single, HasResponse
  <2>2. ASSUME NEW t \in Users \ {s}, sesspc'[t] \in Handling PROVE Single(t)'
    BY <1>4, <2>2, ZenonT(20) DEF MsgInv, Single, HasResponse, Handling
  <2>. QED BY <2>1, <2>2
<1>. QED BY <1>3, <1>5, <1>6 DEF MsgInv, Handling

(* The request is written to mongod. *)
LEMMA MsgSend ==
  ASSUME LinkInv, MsgInv, NEW s \in Users, SendToMongo(s)
  PROVE  MsgInv'
<1>1. /\ sesspc[s] = "send" /\ UNCHANGED <<nsent, msg, resp, fromMongo>>
      /\ toMongo' = [toMongo EXCEPT ![pooledConn[s]] = Append(@, msg[s])]
  BY DEF SendToMongo, At
<1>2. pooledConn[s] \in Conns /\ msg[s] \in Messages
  BY <1>1, ZenonT(20) DEF LinkInv, Linked, MsgInv, Single
<1>3. toMongo' \in [Conns -> Seq(Messages)]
  BY <1>1, <1>2 DEF MsgInv
<1>4. \A t \in Users : sesspc'[t] \in Handling => sesspc[t] \in Handling
  BY <1>1 DEF SendToMongo, GoTo, LinkInv, Handling
<1>. QED BY <1>1, <1>3, <1>4, MsgFrame DEF MsgInv

(* The reply is read from mongod. *)
LEMMA MsgReply ==
  ASSUME LinkInv, MsgInv, NEW s \in Users, ReadReply(s)
  PROVE  MsgInv'
<1>1. /\ sesspc[s] = "await" /\ UNCHANGED <<nsent, msg, toMongo>>
      /\ fromMongo[pooledConn[s]] # <<>>
      /\ resp' = [resp EXCEPT ![s] = Head(fromMongo[pooledConn[s]])]
      /\ fromMongo' = [fromMongo EXCEPT ![pooledConn[s]] = Tail(@)]
  BY DEF ReadReply, At
<1>2. pooledConn[s] \in Conns
  BY <1>1 DEF LinkInv, Linked
<1>3. fromMongo' \in [Conns -> Seq(ReplyMessages)]
  BY <1>1, <1>2 DEF MsgInv
<1>4. resp' \in [Users -> ReplyMessages \cup {None}]
  <2>1. Head(fromMongo[pooledConn[s]]) \in ReplyMessages
    BY <1>1, <1>2 DEF MsgInv
  <2>. QED BY <1>1, <2>1 DEF MsgInv
<1>5. \A t \in Users : sesspc'[t] \in Handling => sesspc[t] \in Handling
  BY <1>1 DEF ReadReply, GoTo, LinkInv, Handling
<1>6. toMongo' \in [Conns -> Seq(Messages)]
  BY <1>1 DEF MsgInv
<1>. QED BY <1>1, <1>3, <1>4, <1>5, <1>6, MsgFrame

(* mongod takes a request, which without exhaust queries it answers at once. *)
LEMMA ServeFacts ==
  ASSUME MsgInv, NEW c \in Conns, MongoServes(c)
  PROVE  LET m == Head(toMongo[c]) IN
           /\ m \in Messages /\ m = toMongo[c][1] /\ toMongo[c] # <<>>
           /\ toMongo' = [toMongo EXCEPT ![c] = Tail(@)]
           /\ m.left = 0 => fromMongo' = fromMongo
           /\ m.left = 1 => fromMongo' = [fromMongo EXCEPT ![c] = Append(@, ReplyTo(m))]
           /\ UNCHANGED <<poolVars, sesspc, nsent, msg, resp, pooledConn>>
<1>1. toMongo[c] # <<>> /\ toMongo[c] \in Seq(Messages)
  BY DEF MongoServes, MsgInv
<1>2. Head(toMongo[c]) \in Messages /\ Head(toMongo[c]) = toMongo[c][1]
  BY <1>1
<1>3. Head(toMongo[c]).left \in {0, 1}
  BY <1>2 DEF Messages
<1>4. ~(Head(toMongo[c]).left > 1)
  BY <1>3
<1>5. toMongo' = [toMongo EXCEPT ![c] = Tail(@)]
  BY <1>4, ZenonT(20) DEF MongoServes
<1>6. fromMongo' = IF Head(toMongo[c]).left = 0 THEN fromMongo
                   ELSE [fromMongo EXCEPT ![c] = Append(@, ReplyTo(Head(toMongo[c])))]
  BY DEF MongoServes
<1>7. UNCHANGED <<poolVars, sesspc, nsent, msg, resp, pooledConn>>
  BY DEF MongoServes
<1>. QED BY <1>1, <1>2, <1>3, <1>5, <1>6, <1>7

(* What it leaves and what it writes are requests and replies again. *)
LEMMA MsgServe ==
  ASSUME MsgInv, NEW c \in Conns, MongoServes(c)
  PROVE  MsgInv'
<1>. DEFINE m == Head(toMongo[c])
<1>1. /\ m \in Messages /\ toMongo[c] # <<>>
      /\ toMongo' = [toMongo EXCEPT ![c] = Tail(@)]
      /\ m.left = 0 => fromMongo' = fromMongo
      /\ m.left = 1 => fromMongo' = [fromMongo EXCEPT ![c] = Append(@, ReplyTo(m))]
      /\ UNCHANGED <<sesspc, nsent, msg, resp>>
  BY ServeFacts
<1>2. ReplyTo(m) \in ReplyMessages /\ m.left \in {0, 1}
  BY <1>1 DEF ReplyTo, Messages, ReplyMessages
<1>. HIDE DEF m
<1>3. toMongo' \in [Conns -> Seq(Messages)]
  BY <1>1 DEF MsgInv
<1>4. fromMongo' \in [Conns -> Seq(ReplyMessages)]
  <2>1. fromMongo \in [Conns -> Seq(ReplyMessages)]
    BY DEF MsgInv
  <2>2. Append(fromMongo[c], ReplyTo(m)) \in Seq(ReplyMessages)
    BY <1>2, <2>1
  <2>3. CASE m.left = 0
    BY <1>1, <2>1, <2>3
  <2>4. CASE m.left = 1
    BY <1>1, <2>1, <2>2, <2>4, ZenonT(20)
  <2>. QED BY <1>2, <2>3, <2>4
<1>. QED BY <1>1, <1>3, <1>4, MsgFrame DEF MsgInv

(* Every step keeps requests what they are. *)
LEMMA MsgStep ==
  ASSUME "exhaust" \notin Kinds, LinkInv, MsgInv, [Next]_vars
  PROVE  MsgInv'
<1>1. CASE UNCHANGED proxyVars
  BY <1>1, MsgFrame DEF proxyVars, MsgInv
<1>2. CASE \E c \in Conns : MongoServes(c)
  BY <1>2, MsgServe
<1>3. ASSUME NEW s \in Users,
             SessionStep(s) \/ ReadRequest(s) \/ ReadFails(s) \/ ReadReplyFails(s)
      PROVE  MsgInv'
  <2>1. CASE ReadRequest(s) \/ InterceptPasses(s) \/ InterceptRefuses(s)
    BY <2>1, MsgRead
  <2>2. CASE SendToMongo(s)
    BY <2>2, MsgSend
  <2>3. CASE ReadReply(s)
    BY <2>3, MsgReply
  <2>4. CASE \/ CreateWorker(s) \/ ReadFails(s) \/ InterceptAnswers(s) \/ InterceptFails(s)
             \/ KeepConn(s) \/ NothingToClose(s) \/ EndSession(s)
    <3>1. UNCHANGED <<nsent, msg, resp, toMongo, fromMongo>>
      BY <2>4 DEF CreateWorker, ReadFails, InterceptAnswers, InterceptFails, KeepConn,
        NothingToClose, EndSession
    <3>2. \A t \in Users : sesspc'[t] \in Handling => sesspc[t] \in Handling
      BY <2>4 DEF CreateWorker, ReadFails, InterceptAnswers, InterceptFails, KeepConn,
        NothingToClose, EndSession, GoTo, At, Handling, LinkInv
    <3>. QED BY <3>1, <3>2, MsgFrame DEF MsgInv
  <2>5. CASE \/ CallGet(s) \/ GetConn(s) \/ GetConnFails(s) \/ SendFails(s) \/ ForwardReply(s)
             \/ ForwardFails(s) \/ ReadReplyFails(s) \/ CloseConn(s)
    <3>1. UNCHANGED <<nsent, msg, resp, toMongo, fromMongo>>
      BY <2>5, ZenonT(20) DEF CallGet, GetConn, GetConnFails, SendFails, ForwardReply, ForwardFails,
        ReadReplyFails, CloseConn, proxyVars
    <3>2. \A t \in Users : sesspc'[t] \in Handling => sesspc[t] \in Handling
      BY <2>5 DEF CallGet, GetConn, GetConnFails, SendFails, ForwardReply, ForwardFails,
        ReadReplyFails, CloseConn, CloseReturns, proxyVars, GoTo, At, Handling, LinkInv, ClosePcs
    <3>. QED BY <3>1, <3>2, MsgFrame DEF MsgInv
  <2>. QED BY <1>3, <2>1, <2>2, <2>3, <2>4, <2>5 DEF SessionStep
<1>. QED BY <1>1, <1>2, <1>3 DEF Next, vars

-----------------------------------------------------------------------------
(* Nothing is under way when the proxy starts. *)
LEMMA ReplyInit == Init => ReplyInv
  BY DEF Init, PoolInit, ReplyInv, Sound, Quiet

(* A connection serves one session at a time. *)
LEMMA OneSession ==
  ASSUME PoolInv, LinkInv, NEW s \in Users, NEW t \in Users,
         pooledConn[s] # NoConn, sesspc[s] \notin {"end", "closed"},
         Holds(t, pooledConn[s])
  PROVE  t = s
<1>1. pooledConn[s] \in Conns
  BY DEF LinkInv
<1>2. Holds(s, pooledConn[s])
  BY DEF LinkInv, Linked, Holds, Holding
<1>. QED BY <1>1, <1>2 DEF PoolInv, Exclusive

(* A session that reads, sends or waits is the one user of its connection. *)
LEMMA SessionHolds ==
  ASSUME LinkInv, NEW t \in Users, pooledConn[t] # NoConn, sesspc[t] \notin {"end", "closed"}
  PROVE  Holds(t, pooledConn[t])
  BY DEF LinkInv, Linked, Holds, Holding

(* A step of a session that touches no reply and no flag of a connection. *)
LEMMA ReplyFrame ==
  ASSUME LinkInv, ReplyInv, NEW s \in Users, NEW p \in SessPcs,
         sesspc' = [sesspc EXCEPT ![s] = p],
         sesspc[s] # "await", p \notin {"await", "forward"},
         UNCHANGED <<bad, toMongo, fromMongo>>,
         \A t \in Users \ {s} : /\ pooledConn'[t] = pooledConn[t]
                                /\ poolpc'[t] = poolpc[t]
                                /\ conn'[t] = conn[t]
                                /\ msg'[t] = msg[t]
                                /\ resp'[t] = resp[t],
         Sound(s)'
  PROVE  ReplyInv'
<1>1. sesspc'[s] = p /\ \A t \in Users \ {s} : sesspc'[t] = sesspc[t]
  BY DEF LinkInv
<1>2. ASSUME NEW t \in Users PROVE Sound(t)'
  <2>1. CASE t = s
    BY <2>1
  <2>2. CASE t # s
    BY <1>1, <2>2 DEF ReplyInv, Sound
  <2>. QED BY <2>1, <2>2
<1>3. ASSUME NEW t \in Users, sesspc'[t] = "await" PROVE Awaits(t, pooledConn[t])' /\ t # s
  <2>1. t # s /\ sesspc[t] = "await"
    BY <1>1, <1>3
  <2>2. Awaits(t, pooledConn[t])
    BY <2>1 DEF ReplyInv
  <2>3. /\ pooledConn'[t] = pooledConn[t] /\ msg'[t] = msg[t]
        /\ toMongo' = toMongo /\ fromMongo' = fromMongo
    BY <2>1
  <2>. QED BY <2>1, <2>2, <2>3 DEF Awaits, ReplyTo
<1>4. ASSUME NEW t \in Users, sesspc'[t] = "forward" PROVE resp'[t] = ReplyTo(msg[t])'
  BY <1>1, <1>4 DEF ReplyInv, ReplyTo
<1>5. ASSUME NEW c \in Conns, ~bad'[c],
             \A t \in Users : sesspc'[t] = "await" => pooledConn'[t] # c
      PROVE  Quiet(c)'
  <2>1. \A t \in Users : sesspc[t] = "await" => pooledConn[t] # c
    BY <1>1, <1>5
  <2>. QED BY <1>5, <2>1 DEF ReplyInv, Quiet
<1>. QED BY <1>2, <1>3, <1>4, <1>5 DEF ReplyInv

(* The steps that only move a session on. *)
LEMMA OutsideReply ==
  ASSUME "exhaust" \notin Kinds, LinkInv, MsgInv, ReplyInv, NEW s \in Users,
         Outside(s), ~ReadReply(s)
  PROVE  ReplyInv'
<1>1. /\ UNCHANGED poolVars /\ UNCHANGED <<pooledConn, toMongo, fromMongo, resp>>
      /\ \A t \in Users \ {s} : msg'[t] = msg[t]
  BY ZenonT(20) DEF Outside, CreateWorker, ReadRequest, ReadFails, InterceptPasses,
    InterceptAnswers,
    InterceptFails, InterceptRefuses, KeepConn, ForwardReply, ForwardFails, NothingToClose,
    MsgInv
<1>2. At(s, "forward") => ~inExhaustMode(msg[s])
  BY DEF At, MsgInv, Single, Messages, inExhaustMode
<1>3. PICK p \in SessPcs : /\ sesspc' = [sesspc EXCEPT ![s] = p]
                           /\ sesspc[s] # "await" /\ p \notin {"await", "forward"}
                           /\ sesspc[s] \in {"deferErr", "exit", "end", "closed"} =>
                                p \in {"deferErr", "exit", "end", "closed"}
  BY <1>2, ZenonT(20) DEF Outside, CreateWorker, ReadRequest, ReadFails, InterceptPasses,
    InterceptAnswers,
    InterceptFails, InterceptRefuses, KeepConn, ForwardReply, ForwardFails, NothingToClose,
    GoTo, At, SessPcs
<1>4. Sound(s)'
  BY <1>1, <1>3, ZenonT(20) DEF ReplyInv, Sound, LinkInv, poolVars
<1>. QED BY <1>1, <1>3, <1>4, ReplyFrame, ZenonT(20) DEF poolVars

(* Get gives the session a connection that is not bad. *)
LEMMA GetReply ==
  ASSUME PoolInv, LinkInv, ReplyInv, NEW s \in Users,
         CallGet(s) \/ GetConn(s) \/ GetConnFails(s)
  PROVE  ReplyInv'
<1>1. /\ sesspc[s] = "acquire" /\ Linked(s) /\ Sound(s)
      /\ sesspc \in [Users -> SessPcs]
      /\ pooledConn \in [Users -> Conns \cup {NoConn}]
      /\ poolpc \in [Users -> PoolPcs] /\ conn \in [Users -> Conns \cup {NoConn}]
      /\ UNCHANGED <<msg, resp, toMongo, fromMongo>>
  BY ZenonT(20) DEF CallGet, GetConn, GetConnFails, At, LinkInv, ReplyInv, PoolInv,
    PoolTypeOK, proxyVars
<1>2. CASE CallGet(s)
  <2>1. /\ pooledConn[s] = NoConn /\ UNCHANGED <<sesspc, pooledConn>>
        /\ GetCall(s) \/ GetStep(s)
    BY <1>2, ZenonT(20) DEF CallGet, proxyVars
  <2>2. UNCHANGED bad
    BY <2>1 DEF GetCall, GetStep, RawGetHit, RawGetMiss, Expire, Dial, HookAccepts
  <2>3. \A t \in Users \ {s} : poolpc'[t] = poolpc[t] /\ conn'[t] = conn[t]
    BY <1>1, <2>1 DEF GetCall, GetStep, RawGetHit, RawGetMiss, Expire, Dial, HookAccepts, Goto
  <2>4. poolpc'[s] \in {"hook", "count"} => ~bad'[conn'[s]]
    <3>1. CASE GetCall(s) \/ RawGetHit(s) \/ RawGetMiss(s) \/ Expire(s)
      BY <1>1, <3>1, ZenonT(20) DEF GetCall, RawGetHit, RawGetMiss, Expire, Goto
    <3>2. CASE Dial(s)
      BY <1>1, <2>2, <3>2, ZenonT(20) DEF Dial, Goto, PoolInv, FreshUntouched
    <3>3. CASE HookAccepts(s)
      BY <1>1, <2>2, <3>3 DEF HookAccepts, Goto, Sound
    <3>. QED BY <2>1, <3>1, <3>2, <3>3 DEF GetStep
  <2>5. Sound(s)'
    BY <2>1, <2>4 DEF Sound
  <2>6. sesspc' = [sesspc EXCEPT ![s] = "acquire"] /\ "acquire" \in SessPcs
    BY <1>1, <2>1 DEF SessPcs
  <2>. QED BY <1>1, <2>1, <2>2, <2>3, <2>5, <2>6, ReplyFrame, ZenonT(20)
<1>3. CASE GetConn(s)
  <2>1. /\ GetReturns(s) /\ pooledConn' = [pooledConn EXCEPT ![s] = conn[s]]
        /\ sesspc' = [sesspc EXCEPT ![s] = "send"]
    BY <1>3 DEF GetConn, GoTo
  <2>2. poolpc[s] \in {"check", "count"} /\ Goto(s, "has", conn[s])
    BY <2>1 DEF GetReturns, Reuse, CountCreated
  <2>3. conn[s] \in Conns /\ ~bad[conn[s]]
    BY <1>1, <2>2 DEF PoolInv, HeldSound, Holding, Sound
  <2>4. bad' = bad
    <3>1. CASE Reuse(s)
      BY <3>1 DEF Reuse
    <3>2. CASE CountCreated(s)
      <4>1. bad' = [bad EXCEPT ![conn[s]] = FALSE] /\ bad \in [Conns -> BOOLEAN]
        BY <3>2 DEF CountCreated, PoolInv, PoolTypeOK
      <4>2. bad[conn[s]] = FALSE
        BY <2>3, <4>1, Zenon
      <4>. QED BY <2>3, <4>1, <4>2
    <3>. QED BY <2>1, <3>1, <3>2 DEF GetReturns
  <2>5. /\ poolpc'[s] = "has" /\ pooledConn'[s] = conn[s]
        /\ \A t \in Users \ {s} : /\ poolpc'[t] = poolpc[t] /\ conn'[t] = conn[t]
                                  /\ pooledConn'[t] = pooledConn[t]
    BY <1>1, <2>1, <2>2 DEF Goto
  <2>6. Sound(s)'
    BY <2>3, <2>4, <2>5 DEF Sound
  <2>7. "send" \in SessPcs
    BY DEF SessPcs
  <2>. QED BY <1>1, <2>1, <2>4, <2>5, <2>6, <2>7, ReplyFrame, ZenonT(20)
<1>4. CASE GetConnFails(s)
  <2>1. /\ GetFails(s) /\ pooledConn' = pooledConn
        /\ sesspc' = [sesspc EXCEPT ![s] = "exit"] /\ "exit" \in SessPcs
    BY <1>4 DEF GetConnFails, GoTo, SessPcs
  <2>2. bad' = bad /\ Goto(s, "out", NoConn)
    BY <2>1 DEF GetFails, DialFails, HookFails
  <2>3. /\ poolpc'[s] = "out" /\ sesspc'[s] = "exit"
        /\ \A t \in Users \ {s} : poolpc'[t] = poolpc[t] /\ conn'[t] = conn[t]
    BY <1>1, <2>1, <2>2 DEF Goto
  <2>4. Sound(s)'
    BY <2>3 DEF Sound
  <2>. QED BY <1>1, <2>1, <2>2, <2>3, <2>4, ReplyFrame, ZenonT(20)
<1>. QED BY <1>2, <1>3, <1>4

(* Close and the end of a session touch no reply. *)
LEMMA CloseReply ==
  ASSUME PoolInv, LinkInv, ReplyInv, NEW s \in Users, CloseConn(s) \/ EndSession(s)
  PROVE  ReplyInv'
<1>1. /\ Sound(s) /\ sesspc \in [Users -> SessPcs]
      /\ pooledConn \in [Users -> Conns \cup {NoConn}]
      /\ poolpc \in [Users -> PoolPcs] /\ conn \in [Users -> Conns \cup {NoConn}]
      /\ UNCHANGED <<bad, msg, resp, toMongo, fromMongo>>
  BY ZenonT(20) DEF CloseConn, EndSession, LinkInv, ReplyInv, PoolInv, PoolTypeOK,
    PutBad, PutGood, Push
<1>2. CASE EndSession(s)
  <2>1. /\ sesspc[s] = "end" /\ UNCHANGED <<pooledConn, poolpc, conn>>
        /\ sesspc' = [sesspc EXCEPT ![s] = "closed"] /\ "closed" \in SessPcs
    BY <1>2 DEF EndSession, At, GoTo, SessPcs
  <2>2. Sound(s)'
    BY <1>1, <2>1 DEF Sound
  <2>. QED BY <1>1, <2>1, <2>2, ReplyFrame, ZenonT(20)
<1>3. CASE CloseConn(s)
  <2>1. sesspc[s] \in ClosePcs
    BY <1>3, ZenonT(20) DEF CloseConn
  <2>2. PICK q \in {"push", "out"}, c \in Conns \cup {NoConn} : Goto(s, q, c)
    BY <1>1, <1>3, ZenonT(20) DEF CloseConn, PutBad, PutGood, Push
  <2>3. /\ poolpc'[s] = q
        /\ \A t \in Users \ {s} : poolpc'[t] = poolpc[t] /\ conn'[t] = conn[t]
    BY <1>1, <2>2 DEF Goto
  <2>4. CASE UNCHANGED <<sesspc, pooledConn>>
    <3>1. Sound(s)'
      BY <1>1, <2>3, <2>4, ZenonT(20) DEF Sound
    <3>2. /\ sesspc' = [sesspc EXCEPT ![s] = sesspc[s]] /\ sesspc[s] \in SessPcs
          /\ sesspc[s] \notin {"await", "forward"}
      BY <1>1, <2>1, <2>4 DEF ClosePcs
    <3>. QED BY <1>1, <2>3, <2>4, <3>1, <3>2, ReplyFrame, ZenonT(20)
  <2>5. CASE CloseReturns(s)
    <3>1. PICK p \in {"read", "end", "exit"} :
            /\ sesspc' = [sesspc EXCEPT ![s] = p]
            /\ p = "end" <=> sesspc[s] = "exit"
      BY <2>5, ZenonT(20) DEF CloseReturns, GoTo, At
    <3>2. p \in SessPcs /\ sesspc'[s] = p
      BY <1>1, <3>1 DEF SessPcs
    <3>3. /\ \A t \in Users \ {s} : pooledConn'[t] = pooledConn[t]
          /\ sesspc[s] # "exit" => pooledConn'[s] = NoConn
      BY <1>1, <2>5 DEF CloseReturns, At
    <3>4. Sound(s)'
      BY <2>3, <3>1, <3>2, <3>3 DEF Sound
    <3>5. sesspc[s] # "await"
      BY <2>1 DEF ClosePcs
    <3>. QED BY <1>1, <2>3, <3>1, <3>2, <3>3, <3>4, <3>5, ReplyFrame, ZenonT(20)
  <2>. QED BY <1>3, <2>4, <2>5 DEF CloseConn
<1>. QED BY <1>2, <1>3

(* The session that writes to a connection or waits on it is alone with it. *)
LEMMA Alone ==
  ASSUME PoolInv, LinkInv, NEW s \in Users, sesspc[s] \in {"send", "await"}
  PROVE  /\ pooledConn[s] \in Conns /\ poolpc[s] = "has" /\ conn[s] = pooledConn[s]
         /\ \A t \in Users \ {s} :
              /\ sesspc[t] \notin {"end", "closed"} => pooledConn[t] # pooledConn[s]
              /\ poolpc[t] \in {"hook", "count"} => conn[t] # pooledConn[s]
<1>1. /\ pooledConn[s] \in Conns /\ pooledConn[s] # NoConn
      /\ poolpc[s] = "has" /\ conn[s] = pooledConn[s]
  BY PoolAssumption DEF LinkInv, Linked, ClosePcs
<1>2. ASSUME NEW t \in Users \ {s}, sesspc[t] \notin {"end", "closed"}
      PROVE  pooledConn[t] # pooledConn[s]
  BY <1>1, <1>2, OneSession, SessionHolds
<1>3. ASSUME NEW t \in Users \ {s}, poolpc[t] \in {"hook", "count"}
      PROVE  conn[t] # pooledConn[s]
  BY <1>1, <1>3, OneSession DEF Holds, Holding
<1>. QED BY <1>1, <1>2, <1>3

(* A request goes out on a quiet connection: its reply is then the only one  *)
(* under way, if it has one.                                                 *)
LEMMA SendReply ==
  ASSUME HasInterceptor, PoolInv, LinkInv, MsgInv, ReplyInv, NEW s \in Users, SendToMongo(s)
  PROVE  ReplyInv'
<1>. DEFINE c == pooledConn[s]
<1>1. /\ sesspc[s] = "send" /\ sesspc \in [Users -> SessPcs]
      /\ UNCHANGED <<bad, poolpc, conn, msg, resp, pooledConn, fromMongo>>
      /\ toMongo' = [toMongo EXCEPT ![c] = Append(@, msg[s])]
      /\ sesspc' = [sesspc EXCEPT ![s] = IF expectingResponse(msg[s]) /\ HasResponse(msg[s])
                                         THEN "await" ELSE "read"]
  BY DEF SendToMongo, At, GoTo, LinkInv
<1>2. /\ c \in Conns
      /\ \A t \in Users \ {s} : sesspc[t] \notin {"end", "closed"} => pooledConn[t] # c
  BY <1>1, Alone
<1>3. /\ \A t \in Users \ {s} : sesspc'[t] = sesspc[t]
      /\ \A d \in Conns \ {c} : toMongo'[d] = toMongo[d]
      /\ toMongo'[c] = Append(toMongo[c], msg[s])
  BY <1>1, <1>2 DEF MsgInv
<1>4. /\ msg[s] \in Messages /\ msg[s].left \in {0, 1} /\ toMongo[c] \in Seq(Messages)
      /\ msg[s].left = 1 => HasResponse(msg[s])
  BY <1>1, <1>2, ZenonT(20) DEF MsgInv, Single, Messages
<1>5. sesspc'[s] = IF msg[s].left = 1 THEN "await" ELSE "read"
  BY <1>1, <1>4 DEF expectingResponse
<1>6. Quiet(c)
  <2>1. ~bad[c]
    BY <1>1, <1>2, PoolAssumption DEF ReplyInv, Sound
  <2>2. \A t \in Users : sesspc[t] = "await" => pooledConn[t] # c
    BY <1>1, <1>2
  <2>. QED BY <1>2, <2>1, <2>2, ZenonT(20) DEF ReplyInv
<1>. HIDE DEF c
<1>7. ASSUME NEW t \in Users PROVE Sound(t)'
  BY <1>1, <1>3, <1>5, ZenonT(20) DEF ReplyInv, Sound
<1>8. ASSUME NEW t \in Users, sesspc'[t] = "await" PROVE Awaits(t, pooledConn[t])'
  <2>1. CASE t = s
    <3>1. msg[s].left = 1 /\ pooledConn'[s] = c /\ msg'[s] = msg[s] /\ fromMongo'[c] = fromMongo[c]
      BY <1>1, <1>4, <1>5, <1>8, <2>1 DEF c
    <3>2. /\ toMongo'[c] # <<>> /\ Len(toMongo'[c]) = Len(toMongo[c]) + 1
          /\ toMongo'[c][Len(toMongo'[c])] = msg[s]
          /\ \A i \in 1..Len(toMongo[c]) : toMongo'[c][i] = toMongo[c][i]
      BY <1>3, <1>4
    <3>3. \A i \in 1..Len(toMongo[c]) : toMongo[c][i].left = 0
      BY <1>4, <1>6 DEF Quiet
    <3>4. Len(toMongo'[c]) - 1 = Len(toMongo[c])
      BY <1>4, <3>2
    <3>5. fromMongo'[c] = <<>>
      BY <1>6, <3>1, ZenonT(20) DEF Quiet
    <3>. QED BY <2>1, <3>1, <3>2, <3>3, <3>4, <3>5 DEF Awaits
  <2>2. CASE t # s
    <3>1. sesspc[t] = "await" /\ pooledConn[t] # c /\ pooledConn[t] \in Conns
      BY <1>2, <1>3, <1>8, <2>2, ZenonT(20) DEF LinkInv, Linked
    <3>2. Awaits(t, pooledConn[t])
      BY <3>1, ZenonT(20) DEF ReplyInv
    <3>3. /\ pooledConn' = pooledConn /\ msg' = msg /\ fromMongo' = fromMongo
          /\ toMongo'[pooledConn[t]] = toMongo[pooledConn[t]]
      BY <1>1, <1>3, <3>1, ZenonT(20)
    <3>. QED BY <3>2, <3>3, ZenonT(20) DEF Awaits, ReplyTo
  <2>. QED BY <2>1, <2>2
<1>9. ASSUME NEW t \in Users, sesspc'[t] = "forward" PROVE resp'[t] = ReplyTo(msg[t])'
  BY <1>1, <1>3, <1>5, <1>9 DEF ReplyInv, ReplyTo
<1>10. ASSUME NEW d \in Conns, ~bad'[d],
              \A t \in Users : sesspc'[t] = "await" => pooledConn'[t] # d
       PROVE  Quiet(d)'
  <2>1. CASE d = c
    <3>1. msg[s].left = 0
      BY <1>1, <1>4, <1>5, <1>10, <2>1 DEF c
    <3>2. fromMongo'[c] = <<>>
      BY <1>1, <1>6, ZenonT(20) DEF Quiet
    <3>3. \A i \in DOMAIN toMongo'[c] : toMongo'[c][i].left = 0
      <4>1. \A i \in 1..Len(toMongo[c]) : toMongo[c][i].left = 0
        BY <1>4, <1>6 DEF Quiet
      <4>2. /\ DOMAIN toMongo'[c] = 1..(Len(toMongo[c]) + 1)
            /\ toMongo'[c][Len(toMongo[c]) + 1] = msg[s]
            /\ \A i \in 1..Len(toMongo[c]) : toMongo'[c][i] = toMongo[c][i]
        BY <1>3, <1>4
      <4>3. \A i \in 1..(Len(toMongo[c]) + 1) :
              i \in 1..Len(toMongo[c]) \/ i = Len(toMongo[c]) + 1
        BY <1>4
      <4>. QED BY <3>1, <4>1, <4>2, <4>3, ZenonT(20)
    <3>. QED BY <2>1, <3>2, <3>3, ZenonT(20) DEF Quiet
  <2>2. CASE d # c
    <3>1. \A t \in Users : sesspc[t] = "await" => pooledConn[t] # d
      BY <1>1, <1>3, <1>10
    <3>2. Quiet(d)
      BY <1>1, <1>10, <3>1, ZenonT(20) DEF ReplyInv
    <3>. QED BY <1>1, <1>3, <2>2, <3>2 DEF Quiet
  <2>. QED BY <2>1, <2>2
<1>. QED BY <1>7, <1>8, <1>9, <1>10, ZenonT(20) DEF ReplyInv

(* An error of the socket marks the connection, which nobody else uses. *)
LEMMA FailReply ==
  ASSUME PoolInv, LinkInv, ReplyInv, NEW s \in Users, SendFails(s) \/ ReadReplyFails(s)
  PROVE  ReplyInv'
<1>. DEFINE c == pooledConn[s]
<1>1. /\ sesspc[s] \in {"send", "await"} /\ sesspc \in [Users -> SessPcs]
      /\ bad' = [bad EXCEPT ![c] = TRUE] /\ bad \in [Conns -> BOOLEAN]
      /\ UNCHANGED <<poolpc, conn, msg, resp, pooledConn, toMongo, fromMongo>>
  BY DEF SendFails, ReadReplyFails, At, MarkBad, LinkInv, PoolInv, PoolTypeOK
<1>2. /\ c \in Conns /\ poolpc[s] = "has"
      /\ \A t \in Users \ {s} :
              /\ sesspc[t] \notin {"end", "closed"} => pooledConn[t] # c
              /\ poolpc[t] \in {"hook", "count"} => conn[t] # c
  BY <1>1, Alone, ZenonT(20)
<1>3. /\ \A t \in Users \ {s} : sesspc'[t] = sesspc[t]
      /\ sesspc'[s] \in {"exit", "deferErr"}
  BY <1>1, ZenonT(20) DEF SendFails, ReadReplyFails, GoTo
<1>4. bad'[c] /\ \A d \in Conns : d # c => bad'[d] = bad[d]
  BY <1>1, <1>2, ZenonT(20)
<1>5. ASSUME NEW t \in Users PROVE Sound(t)'
  <2>1. CASE t = s
    BY <1>1, <1>2, <1>3, <2>1, ZenonT(20) DEF Sound
  <2>2. CASE t # s
    <3>1. /\ pooledConn[t] # NoConn => pooledConn[t] \in Conns
          /\ poolpc[t] \in {"hook", "count"} => conn[t] \in Conns
      BY ZenonT(20) DEF LinkInv, PoolInv, HeldSound, Holding
    <3>. QED BY <1>1, <1>2, <1>3, <1>4, <2>2, <3>1, ZenonT(20) DEF ReplyInv, Sound
  <2>. QED BY <2>1, <2>2
<1>6. ASSUME NEW t \in Users, sesspc'[t] = "await" PROVE Awaits(t, pooledConn[t])'
  <2>1. sesspc[t] = "await"
    BY <1>3, <1>6
  <2>2. Awaits(t, pooledConn[t])
    BY <2>1, ZenonT(20) DEF ReplyInv
  <2>. QED BY <1>1, <2>2, ZenonT(20) DEF Awaits, ReplyTo
<1>7. ASSUME NEW t \in Users, sesspc'[t] = "forward" PROVE resp'[t] = ReplyTo(msg[t])'
  BY <1>1, <1>3, <1>7 DEF ReplyInv, ReplyTo
<1>8. ASSUME NEW d \in Conns, ~bad'[d],
             \A t \in Users : sesspc'[t] = "await" => pooledConn'[t] # d
      PROVE  Quiet(d)'
  <2>1. d # c /\ ~bad[d]
    BY <1>4, <1>8, ZenonT(20)
  <2>2. \A t \in Users : sesspc[t] = "await" => pooledConn[t] # d
    BY <1>1, <1>3, <1>8, <2>1, ZenonT(20)
  <2>3. Quiet(d)
    BY <2>1, <2>2 DEF ReplyInv
  <2>. QED BY <1>1, <2>3 DEF Quiet
<1>. QED BY <1>5, <1>6, <1>7, <1>8, ZenonT(20) DEF ReplyInv

(* A queue of one reply. *)
LEMMA OneFacts ==
  ASSUME NEW e
  PROVE  Head(<<e>>) = e /\ Tail(<<e>>) = <<>>
  OBVIOUS

(* What a session reads is the reply it waits for, and the last. *)
LEMMA ReadReplyReply ==
  ASSUME PoolInv, LinkInv, MsgInv, ReplyInv, NEW s \in Users, ReadReply(s)
  PROVE  ReplyInv'
<1>. DEFINE c == pooledConn[s]
<1>1. /\ sesspc[s] = "await" /\ sesspc \in [Users -> SessPcs]
      /\ fromMongo[c] # <<>>
      /\ resp' = [resp EXCEPT ![s] = Head(fromMongo[c])]
      /\ fromMongo' = [fromMongo EXCEPT ![c] = Tail(@)]
      /\ sesspc' = [sesspc EXCEPT ![s] = "forward"]
      /\ UNCHANGED <<bad, poolpc, conn, msg, pooledConn, toMongo>>
  BY DEF ReadReply, At, GoTo, LinkInv, poolVars
<1>2. /\ c \in Conns
      /\ \A t \in Users \ {s} : sesspc[t] \notin {"end", "closed"} => pooledConn[t] # c
  BY <1>1, Alone, ZenonT(20)
<1>3. toMongo[c] = <<>> /\ fromMongo[c] = <<ReplyTo(msg[s])>>
  BY <1>1, ZenonT(20) DEF ReplyInv, Awaits
<1>4. Head(fromMongo[c]) = ReplyTo(msg[s]) /\ Tail(fromMongo[c]) = <<>>
  BY <1>3, OneFacts, ZenonT(20)
<1>5. /\ \A t \in Users \ {s} : sesspc'[t] = sesspc[t]
      /\ sesspc'[s] = "forward"
      /\ \A d \in Conns \ {c} : fromMongo'[d] = fromMongo[d]
      /\ fromMongo'[c] = <<>>
  BY <1>1, <1>2, <1>4 DEF MsgInv
<1>. HIDE DEF c
<1>6. ASSUME NEW t \in Users PROVE Sound(t)'
  BY <1>1, <1>5, ZenonT(20) DEF ReplyInv, Sound
<1>7. ASSUME NEW t \in Users, sesspc'[t] = "await" PROVE Awaits(t, pooledConn[t])'
  <2>1. t # s /\ sesspc[t] = "await"
    BY <1>5, <1>7, ZenonT(20)
  <2>2. pooledConn[t] # c /\ pooledConn[t] \in Conns
    BY <1>2, <2>1, ZenonT(20) DEF LinkInv, Linked
  <2>3. Awaits(t, pooledConn[t])
    BY <2>1, ZenonT(20) DEF ReplyInv
  <2>4. /\ pooledConn' = pooledConn /\ msg' = msg /\ toMongo' = toMongo
        /\ fromMongo'[pooledConn[t]] = fromMongo[pooledConn[t]]
    BY <1>1, <1>5, <2>2
  <2>. QED BY <2>3, <2>4, ZenonT(20) DEF Awaits, ReplyTo
<1>8. ASSUME NEW t \in Users, sesspc'[t] = "forward" PROVE resp'[t] = ReplyTo(msg[t])'
  <2>1. CASE t = s
    <3>1. resp'[s] = ReplyTo(msg[s])
      BY <1>1, <1>4 DEF MsgInv
    <3>2. msg'[s] = msg[s]
      BY <1>1, ZenonT(20)
    <3>. QED BY <2>1, <3>1, <3>2, ZenonT(20) DEF ReplyTo
  <2>2. CASE t # s
    <3>1. resp'[t] = resp[t]
      BY <1>1, <2>2 DEF MsgInv
    <3>2. sesspc[t] = "forward" /\ msg'[t] = msg[t]
      BY <1>1, <1>5, <1>8, <2>2, ZenonT(20)
    <3>3. resp[t] = ReplyTo(msg[t])
      BY <3>2, ZenonT(20) DEF ReplyInv
    <3>. QED BY <3>1, <3>2, <3>3, ZenonT(20) DEF ReplyTo
  <2>. QED BY <2>1, <2>2
<1>9. ASSUME NEW d \in Conns, ~bad'[d],
             \A t \in Users : sesspc'[t] = "await" => pooledConn'[t] # d
      PROVE  Quiet(d)'
  <2>1. CASE d = c
    <3>1. DOMAIN toMongo'[c] = {}
      <4>1. toMongo'[c] = <<>>
        BY <1>1, <1>3, ZenonT(20)
      <4>. QED BY <4>1
    <3>. QED BY <1>5, <2>1, <3>1, ZenonT(20) DEF Quiet
  <2>2. CASE d # c
    <3>1. \A t \in Users : sesspc[t] = "await" => pooledConn[t] # d
      BY <1>1, <1>5, <1>9, <2>2, ZenonT(20) DEF c
    <3>2. Quiet(d)
      BY <1>1, <1>9, <3>1, ZenonT(20) DEF ReplyInv
    <3>. QED BY <1>1, <1>5, <2>2, <3>2, ZenonT(20) DEF Quiet
  <2>. QED BY <2>1, <2>2
<1>. QED BY <1>6, <1>7, <1>8, <1>9, ZenonT(20) DEF ReplyInv

(* A queue that is not empty has a first element. *)
LEMMA FirstFacts ==
  ASSUME NEW S, NEW q \in Seq(S), q # <<>>
  PROVE  1 \in DOMAIN q
  OBVIOUS

(* What mongod leaves of the requests of a connection when it takes one. *)
LEMMA RestFacts ==
  ASSUME NEW S, NEW q \in Seq(S), q # <<>>
  PROVE  /\ Tail(q) \in Seq(S) /\ Len(Tail(q)) = Len(q) - 1 /\ Len(q) \in Nat \ {0}
         /\ \A i \in DOMAIN Tail(q) : /\ i \in 1..(Len(q) - 1) /\ i + 1 \in DOMAIN q
                                      /\ Tail(q)[i] = q[i + 1]
         /\ Len(q) = 1 => Tail(q) = <<>>
         /\ Len(q) # 1 => /\ 1 \in 1..(Len(q) - 1) /\ Tail(q) # <<>>
                          /\ Tail(q)[Len(Tail(q))] = q[Len(q)]
         /\ \A i \in 1..(Len(Tail(q)) - 1) : i + 1 \in 1..(Len(q) - 1) /\ Tail(q)[i] = q[i + 1]
<1>1. /\ Tail(q) \in Seq(S) /\ Len(Tail(q)) = Len(q) - 1 /\ Len(q) \in Nat \ {0}
      /\ \A i \in 1..(Len(q) - 1) : Tail(q)[i] = q[i + 1]
  OBVIOUS
<1>2. DOMAIN Tail(q) = 1..(Len(q) - 1) /\ DOMAIN q = 1..Len(q)
  BY <1>1
<1>3. Len(q) = 1 => Tail(q) = <<>>
  <2>1. SUFFICES ASSUME Len(q) = 1 PROVE Tail(q) = <<>>
    OBVIOUS
  <2>2. Len(Tail(q)) = 0
    BY <1>1, <2>1
  <2>3. ASSUME NEW r \in Seq(S), Len(r) = 0 PROVE r = <<>>
    BY <2>3
  <2>. QED BY <1>1, <2>2, <2>3, ZenonT(20)
<1>4. Len(q) # 1 => /\ 1 \in 1..(Len(q) - 1) /\ Tail(q) # <<>>
                    /\ Tail(q)[Len(Tail(q))] = q[Len(q)]
  BY <1>1, SMTT(40)
<1>5. \A i \in 1..(Len(Tail(q)) - 1) : i + 1 \in 1..(Len(q) - 1) /\ Tail(q)[i] = q[i + 1]
  BY <1>1
<1>6. \A i \in DOMAIN Tail(q) : /\ i \in 1..(Len(q) - 1) /\ i + 1 \in DOMAIN q
                                /\ Tail(q)[i] = q[i + 1]
  BY <1>1, <1>2
<1>. QED BY <1>1, <1>3, <1>4, <1>5, <1>6

(* mongod answers the request that is waited for after those that are not,   *)
(* and writes nothing for these.                                             *)
LEMMA ServeReply ==
  ASSUME PoolInv, LinkInv, MsgInv, ReplyInv, NEW c \in Conns, MongoServes(c)
  PROVE  ReplyInv'
<1>. DEFINE m == Head(toMongo[c])
<1>1. /\ m \in Messages /\ m = toMongo[c][1] /\ toMongo[c] # <<>>
      /\ toMongo' = [toMongo EXCEPT ![c] = Tail(@)]
      /\ m.left = 0 => fromMongo' = fromMongo
      /\ m.left = 1 => fromMongo' = [fromMongo EXCEPT ![c] = Append(@, ReplyTo(m))]
      /\ UNCHANGED <<sesspc, msg, resp, pooledConn>>
      /\ UNCHANGED <<bad, poolpc, conn>>
  BY ServeFacts DEF poolVars
<1>2. m.left \in {0, 1} /\ toMongo[c] \in Seq(Messages)
  BY <1>1, ZenonT(20) DEF Messages, MsgInv
<1>. HIDE DEF m
<1>3. /\ toMongo'[c] = Tail(toMongo[c])
      /\ \A d \in Conns \ {c} : toMongo'[d] = toMongo[d] /\ fromMongo'[d] = fromMongo[d]
      /\ m.left = 0 => fromMongo'[c] = fromMongo[c]
      /\ m.left = 1 => fromMongo'[c] = Append(fromMongo[c], ReplyTo(m))
  BY <1>1, <1>2 DEF MsgInv
<1>4. /\ Len(toMongo[c]) = 1 => Tail(toMongo[c]) = <<>>
      /\ Len(toMongo[c]) # 1 =>
           /\ 1 \in 1..(Len(toMongo[c]) - 1) /\ Tail(toMongo[c]) # <<>>
           /\ Tail(toMongo[c])[Len(Tail(toMongo[c]))] = toMongo[c][Len(toMongo[c])]
      /\ \A i \in 1..(Len(Tail(toMongo[c])) - 1) :
           i + 1 \in 1..(Len(toMongo[c]) - 1) /\ Tail(toMongo[c])[i] = toMongo[c][i + 1]
      /\ \A i \in DOMAIN Tail(toMongo[c]) :
           i + 1 \in DOMAIN toMongo[c] /\ Tail(toMongo[c])[i] = toMongo[c][i + 1]
  <2>. DEFINE q == toMongo[c]
  <2>1. q \in Seq(Messages) /\ q # <<>>
    BY <1>1, <1>2
  <2>. HIDE DEF q
  <2>2. /\ Len(q) = 1 => Tail(q) = <<>>
        /\ Len(q) # 1 =>
             /\ 1 \in 1..(Len(q) - 1) /\ Tail(q) # <<>>
             /\ Tail(q)[Len(Tail(q))] = q[Len(q)]
        /\ \A i \in 1..(Len(Tail(q)) - 1) :
             i + 1 \in 1..(Len(q) - 1) /\ Tail(q)[i] = q[i + 1]
        /\ \A i \in DOMAIN Tail(q) :
             i + 1 \in DOMAIN q /\ Tail(q)[i] = q[i + 1]
    BY <2>1, RestFacts, ZenonT(20)
  <2>. QED BY <2>2, ZenonT(20) DEF q
<1>5. ASSUME NEW t \in Users PROVE Sound(t)'
  BY <1>1 DEF ReplyInv, Sound
<1>6. ASSUME NEW t \in Users, sesspc'[t] = "await" PROVE Awaits(t, pooledConn[t])'
  <2>1. sesspc[t] = "await" /\ Awaits(t, pooledConn[t]) /\ pooledConn[t] \in Conns
    BY <1>1, <1>6, ZenonT(20) DEF ReplyInv, LinkInv, Linked
  <2>2. CASE pooledConn[t] # c
    <3>1. /\ toMongo'[pooledConn[t]] = toMongo[pooledConn[t]]
          /\ fromMongo'[pooledConn[t]] = fromMongo[pooledConn[t]]
      BY <1>3, <2>1, <2>2
    <3>2. pooledConn'[t] = pooledConn[t] /\ msg'[t] = msg[t]
      BY <1>1
    <3>. QED BY <2>1, <3>1, <3>2, ZenonT(20) DEF Awaits, ReplyTo
  <2>3. CASE pooledConn[t] = c
    <3>1. /\ fromMongo[c] = <<>> /\ toMongo[c][Len(toMongo[c])] = msg[t] /\ msg[t].left = 1
          /\ \A i \in 1..(Len(toMongo[c]) - 1) : toMongo[c][i].left = 0
      BY <1>1, <2>1, <2>3, ZenonT(20) DEF Awaits
    <3>2. CASE Len(toMongo[c]) = 1
      <4>1. m = msg[t] /\ m.left = 1
        BY <1>1, <3>1, <3>2
      <4>2. fromMongo'[c] = <<ReplyTo(msg[t])>>
        BY <1>3, <3>1, <4>1
      <4>3. toMongo'[c] = <<>>
        BY <1>3, <1>4, <3>2
      <4>4. pooledConn'[t] = c /\ msg'[t] = msg[t]
        BY <1>1, <2>3, ZenonT(20)
      <4>. QED BY <4>2, <4>3, <4>4, ZenonT(20) DEF Awaits, ReplyTo
    <3>3. CASE Len(toMongo[c]) # 1
      <4>1. m.left = 0
        BY <1>1, <1>4, <3>1, <3>3
      <4>2. fromMongo'[c] = <<>>
        BY <1>3, <3>1, <4>1, ZenonT(20)
      <4>3. toMongo'[c][Len(toMongo'[c])] = msg[t] /\ toMongo'[c] # <<>>
        BY <1>3, <1>4, <3>1, <3>3
      <4>4. \A i \in 1..(Len(toMongo'[c]) - 1) : toMongo'[c][i].left = 0
        BY <1>3, <1>4, <3>1
      <4>5. pooledConn'[t] = c /\ msg'[t] = msg[t]
        BY <1>1, <2>3
      <4>. QED BY <3>1, <4>2, <4>3, <4>4, <4>5, ZenonT(20) DEF Awaits
    <3>. QED BY <3>2, <3>3, ZenonT(20)
  <2>. QED BY <2>2, <2>3
<1>7. ASSUME NEW t \in Users, sesspc'[t] = "forward" PROVE resp'[t] = ReplyTo(msg[t])'
  BY <1>1, <1>7, ZenonT(20) DEF ReplyInv, ReplyTo
<1>8. ASSUME NEW d \in Conns, ~bad'[d],
             \A t \in Users : sesspc'[t] = "await" => pooledConn'[t] # d
      PROVE  Quiet(d)'
  <2>1. Quiet(d)
    BY <1>1, <1>8, ZenonT(20) DEF ReplyInv
  <2>2. CASE d # c
    BY <1>3, <2>1, <2>2, ZenonT(20) DEF Quiet
  <2>3. CASE d = c
    <3>1. m.left = 0
      <4>1. 1 \in DOMAIN toMongo[c]
        BY <1>1, <1>2, FirstFacts, ZenonT(20)
      <4>2. toMongo[c][1].left = 0
        BY <2>1, <2>3, <4>1, ZenonT(20) DEF Quiet
      <4>. QED BY <1>1, <4>2, ZenonT(20)
    <3>2. fromMongo'[c] = <<>>
      BY <1>3, <2>1, <2>3, <3>1, ZenonT(20) DEF Quiet
    <3>3. ASSUME NEW i \in DOMAIN toMongo'[c] PROVE toMongo'[c][i].left = 0
      <4>1. i + 1 \in DOMAIN toMongo[c] /\ toMongo'[c][i] = toMongo[c][i + 1]
        BY <1>3, <1>4, <3>3
      <4>. QED BY <2>1, <2>3, <4>1 DEF Quiet
    <3>. QED BY <2>3, <3>2, <3>3 DEF Quiet
  <2>. QED BY <2>2, <2>3, ZenonT(20)
<1>. QED BY <1>5, <1>6, <1>7, <1>8 DEF ReplyInv

-----------------------------------------------------------------------------
(* Every step of the proxy keeps the replies where they belong. *)
LEMMA ReplyStep ==
  ASSUME HasInterceptor, "exhaust" \notin Kinds, PoolInv, LinkInv, MsgInv, ReplyInv, [Next]_vars
  PROVE  ReplyInv'
<1>1. CASE UNCHANGED vars \/ (Tick /\ UNCHANGED proxyVars)
  <2>1. UNCHANGED <<bad, poolpc, conn, proxyVars>>
    BY <1>1 DEF vars, poolVars, Tick
  <2>. QED BY <2>1, ZenonT(20) DEF proxyVars, ReplyInv, Sound, Awaits, ReplyTo, Quiet
<1>2. CASE \E c \in Conns : MongoServes(c)
  BY <1>2, ServeReply
<1>3. ASSUME NEW s \in Users,
             SessionStep(s) \/ ReadRequest(s) \/ ReadFails(s) \/ ReadReplyFails(s)
      PROVE  ReplyInv'
  <2>1. CASE ReadReply(s)
    BY <2>1, ReadReplyReply
  <2>2. CASE Outside(s) /\ ~ReadReply(s)
    BY <2>2, OutsideReply
  <2>3. CASE CallGet(s) \/ GetConn(s) \/ GetConnFails(s)
    BY <2>3, GetReply
  <2>4. CASE SendToMongo(s)
    BY <2>4, SendReply
  <2>5. CASE SendFails(s) \/ ReadReplyFails(s)
    BY <2>5, FailReply
  <2>6. CASE CloseConn(s) \/ EndSession(s)
    BY <2>6, CloseReply
  <2>. QED BY <1>3, <2>1, <2>2, <2>3, <2>4, <2>5, <2>6 DEF SessionStep, Outside
<1>. QED BY <1>1, <1>2, <1>3 DEF Next
=============================================================================
