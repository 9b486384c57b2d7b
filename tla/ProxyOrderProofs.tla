-------------------------- MODULE ProxyOrderProofs --------------------------
(***************************************************************************)
(* Every step of Proxy keeps the types of what travels between sessions    *)
(* and mongod and, without exhaust queries, the order of the requests of   *)
(* each session.                                                           *)
(***************************************************************************)
EXTENDS ProxyReplyProofs

(* What a client may send, and an interceptor put in its place. *)
LEMMA RequestTyped ==
  ASSUME NEW s \in Users, NEW n \in 1..MaxRequests, NEW m \in Requests(s, n)
  PROVE  m \in SentMessages /\ m.by = s /\ m.num = n
<1>1. PICK k \in Kinds : m \in [by: {s}, num: {n}, kind: {k}, left: Replies(k)]
  BY DEF Requests
<1>2. Replies(k) \subseteq 0..MaxBatches
  BY ProxyAssumption DEF Replies
<1>3. m \in [by: Users, num: 1..MaxRequests, kind: Kinds, left: 0..MaxBatches]
  BY <1>1, <1>2
<1>. QED BY <1>1, <1>3 DEF SentMessages

(* Nothing travels when the proxy starts. *)
LEMMA TypeInit == Init => TypeInv
  BY ProxyAssumption DEF Init, TypeInv, Sending

(* A step of sessions and of mongod that reads no request. *)
LEMMA TypeFrame ==
  ASSUME TypeInv, UNCHANGED <<nsent, msg>>,
         served' \in [Users -> 0..MaxRequests],
         toMongo' \in [Conns -> Seq(SentMessages)],
         fromMongo' \in [Conns -> Seq(SentReplies)],
         resp' \in [Users -> SentReplies \cup {None}],
         \A t \in Users : sesspc'[t] \in Sending => sesspc[t] \in Sending
  PROVE  TypeInv'
  BY DEF TypeInv, Requests, Replies

(* A new request, or one that the interceptor puts in its place. *)
LEMMA TypeRead ==
  ASSUME LinkInv, TypeInv, NEW s \in Users,
         ReadRequest(s) \/ InterceptPasses(s) \/ InterceptRefuses(s)
  PROVE  TypeInv'
<1>1. PICK n \in 1..MaxRequests :
        /\ nsent' = [nsent EXCEPT ![s] = n]
        /\ \E m \in Requests(s, n) : msg' = [msg EXCEPT ![s] = m]
  <2>1. CASE ReadRequest(s)
    <3>1. nsent[s] + 1 \in 1..MaxRequests
      BY <2>1, ProxyAssumption DEF TypeInv, ReadRequest
    <3>. QED BY <2>1, <3>1, ZenonT(20) DEF ReadRequest
  <2>2. CASE InterceptPasses(s) \/ InterceptRefuses(s)
    <3>1. nsent[s] \in 1..MaxRequests
      BY <2>2, ProxyAssumption DEF InterceptPasses, InterceptRefuses, At, Sending, TypeInv
    <3>2. nsent' = [nsent EXCEPT ![s] = nsent[s]]
      BY <2>2 DEF InterceptPasses, InterceptRefuses, TypeInv
    <3>. QED BY <2>2, <3>1, <3>2, ZenonT(20) DEF InterceptPasses, InterceptRefuses
  <2>. QED BY <2>1, <2>2
<1>2. PICK m \in Requests(s, n) : msg' = [msg EXCEPT ![s] = m]
  BY <1>1, ZenonT(20)
<1>3. m \in SentMessages
  BY <1>1, RequestTyped
<1>4. /\ nsent' \in [Users -> 0..MaxRequests] /\ msg' \in [Users -> SentMessages \cup {None}]
      /\ msg'[s] = m /\ nsent'[s] = n /\ n > 0
      /\ \A t \in Users \ {s} : msg'[t] = msg[t] /\ nsent'[t] = nsent[t]
  BY <1>1, <1>2, <1>3, ProxyAssumption DEF TypeInv
<1>5. UNCHANGED <<served, resp, toMongo, fromMongo>>
  BY DEF ReadRequest, InterceptPasses, InterceptRefuses
<1>6. \A t \in Users \ {s} : sesspc'[t] = sesspc[t]
  BY DEF ReadRequest, InterceptPasses, InterceptRefuses, GoTo, LinkInv
<1>7. ASSUME NEW t \in Users
      PROVE  /\ msg'[t] # None => msg'[t] \in Requests(t, nsent'[t])
             /\ sesspc'[t] \in Sending => nsent'[t] > 0 /\ msg'[t] \in Requests(t, nsent'[t])
  <2>1. CASE t = s
    BY <1>2, <1>4, <2>1
  <2>2. CASE t # s
    BY <1>4, <1>6, <2>2, ZenonT(20) DEF TypeInv
  <2>. QED BY <2>1, <2>2
<1>8. \A t \in Users, k \in 0..MaxRequests : Requests(t, k)' = Requests(t, k)
  BY DEF Requests, Replies
<1>. QED BY <1>4, <1>5, <1>7 DEF TypeInv, Requests, Replies

(* The request is written to mongod. *)
LEMMA TypeSend ==
  ASSUME LinkInv, TypeInv, NEW s \in Users, SendToMongo(s)
  PROVE  TypeInv'
<1>1. /\ sesspc[s] = "send" /\ UNCHANGED <<nsent, msg, resp, fromMongo, served>>
      /\ toMongo' = [toMongo EXCEPT ![pooledConn[s]] = Append(@, msg[s])]
  BY DEF SendToMongo, At
<1>2. pooledConn[s] \in Conns
  BY <1>1 DEF LinkInv, Linked
<1>3. nsent[s] \in 1..MaxRequests /\ msg[s] \in Requests(s, nsent[s])
  BY <1>1, ProxyAssumption DEF TypeInv, Sending
<1>4. msg[s] \in SentMessages
  BY <1>3, RequestTyped
<1>5. toMongo' \in [Conns -> Seq(SentMessages)]
  BY <1>1, <1>2, <1>4 DEF TypeInv
<1>6. \A t \in Users : sesspc'[t] \in Sending => sesspc[t] \in Sending
  BY DEF SendToMongo, GoTo, LinkInv, Sending
<1>. QED BY <1>1, <1>5, <1>6, TypeFrame DEF TypeInv

(* The reply is read from mongod. *)
LEMMA TypeReply ==
  ASSUME LinkInv, TypeInv, NEW s \in Users, ReadReply(s)
  PROVE  TypeInv'
<1>1. /\ sesspc[s] = "await" /\ UNCHANGED <<nsent, msg, toMongo, served>>
      /\ fromMongo[pooledConn[s]] # <<>>
      /\ resp' = [resp EXCEPT ![s] = Head(fromMongo[pooledConn[s]])]
      /\ fromMongo' = [fromMongo EXCEPT ![pooledConn[s]] = Tail(@)]
  BY DEF ReadReply, At
<1>2. pooledConn[s] \in Conns
  BY <1>1 DEF LinkInv, Linked
<1>3. fromMongo' \in [Conns -> Seq(SentReplies)]
  BY <1>1, <1>2 DEF TypeInv
<1>4. resp' \in [Users -> SentReplies \cup {None}]
  <2>1. Head(fromMongo[pooledConn[s]]) \in SentReplies
    BY <1>1, <1>2 DEF TypeInv
  <2>. QED BY <1>1, <2>1 DEF TypeInv
<1>5. \A t \in Users : sesspc'[t] \in Sending => sesspc[t] \in Sending
  BY DEF ReadReply, GoTo, LinkInv, Sending
<1>. QED BY <1>1, <1>3, <1>4, <1>5, TypeFrame DEF TypeInv

(* A queue whose first element is replaced. *)
LEMMA FirstReplaced ==
  ASSUME NEW S, NEW q \in Seq(S), NEW z \in S
  PROVE  [q EXCEPT ![1] = z] \in Seq(S)
<1>1. q \in [1..Len(q) -> S] /\ Len(q) \in Nat
  OBVIOUS
<1>2. [q EXCEPT ![1] = z] \in [1..Len(q) -> S]
  BY <1>1, ZenonT(20)
<1>3. \A n \in Nat : \A f \in [1..n -> S] : f \in Seq(S)
  OBVIOUS
<1>. QED BY <1>1, <1>2, <1>3, ZenonT(20)

(* mongod takes a request, or sends the next reply to it. *)
LEMMA TypeServe ==
  ASSUME TypeInv, NEW c \in Conns, MongoServes(c)
  PROVE  TypeInv'
<1>. DEFINE m == Head(toMongo[c])
            q == toMongo[c]
            r == [q EXCEPT ![1] = OneLess(m)]
<1>1. /\ q # <<>> /\ q \in Seq(SentMessages)
      /\ served' = [served EXCEPT ![m.by] = m.num]
      /\ fromMongo' = IF m.left = 0 THEN fromMongo
                      ELSE [fromMongo EXCEPT ![c] = Append(@, ReplyTo(m))]
      /\ toMongo' = [toMongo EXCEPT ![c] = IF m.left > 1 THEN r ELSE Tail(q)]
      /\ UNCHANGED <<sesspc, nsent, msg, resp>>
  BY DEF MongoServes, TypeInv
<1>2. m \in SentMessages /\ m = q[1] /\ 1 \in 1..Len(q)
  BY <1>1
<1>3. /\ m.by \in Users /\ m.num \in 1..MaxRequests /\ m.left \in 0..MaxBatches
      /\ m.kind \in Kinds
  BY <1>2 DEF SentMessages
<1>. HIDE DEF m
<1>4. served' \in [Users -> 0..MaxRequests]
  BY <1>1, <1>3, ProxyAssumption DEF TypeInv
<1>5. fromMongo' \in [Conns -> Seq(SentReplies)]
  <2>1. m.left # 0 => ReplyTo(m) \in SentReplies
    BY <1>3, ProxyAssumption DEF ReplyTo, SentReplies
  <2>. QED BY <1>1, <2>1 DEF TypeInv
<1>6. toMongo' \in [Conns -> Seq(SentMessages)]
  <2>1. Tail(q) \in Seq(SentMessages)
    BY <1>1
  <2>2. m.left > 1 => r \in Seq(SentMessages)
    <3>1. SUFFICES ASSUME m.left > 1 PROVE OneLess(m) \in SentMessages
      <4>. HIDE DEF q
      <4>. QED BY <1>1, FirstReplaced
    <3>2. m.left - 1 \in 0..MaxBatches
      BY <1>3, <3>1, ProxyAssumption
    <3>. QED BY <1>2, <3>2 DEF SentMessages, OneLess
  <2>. HIDE DEF r, q
  <2>. QED BY <1>1, <2>1, <2>2 DEF TypeInv
<1>. QED BY <1>1, <1>4, <1>5, <1>6, TypeFrame DEF TypeInv

(* Every step keeps the types. *)
LEMMA TypeStep ==
  ASSUME LinkInv, TypeInv, [Next]_vars
  PROVE  TypeInv'
<1>1. CASE UNCHANGED proxyVars
  BY <1>1, TypeFrame DEF proxyVars, TypeInv
<1>2. CASE \E c \in Conns : MongoServes(c)
  BY <1>2, TypeServe
<1>3. ASSUME NEW s \in Users,
             SessionStep(s) \/ ReadRequest(s) \/ ReadFails(s) \/ ReadReplyFails(s)
      PROVE  TypeInv'
  <2>1. CASE ReadRequest(s) \/ InterceptPasses(s) \/ InterceptRefuses(s)
    BY <2>1, TypeRead
  <2>2. CASE SendToMongo(s)
    BY <2>2, TypeSend
  <2>3. CASE ReadReply(s)
    BY <2>3, TypeReply
  <2>4. CASE CallGet(s)
    BY <2>4, <1>1 DEF CallGet
  <2>5. CASE \/ CreateWorker(s) \/ ReadFails(s) \/ InterceptAnswers(s) \/ InterceptFails(s)
             \/ KeepConn(s) \/ GetConn(s) \/ GetConnFails(s) \/ SendFails(s)
             \/ ReadReplyFails(s) \/ ForwardReply(s) \/ ForwardFails(s) \/ CloseConn(s)
             \/ NothingToClose(s) \/ EndSession(s)
    <3>1. UNCHANGED <<nsent, msg, resp, toMongo, fromMongo, served>>
      BY <2>5, ZenonT(20) DEF CreateWorker, ReadFails, InterceptAnswers, InterceptFails,
        KeepConn, GetConn, GetConnFails, SendFails, ReadReplyFails,
        ForwardReply, ForwardFails, CloseConn, NothingToClose, EndSession
    <3>2. \A t \in Users : sesspc'[t] \in Sending => sesspc[t] \in Sending
      <4>1. CASE \/ CreateWorker(s) \/ ReadFails(s) \/ InterceptAnswers(s) \/ InterceptFails(s)
                 \/ KeepConn(s) \/ NothingToClose(s) \/ EndSession(s)
        BY <4>1 DEF CreateWorker, ReadFails, InterceptAnswers, InterceptFails,
          KeepConn, NothingToClose, EndSession, GoTo, At, Sending, LinkInv
      <4>2. CASE \/ GetConn(s) \/ GetConnFails(s) \/ SendFails(s) \/ ForwardReply(s)
                 \/ ForwardFails(s) \/ ReadReplyFails(s) \/ CloseConn(s)
        BY <4>2 DEF GetConn, GetConnFails, SendFails, ForwardReply, ForwardFails,
          ReadReplyFails, CloseConn, CloseReturns, GoTo, At, Sending, LinkInv, ClosePcs
      <4>. QED BY <2>5, <4>1, <4>2
    <3>. QED BY <3>1, <3>2, TypeFrame DEF TypeInv
  <2>. QED BY <1>3, <2>1, <2>2, <2>3, <2>4, <2>5 DEF SessionStep
<1>. QED BY <1>1, <1>2, <1>3 DEF Next, vars

-----------------------------------------------------------------------------
(* No request is under way when the proxy starts. *)
LEMMA OrderInit == Init => OrderInv
  BY DEF Init, OrderInv, Sending

(* A step of a session that writes nothing to mongod. *)
LEMMA OrderFrame ==
  ASSUME LinkInv, MsgInv, OrderInv, NEW s \in Users, NEW p \in SessPcs,
         sesspc' = [sesspc EXCEPT ![s] = p],
         UNCHANGED <<toMongo, served>>,
         nsent' \in [Users -> Nat], nsent'[s] >= nsent[s],
         \A t \in Users \ {s} : /\ pooledConn'[t] = pooledConn[t]
                                /\ nsent'[t] = nsent[t]
                                /\ msg'[t] = msg[t],
         p \in Sending => msg'[s].num = nsent'[s] /\ served[s] < nsent'[s],
         p \in {"forward", "deferOk"} => toMongo[pooledConn'[s]] = <<>>,
         \A c \in Conns : \A i \in DOMAIN toMongo[c] :
           toMongo[c][i].by = s =>
             /\ p \in Sending => toMongo[c][i].num < nsent'[s]
             /\ p \notin Ending => pooledConn'[s] = c
  PROVE  OrderInv'
<1>1. sesspc'[s] = p /\ \A t \in Users \ {s} : sesspc'[t] = sesspc[t]
  BY DEF LinkInv
<1>2. /\ served \in [Users -> Nat] /\ nsent \in [Users -> Nat]
      /\ \A t \in Users : served[t] <= nsent[t]
  BY DEF OrderInv, MsgInv
<1>3. ASSUME NEW t \in Users PROVE nsent'[t] >= nsent[t]
  <2>1. nsent[t] >= nsent[t]
    BY <1>2
  <2>. QED BY <2>1
<1>4. ASSUME NEW t \in Users
      PROVE  /\ served'[t] <= nsent'[t]
             /\ sesspc'[t] \in Sending => msg'[t].num = nsent'[t] /\ served'[t] < nsent'[t]
             /\ sesspc'[t] \in {"forward", "deferOk"} => toMongo'[pooledConn'[t]] = <<>>
  <2>1. served'[t] <= nsent'[t]
    BY <1>2, <1>3
  <2>2. CASE t = s
    BY <1>1, <2>1, <2>2
  <2>3. CASE t # s
    BY <1>1, <2>1, <2>3 DEF OrderInv
  <2>. QED BY <2>2, <2>3
<1>5. ASSUME NEW c \in Conns, NEW i \in DOMAIN toMongo'[c] PROVE Waits(toMongo[c][i], c)'
  <2>. DEFINE m == toMongo[c][i]
  <2>1. /\ i \in DOMAIN toMongo[c] /\ toMongo'[c][i] = m /\ m \in Messages
    BY <1>5, SMTT(30) DEF MsgInv
  <2>2. Waits(m, c) /\ m.by \in Users /\ m.num \in Nat
    BY <2>1 DEF OrderInv, Messages
  <2>3. m.by = s => /\ p \in Sending => m.num < nsent'[s]
                    /\ p \notin Ending => pooledConn'[s] = c
    BY <2>1
  <2>. HIDE DEF m
  <2>4. served'[m.by] < m.num /\ m.num <= nsent'[m.by]
    BY <1>2, <1>3, <2>2 DEF Waits
  <2>5. /\ sesspc'[m.by] \in Sending => m.num < nsent'[m.by]
        /\ sesspc'[m.by] \notin Ending => pooledConn'[m.by] = c
    <3>1. CASE m.by = s
      BY <1>1, <2>3, <3>1
    <3>2. CASE m.by # s
      BY <1>1, <2>2, <3>2 DEF Waits
    <3>. QED BY <3>1, <3>2
  <2>. QED BY <2>1, <2>4, <2>5 DEF Waits
<1>6. served' \in [Users -> Nat]
  BY <1>2
<1>7. \A c, d \in Conns : \A i \in DOMAIN toMongo'[c], j \in DOMAIN toMongo'[d] :
        toMongo'[c][i].by = toMongo'[d][j].by =>
          c = d /\ (i < j => toMongo'[c][i].num < toMongo'[d][j].num)
  BY SMTT(30) DEF OrderInv
<1>. QED BY <1>4, <1>5, <1>6, <1>7, ZenonT(20) DEF OrderInv

(* What OrderInv says of a queued request of session s. *)
LEMMA QueuedFacts ==
  ASSUME MsgInv, OrderInv, NEW c \in Conns, NEW i \in DOMAIN toMongo[c]
  PROVE  LET m == toMongo[c][i] IN
           /\ m \in Messages /\ m.by \in Users /\ m.num \in Nat
           /\ served[m.by] < m.num /\ m.num <= nsent[m.by]
           /\ sesspc[m.by] \in Sending => m.num < nsent[m.by]
           /\ sesspc[m.by] \notin Ending => pooledConn[m.by] = c
<1>1. toMongo[c][i] \in Messages
  BY DEF MsgInv
<1>. QED BY <1>1 DEF OrderInv, Waits, Messages

(* A step of a session that only moves it on. *)
LEMMA OrderMove ==
  ASSUME LinkInv, MsgInv, OrderInv, NEW s \in Users, NEW p \in SessPcs,
         sesspc' = [sesspc EXCEPT ![s] = p],
         UNCHANGED <<toMongo, served, nsent, msg, pooledConn>>,
         p \in Sending => sesspc[s] \in Sending,
         p \in {"forward", "deferOk"} => toMongo[pooledConn[s]] = <<>>,
         p \notin Ending => sesspc[s] \notin Ending
  PROVE  OrderInv'
<1>1. nsent' \in [Users -> Nat] /\ nsent'[s] >= nsent[s]
  BY DEF MsgInv
<1>2. p \in Sending => msg'[s].num = nsent'[s] /\ served[s] < nsent'[s]
  BY DEF OrderInv
<1>3. \A c \in Conns : \A i \in DOMAIN toMongo[c] :
        toMongo[c][i].by = s =>
          /\ p \in Sending => toMongo[c][i].num < nsent'[s]
          /\ p \notin Ending => pooledConn'[s] = c
  BY QueuedFacts
<1>. QED BY <1>1, <1>2, <1>3, OrderFrame, ZenonT(20)

(* A request is read, or the interceptor puts another one in its place: it  *)
(* is the last one of its client.                                           *)
LEMMA OrderRead ==
  ASSUME LinkInv, MsgInv, OrderInv, NEW s \in Users,
         ReadRequest(s) \/ InterceptPasses(s) \/ InterceptRefuses(s)
  PROVE  OrderInv'
<1>1. PICK p \in {"read", "intercept", "acquire", "exit"} :
        /\ sesspc' = [sesspc EXCEPT ![s] = p]
        /\ sesspc[s] \in {"read", "intercept"}
  BY ProxyAssumption DEF ReadRequest, InterceptPasses, InterceptRefuses, GoTo, At
<1>2. p \in SessPcs /\ p \notin {"forward", "deferOk"} /\ sesspc[s] \notin Ending
  BY <1>1 DEF SessPcs, Ending
<1>3. UNCHANGED <<toMongo, served, pooledConn>>
  BY DEF ReadRequest, InterceptPasses, InterceptRefuses
<1>4. nsent \in [Users -> Nat] /\ msg \in [Users -> Messages \cup {None}]
      /\ served \in [Users -> Nat] /\ served[s] <= nsent[s]
  BY DEF MsgInv, OrderInv
<1>5. PICK n \in Nat : /\ nsent' = [nsent EXCEPT ![s] = n]
                       /\ \E m \in Requests(s, n) : msg' = [msg EXCEPT ![s] = m]
                       /\ n >= nsent[s] /\ served[s] < n
                       /\ n = nsent[s] => sesspc[s] \in Sending
  <2>1. CASE ReadRequest(s)
    <3>1. nsent[s] + 1 \in Nat /\ nsent[s] + 1 >= nsent[s] /\ served[s] < nsent[s] + 1
          /\ nsent[s] + 1 # nsent[s]
      BY <1>4
    <3>. QED BY <2>1, <3>1, ZenonT(20) DEF ReadRequest
  <2>2. CASE InterceptPasses(s) \/ InterceptRefuses(s)
    <3>1. sesspc[s] \in Sending /\ nsent[s] \in Nat /\ nsent[s] >= nsent[s] /\ served[s] < nsent[s]
      BY <1>4, <2>2 DEF InterceptPasses, InterceptRefuses, At, Sending, OrderInv
    <3>2. nsent' = [nsent EXCEPT ![s] = nsent[s]]
      BY <1>4, <2>2 DEF InterceptPasses, InterceptRefuses
    <3>. QED BY <2>2, <3>1, <3>2, ZenonT(20) DEF InterceptPasses, InterceptRefuses
  <2>. QED BY <2>1, <2>2
<1>6. PICK m \in Requests(s, n) : msg' = [msg EXCEPT ![s] = m]
  BY <1>5, ZenonT(20)
<1>7. m.num = n
  BY DEF Requests
<1>8. /\ nsent' \in [Users -> Nat] /\ nsent'[s] = n /\ msg'[s] = m
      /\ \A t \in Users \ {s} : msg'[t] = msg[t] /\ nsent'[t] = nsent[t]
  BY <1>4, <1>5, <1>6
<1>9. ASSUME NEW c \in Conns, NEW i \in DOMAIN toMongo[c], toMongo[c][i].by = s
      PROVE  toMongo[c][i].num < n /\ pooledConn'[s] = c
  <2>. DEFINE k == toMongo[c][i].num
  <2>1. k \in Nat /\ k <= nsent[s] /\ (sesspc[s] \in Sending => k < nsent[s]) /\ pooledConn[s] = c
    BY <1>2, <1>9, QueuedFacts
  <2>. HIDE DEF k
  <2>2. k < n
    BY <1>4, <1>5, <2>1
  <2>. QED BY <1>3, <2>1, <2>2, ZenonT(20) DEF k
<1>10. nsent'[s] >= nsent[s] /\ msg'[s].num = nsent'[s] /\ served[s] < nsent'[s]
  BY <1>5, <1>7, <1>8
<1>11. \A t \in Users \ {s} : pooledConn'[t] = pooledConn[t]
  BY <1>3
<1>12. \A c \in Conns : \A i \in DOMAIN toMongo[c] :
         toMongo[c][i].by = s => toMongo[c][i].num < nsent'[s] /\ pooledConn'[s] = c
  BY <1>8, <1>9
<1>. QED BY <1>1, <1>2, <1>3, <1>8, <1>10, <1>11, <1>12, OrderFrame, ZenonT(60)

(* Get is called without a connection, when no request of the session is    *)
(* under way.                                                               *)
LEMMA OrderGet ==
  ASSUME LinkInv, MsgInv, OrderInv, NEW s \in Users, GetConn(s)
  PROVE  OrderInv'
<1>1. /\ sesspc[s] = "acquire" /\ sesspc' = [sesspc EXCEPT ![s] = "send"]
      /\ pooledConn' = [pooledConn EXCEPT ![s] = conn[s]]
      /\ UNCHANGED <<toMongo, served, nsent, msg>>
      /\ poolpc[s] \in {"check", "count"}
  BY DEF GetConn, At, GoTo, GetReturns, Reuse, CountCreated
<1>2. pooledConn[s] = NoConn
  BY <1>1 DEF LinkInv, Linked
<1>3. \A t \in Users \ {s} : pooledConn'[t] = pooledConn[t]
  BY <1>1, ZenonT(20) DEF LinkInv
<1>4. nsent' \in [Users -> Nat] /\ nsent'[s] >= nsent[s]
      /\ msg'[s].num = nsent'[s] /\ served[s] < nsent'[s]
  BY <1>1, SMTT(30) DEF MsgInv, OrderInv, Sending
<1>5. \A c \in Conns : \A i \in DOMAIN toMongo[c] : toMongo[c][i].by # s
  BY <1>1, <1>2, QueuedFacts, PoolAssumption DEF Ending
<1>6. PICK p \in SessPcs : sesspc' = [sesspc EXCEPT ![s] = p] /\ p \notin {"forward", "deferOk"}
  BY <1>1 DEF SessPcs
<1>7. \A t \in Users \ {s} : nsent'[t] = nsent[t] /\ msg'[t] = msg[t]
  BY <1>1
<1>8. UNCHANGED <<toMongo, served>>
  BY <1>1
<1>9. \A c \in Conns : \A i \in DOMAIN toMongo[c] :
        toMongo[c][i].by = s =>
          /\ p \in Sending => toMongo[c][i].num < nsent'[s]
          /\ p \notin Ending => pooledConn'[s] = c
  BY <1>5, ZenonT(20)
<1>. QED BY <1>3, <1>4, <1>6, <1>7, <1>8, <1>9, OrderFrame, ZenonT(60)

(* A connection is closed after a reply, when no request is under way, or   *)
(* by a session that sends none any more.                                   *)
LEMMA OrderClose ==
  ASSUME LinkInv, MsgInv, OrderInv, NEW s \in Users, CloseConn(s)
  PROVE  OrderInv'
<1>1. UNCHANGED <<toMongo, served, nsent, msg>> /\ sesspc[s] \in ClosePcs
  BY DEF CloseConn
<1>2. CASE UNCHANGED <<sesspc, pooledConn>>
  <2>1. sesspc' = [sesspc EXCEPT ![s] = sesspc[s]] /\ sesspc[s] \in SessPcs
    BY <1>2 DEF LinkInv
  <2>2. sesspc[s] \in {"forward", "deferOk"} => toMongo[pooledConn[s]] = <<>>
    BY DEF OrderInv
  <2>. QED BY <1>1, <1>2, <2>1, <2>2, OrderMove, ZenonT(20)
<1>3. CASE CloseReturns(s)
  <2>1. CASE sesspc[s] = "deferOk"
    <3>1. /\ sesspc' = [sesspc EXCEPT ![s] = "read"]
          /\ pooledConn' = [pooledConn EXCEPT ![s] = NoConn]
      BY <1>3, <2>1 DEF CloseReturns, At, GoTo
    <3>2. \A t \in Users \ {s} : /\ pooledConn'[t] = pooledConn[t]
                                 /\ nsent'[t] = nsent[t]
                                 /\ msg'[t] = msg[t]
      BY <1>1, <3>1 DEF LinkInv
    <3>3. nsent' \in [Users -> Nat] /\ nsent'[s] >= nsent[s]
      BY <1>1 DEF MsgInv
    <3>4. \A c \in Conns : \A i \in DOMAIN toMongo[c] : toMongo[c][i].by # s
      <4>1. toMongo[pooledConn[s]] = <<>>
        BY <2>1 DEF OrderInv
      <4>2. ASSUME NEW c \in Conns, NEW i \in DOMAIN toMongo[c], toMongo[c][i].by = s PROVE FALSE
        <5>1. pooledConn[s] = c
          BY <2>1, <4>2, QueuedFacts DEF Ending
        <5>2. DOMAIN toMongo[c] = {}
          BY <4>1, <5>1
        <5>. QED BY <4>2, <5>2
      <4>. QED BY <4>2
    <3>5. PICK p \in SessPcs : /\ sesspc' = [sesspc EXCEPT ![s] = p]
                               /\ p \notin Sending /\ p \notin {"forward", "deferOk"}
      BY <3>1 DEF SessPcs, Sending
    <3>6. \A c \in Conns : \A i \in DOMAIN toMongo[c] :
            toMongo[c][i].by = s =>
              /\ p \in Sending => toMongo[c][i].num < nsent'[s]
              /\ p \notin Ending => pooledConn'[s] = c
      BY <3>4
    <3>7. UNCHANGED <<toMongo, served>>
      BY <1>1
    <3>8. /\ p \in Sending => msg'[s].num = nsent'[s] /\ served[s] < nsent'[s]
          /\ p \in {"forward", "deferOk"} => toMongo[pooledConn'[s]] = <<>>
          /\ sesspc' = [sesspc EXCEPT ![s] = p]
      BY <3>5, ZenonT(20)
    <3>. QED BY <3>2, <3>3, <3>6, <3>7, <3>8, OrderFrame, ZenonT(40)
  <2>2. CASE sesspc[s] # "deferOk"
    <3>1. PICK p \in {"exit", "end"} : sesspc' = [sesspc EXCEPT ![s] = p]
      BY <1>3, <2>2, ZenonT(20) DEF CloseReturns, At, GoTo
    <3>2. p \in SessPcs \ (Sending \cup {"forward", "deferOk"}) /\ p \in Ending
      BY <3>1 DEF SessPcs, Sending, Ending
    <3>3. \A t \in Users \ {s} : pooledConn'[t] = pooledConn[t]
      BY <1>3 DEF CloseReturns, LinkInv
    <3>4. nsent' \in [Users -> Nat] /\ nsent'[s] >= nsent[s]
      BY <1>1 DEF MsgInv
    <3>. QED BY <1>1, <3>1, <3>2, <3>3, <3>4, OrderFrame, ZenonT(20)
  <2>. QED BY <2>1, <2>2
<1>. QED BY <1>2, <1>3 DEF CloseConn

(* A session that reads a reply has no request under way: the reply was to  *)
(* the last one.                                                            *)
LEMMA OrderReply ==
  ASSUME LinkInv, MsgInv, ReplyInv, OrderInv, NEW s \in Users, ReadReply(s)
  PROVE  OrderInv'
<1>1. /\ sesspc[s] = "await" /\ sesspc' = [sesspc EXCEPT ![s] = "forward"]
      /\ fromMongo[pooledConn[s]] # <<>>
      /\ UNCHANGED <<toMongo, served, nsent, msg, pooledConn>>
  BY ZenonT(20) DEF ReadReply, At, GoTo
<1>2. toMongo[pooledConn[s]] = <<>>
  BY <1>1, ZenonT(20) DEF ReplyInv, Awaits
<1>3. PICK p \in SessPcs : /\ sesspc' = [sesspc EXCEPT ![s] = p]
                           /\ p \notin Sending /\ sesspc[s] \notin Ending
  BY <1>1 DEF SessPcs, Sending, Ending
<1>. QED BY <1>1, <1>2, <1>3, OrderMove, ZenonT(20)

(* The elements of a queue to which one is appended. *)
LEMMA LastFacts ==
  ASSUME NEW S, NEW q \in Seq(S), NEW e \in S, NEW i \in DOMAIN Append(q, e)
  PROVE  \/ i \in DOMAIN q /\ Append(q, e)[i] = q[i]
         \/ i = Len(q) + 1 /\ Append(q, e)[i] = e
  OBVIOUS

(* A request is written behind those of its session that are under way, on  *)
(* the connection they are on.                                              *)
LEMMA OrderSend ==
  ASSUME PoolInv, LinkInv, MsgInv, OrderInv, NEW s \in Users, SendToMongo(s)
  PROVE  OrderInv'
<1>. DEFINE c == pooledConn[s]
            Old(d, i) == i \in DOMAIN toMongo[d] /\ toMongo'[d][i] = toMongo[d][i]
            New(d, i) == d = c /\ i = Len(toMongo[c]) + 1 /\ toMongo'[d][i] = msg[s]
<1>1. /\ sesspc[s] = "send" /\ sesspc \in [Users -> SessPcs]
      /\ UNCHANGED <<msg, nsent, served, pooledConn>>
      /\ toMongo' = [toMongo EXCEPT ![c] = Append(@, msg[s])]
      /\ \A t \in Users \ {s} : sesspc'[t] = sesspc[t]
      /\ sesspc'[s] \in {"await", "read"}
  BY ZenonT(20) DEF SendToMongo, At, GoTo, LinkInv
<1>2. /\ c \in Conns
      /\ \A t \in Users \ {s} : sesspc[t] \notin {"end", "closed"} => pooledConn[t] # c
  BY <1>1, Alone, ZenonT(20)
<1>3. /\ msg[s] \in Messages /\ msg[s].by = s /\ msg[s].num = nsent[s] /\ served[s] < nsent[s]
      /\ nsent[s] \in Nat /\ toMongo \in [Conns -> Seq(Messages)]
  BY <1>1, ZenonT(20) DEF MsgInv, Single, OrderInv, Sending
<1>4. /\ \A d \in Conns \ {c} : toMongo'[d] = toMongo[d]
      /\ toMongo'[c] = Append(toMongo[c], msg[s])
  BY <1>1, <1>2, <1>3
<1>. HIDE DEF c
<1>5. ASSUME NEW d \in Conns, NEW i \in DOMAIN toMongo'[d] PROVE Old(d, i) \/ New(d, i)
  <2>1. CASE d = c
    <3>1. toMongo[c] \in Seq(Messages) /\ i \in DOMAIN Append(toMongo[c], msg[s])
      BY <1>2, <1>3, <1>4, <2>1, <1>5
    <3>. QED BY <1>3, <1>4, <2>1, <3>1, LastFacts
  <2>2. CASE d # c
    BY <1>4, <2>2
  <2>. QED BY <2>1, <2>2
<1>6. ASSUME NEW d \in Conns, NEW i, Old(d, i), toMongo[d][i].by = s
      PROVE  d = c /\ toMongo[d][i].num < nsent[s] /\ ~(Len(toMongo[c]) + 1 < i)
  <2>1. d = c /\ toMongo[d][i].num < nsent[s]
    BY <1>1, <1>6, QueuedFacts, ZenonT(20) DEF c, Sending, Ending
  <2>2. i \in 1..Len(toMongo[c]) /\ Len(toMongo[c]) \in Nat
    BY <1>2, <1>3, <1>6, <2>1
  <2>. QED BY <2>1, <2>2, SMTT(30)
<1>7. ASSUME NEW t \in Users
      PROVE  /\ served'[t] <= nsent'[t]
             /\ sesspc'[t] \in Sending => msg'[t].num = nsent'[t] /\ served'[t] < nsent'[t]
             /\ sesspc'[t] \in {"forward", "deferOk"} => toMongo'[pooledConn'[t]] = <<>>
  <2>1. CASE t = s
    BY <1>1, <2>1 DEF OrderInv, Sending
  <2>2. CASE t # s
    <3>1. sesspc'[t] = sesspc[t] /\ UNCHANGED <<served, nsent, msg, pooledConn>>
      BY <1>1, <2>2, ZenonT(20)
    <3>2. ASSUME sesspc[t] \in {"forward", "deferOk"} PROVE toMongo'[pooledConn[t]] = <<>>
      <4>1. pooledConn[t] \in Conns /\ pooledConn[t] # c
        BY <1>2, <2>2, <3>2, ZenonT(20) DEF LinkInv, Linked
      <4>. QED BY <1>4, <3>2, <4>1 DEF OrderInv
    <3>. QED BY <3>1, <3>2 DEF OrderInv
  <2>. QED BY <2>1, <2>2, ZenonT(20)
<1>8. ASSUME NEW d \in Conns, NEW i \in DOMAIN toMongo'[d] PROVE Waits(toMongo[d][i], d)'
  <2>1. CASE Old(d, i)
    <3>. DEFINE m == toMongo[d][i]
    <3>1. Waits(m, d) /\ toMongo'[d][i] = m
      BY <2>1, ZenonT(20) DEF OrderInv
    <3>. HIDE DEF m
    <3>2. /\ sesspc'[m.by] \in Sending => sesspc[m.by] \in Sending
          /\ sesspc'[m.by] \notin Ending => sesspc[m.by] \notin Ending
      <4>1. m.by \in Users
        BY <2>1, QueuedFacts DEF m
      <4>2. CASE m.by = s
        BY <1>1, <4>2 DEF Sending, Ending
      <4>3. CASE m.by # s
        BY <1>1, <4>1, <4>3, ZenonT(20)
      <4>. QED BY <4>2, <4>3, ZenonT(20)
    <3>. QED BY <1>1, <3>1, <3>2, ZenonT(20) DEF Waits
  <2>2. CASE New(d, i)
    <3>1. /\ nsent[s] <= nsent[s] /\ sesspc'[s] \notin Sending /\ pooledConn[s] = d
      BY <1>1, <1>3, <2>2, SMTT(30) DEF Sending, c
    <3>. QED BY <1>1, <1>3, <2>2, <3>1, ZenonT(20) DEF Waits
  <2>. QED BY <1>5, <1>8, <2>1, <2>2
<1>9. ASSUME NEW d \in Conns, NEW e \in Conns,
             NEW i \in DOMAIN toMongo'[d], NEW j \in DOMAIN toMongo'[e],
             toMongo'[d][i].by = toMongo'[e][j].by
      PROVE  d = e /\ (i < j => toMongo'[d][i].num < toMongo'[e][j].num)
  <2>1. CASE Old(d, i) /\ Old(e, j)
    BY <1>9, <2>1, SMTT(30) DEF OrderInv
  <2>2. CASE Old(d, i) /\ New(e, j)
    BY <1>3, <1>6, <1>9, <2>2, ZenonT(20)
  <2>3. CASE New(d, i) /\ Old(e, j)
    BY <1>3, <1>6, <1>9, <2>3, ZenonT(20)
  <2>4. CASE New(d, i) /\ New(e, j)
    <3>1. i = j /\ ~(i < j)
      BY <1>2, <1>3, <2>4
    <3>. QED BY <2>4, <3>1
  <2>5. (Old(d, i) \/ New(d, i)) /\ (Old(e, j) \/ New(e, j))
    BY <1>5, <1>9, ZenonT(20)
  <2>. QED BY <2>1, <2>2, <2>3, <2>4, <2>5, ZenonT(20)
<1>10. served' \in [Users -> Nat]
  BY <1>1 DEF OrderInv
<1>. QED BY <1>7, <1>8, <1>9, <1>10, ZenonT(20) DEF OrderInv

(* mongod takes the first request of a connection.  Those of the same       *)
(* session that are left are on that connection, and later ones.            *)
LEMMA OrderServe ==
  ASSUME MsgInv, OrderInv, NEW c \in Conns, MongoServes(c)
  PROVE  OrderInv' /\ \A t \in Users : served'[t] >= served[t]
<1>. DEFINE m == toMongo[c][1]
            At2(d, i) == IF d = c THEN i + 1 ELSE i
<1>1. /\ toMongo[c] # <<>> /\ UNCHANGED <<sesspc, nsent, msg, pooledConn>>
      /\ toMongo' = [toMongo EXCEPT ![c] = Tail(@)]
      /\ m = Head(toMongo[c]) /\ toMongo \in [Conns -> Seq(Messages)]
  BY ServeFacts DEF MsgInv
<1>2. served' = [served EXCEPT ![m.by] = m.num]
  BY <1>1 DEF MongoServes
<1>3. 1 \in DOMAIN toMongo[c]
  BY <1>1, FirstFacts, ZenonT(20)
<1>4. /\ m.by \in Users /\ m.num \in Nat
      /\ served[m.by] < m.num /\ m.num <= nsent[m.by]
      /\ sesspc[m.by] \in Sending => m.num < nsent[m.by]
  BY <1>3, QueuedFacts
<1>5. ASSUME NEW d \in Conns, NEW i \in DOMAIN toMongo'[d]
      PROVE  /\ At2(d, i) \in DOMAIN toMongo[d] /\ toMongo'[d][i] = toMongo[d][At2(d, i)]
             /\ i \in Nat
             /\ d = c => 1 < At2(d, i)
  <2>1. CASE d = c
    <3>1. toMongo'[c] = Tail(toMongo[c])
      BY <1>1
    <3>2. i \in DOMAIN Tail(toMongo[c]) /\ toMongo[c] \in Seq(Messages)
      BY <1>1, <1>5, <2>1, <3>1
    <3>3. /\ i \in 1..(Len(toMongo[c]) - 1) /\ i + 1 \in DOMAIN toMongo[c]
          /\ Tail(toMongo[c])[i] = toMongo[c][i + 1] /\ Len(toMongo[c]) \in Nat
      BY <1>1, <3>2, RestFacts
    <3>4. i \in Nat /\ 1 < i + 1
      BY <3>3
    <3>. QED BY <2>1, <3>1, <3>3, <3>4
  <2>2. CASE d # c
    <3>1. toMongo'[d] = toMongo[d] /\ toMongo[d] \in Seq(Messages)
      BY <1>1, <2>2
    <3>2. i \in Nat
      BY <1>5, <3>1
    <3>. QED BY <1>5, <2>2, <3>1, <3>2
  <2>. QED BY <2>1, <2>2
<1>6. ASSUME NEW d \in Conns, NEW i \in DOMAIN toMongo'[d], toMongo'[d][i].by = m.by
      PROVE  m.num < toMongo'[d][i].num
  <2>. DEFINE k == At2(d, i)
  <2>1. k \in DOMAIN toMongo[d] /\ toMongo'[d][i] = toMongo[d][k] /\ (d = c => 1 < k)
    BY <1>5, ZenonT(20)
  <2>. HIDE DEF k
  <2>. QED BY <1>3, <1>6, <2>1 DEF OrderInv
<1>7. served \in [Users -> Nat] /\ served' \in [Users -> Nat] /\ served'[m.by] = m.num
      /\ \A t \in Users \ {m.by} : served'[t] = served[t]
  BY <1>2, <1>4, ZenonT(60) DEF OrderInv
<1>. HIDE DEF m, At2
<1>8. ASSUME NEW t \in Users PROVE served'[t] >= served[t]
  <2>1. CASE t = m.by
    BY <1>4, <1>7, <2>1
  <2>2. CASE t # m.by
    <3>1. served[t] \in Nat /\ served'[t] = served[t]
      BY <1>7, <2>2
    <3>. QED BY <3>1
  <2>. QED BY <2>1, <2>2, ZenonT(20)
<1>9. ASSUME NEW t \in Users
      PROVE  /\ served'[t] <= nsent'[t]
             /\ sesspc'[t] \in Sending => msg'[t].num = nsent'[t] /\ served'[t] < nsent'[t]
             /\ sesspc'[t] \in {"forward", "deferOk"} => toMongo'[pooledConn'[t]] = <<>>
  <2>1. /\ served'[t] <= nsent'[t]
        /\ sesspc'[t] \in Sending => msg'[t].num = nsent'[t] /\ served'[t] < nsent'[t]
    BY <1>1, <1>4, <1>7 DEF OrderInv
  <2>2. ASSUME sesspc[t] \in {"forward", "deferOk"} PROVE toMongo'[pooledConn[t]] = <<>>
    <3>1. toMongo[pooledConn[t]] = <<>>
      BY <2>2, ZenonT(20) DEF OrderInv
    <3>2. pooledConn[t] # c
      BY <1>1, <3>1
    <3>. QED BY <1>1, <3>1, <3>2, SMTT(30)
  <2>. QED BY <1>1, <2>1, <2>2, ZenonT(20)
<1>10. ASSUME NEW d \in Conns, NEW i \in DOMAIN toMongo'[d] PROVE Waits(toMongo[d][i], d)'
  <2>. DEFINE k == At2(d, i)
              r == toMongo[d][k]
  <2>1. k \in DOMAIN toMongo[d] /\ toMongo'[d][i] = r
    BY <1>5
  <2>2. Waits(r, d) /\ r.by \in Users /\ r.num \in Nat
    BY <2>1, QueuedFacts, ZenonT(20) DEF OrderInv
  <2>3. r.by = m.by => m.num < r.num
    BY <1>6, <2>1, ZenonT(20)
  <2>. HIDE DEF k, r
  <2>4. served'[r.by] < r.num
    BY <1>7, <2>2, <2>3, ZenonT(20) DEF Waits
  <2>. QED BY <1>1, <2>1, <2>2, <2>4, ZenonT(20) DEF Waits
<1>11. ASSUME NEW d \in Conns, NEW e \in Conns,
              NEW i \in DOMAIN toMongo'[d], NEW j \in DOMAIN toMongo'[e],
              toMongo'[d][i].by = toMongo'[e][j].by
       PROVE  d = e /\ (i < j => toMongo'[d][i].num < toMongo'[e][j].num)
  <2>. DEFINE k == At2(d, i)
              l == At2(e, j)
  <2>1. /\ k \in DOMAIN toMongo[d] /\ toMongo'[d][i] = toMongo[d][k] /\ i \in Nat
        /\ l \in DOMAIN toMongo[e] /\ toMongo'[e][j] = toMongo[e][l] /\ j \in Nat
    BY <1>5
  <2>2. d = e /\ i < j => k < l
    BY <2>1 DEF At2
  <2>. HIDE DEF k, l
  <2>. QED BY <1>11, <2>1, <2>2 DEF OrderInv
<1>. QED BY <1>7, <1>8, <1>9, <1>10, <1>11, ZenonT(20) DEF OrderInv

(* Every step keeps the order of the requests, and none but mongod's serves *)
(* one.                                                                     *)
LEMMA OrderStep ==
  ASSUME PoolInv, LinkInv, MsgInv, ReplyInv, OrderInv, [Next]_vars
  PROVE  OrderInv' /\ \A t \in Users : served'[t] >= served[t]
<1>1. CASE \E c \in Conns : MongoServes(c)
  BY <1>1, OrderServe
<1>2. CASE UNCHANGED proxyVars
  <2>1. UNCHANGED <<sesspc, nsent, msg, pooledConn, toMongo, served>>
    BY <1>2, ZenonT(20) DEF proxyVars
  <2>2. OrderInv'
    BY <2>1, ZenonT(60) DEF OrderInv, Waits
  <2>3. ASSUME NEW t \in Users PROVE served'[t] >= served[t]
    <3>1. served[t] \in Nat
      BY ZenonT(20) DEF OrderInv
    <3>2. served'[t] = served[t]
      BY <2>1, ZenonT(20)
    <3>. QED BY <3>1, <3>2
  <2>. QED BY <2>2, <2>3
<1>3. ASSUME NEW s \in Users,
             SessionStep(s) \/ ReadRequest(s) \/ ReadFails(s) \/ ReadReplyFails(s)
      PROVE  OrderInv' /\ \A t \in Users : served'[t] >= served[t]
  <2>1. served' = served
    BY <1>3, ZenonT(30) DEF SessionStep, CreateWorker, ReadRequest, ReadFails, InterceptPasses,
      InterceptAnswers, InterceptFails, InterceptRefuses, KeepConn, CallGet, GetConn,
      GetConnFails, SendToMongo, SendFails, ReadReply, ReadReplyFails, ForwardReply,
      ForwardFails, CloseConn, NothingToClose, EndSession, proxyVars
  <2>2. ASSUME NEW t \in Users PROVE served'[t] >= served[t]
    <3>1. served[t] \in Nat
      BY ZenonT(20) DEF OrderInv
    <3>2. served'[t] = served[t]
      BY <2>1, ZenonT(20)
    <3>. QED BY <3>1, <3>2
  <2>3. CASE ReadRequest(s) \/ InterceptPasses(s) \/ InterceptRefuses(s)
    BY <2>2, <2>3, OrderRead, ZenonT(20)
  <2>4. CASE CallGet(s)
    BY <1>2, <2>4, ZenonT(20) DEF CallGet
  <2>5. CASE GetConn(s)
    BY <2>2, <2>5, OrderGet, ZenonT(20)
  <2>6. CASE SendToMongo(s)
    BY <2>2, <2>6, OrderSend, ZenonT(20)
  <2>7. CASE ReadReply(s)
    BY <2>2, <2>7, OrderReply, ZenonT(20)
  <2>8. CASE CloseConn(s)
    BY <2>2, <2>8, OrderClose, ZenonT(20)
  <2>9. CASE \/ CreateWorker(s) \/ ReadFails(s) \/ InterceptAnswers(s) \/ InterceptFails(s)
             \/ KeepConn(s) \/ GetConnFails(s) \/ SendFails(s)
             \/ ReadReplyFails(s) \/ ForwardReply(s) \/ ForwardFails(s) \/ NothingToClose(s)
             \/ EndSession(s)
    <3>1. UNCHANGED <<toMongo, served, nsent, msg, pooledConn>>
      BY <2>9, ZenonT(20) DEF CreateWorker, ReadFails, InterceptAnswers, InterceptFails,
        KeepConn, GetConnFails, SendFails, ReadReplyFails, ForwardReply,
        ForwardFails, NothingToClose, EndSession
    <3>2. PICK p \in SessPcs : /\ sesspc' = [sesspc EXCEPT ![s] = p]
                               /\ p \in Sending => sesspc[s] \in Sending
                               /\ p \in {"forward", "deferOk"} => sesspc[s] = "forward"
                               /\ p \notin Ending => sesspc[s] \notin Ending
      BY <2>9, ZenonT(30) DEF CreateWorker, ReadFails, InterceptAnswers, InterceptFails,
        KeepConn, GetConnFails, SendFails, ReadReplyFails, ForwardReply,
        ForwardFails, NothingToClose, EndSession, GoTo, At, SessPcs, Sending, Ending
    <3>3. p \in {"forward", "deferOk"} => toMongo[pooledConn[s]] = <<>>
      BY <3>2 DEF OrderInv
    <3>4. OrderInv'
      BY <3>1, <3>2, <3>3, OrderMove, ZenonT(20)
    <3>. QED BY <2>2, <3>4
  <2>. QED BY <1>3, <2>3, <2>4, <2>5, <2>6, <2>7, <2>8, <2>9, ZenonT(20) DEF SessionStep
<1>. QED BY <1>1, <1>2, <1>3 DEF Next, vars
=============================================================================
