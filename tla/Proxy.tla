------------------------------- MODULE Proxy -------------------------------
(***************************************************************************)
(* proxy.go: every client connection has a ProxySession, a goroutine that  *)
(* reads a request, lets the interceptor look at it, sends it to mongod on *)
(* a connection of the pool and forwards the reply, or the replies.        *)
(*                                                                         *)
(* The sessions are the Users of ConnectionPool, and the steps of Get and  *)
(* Put are those of that module.  mongod, the clients and the interceptor  *)
(* are external: mongod answers the requests of a connection in order, a   *)
(* client sends anything and may vanish, an interceptor does whatever its  *)
(* interface allows and tells the truth about "expecting response".        *)
(***************************************************************************)
EXTENDS ConnectionPool

CONSTANTS
  HasInterceptor,  \* config.InterceptorFactory is set
  Kinds,           \* the kinds of request that clients send
  MaxRequests,     \* bounds the requests of a session
  MaxBatches       \* bounds the replies to an exhaust query

ASSUME ProxyAssumption ==
  /\ HasInterceptor \in BOOLEAN
  /\ Kinds \subseteq {"query", "exhaust", "getmore", "command", "msg", "oneway",
                      "write", "kill"}
  /\ MaxRequests \in Nat
  /\ MaxBatches \in Nat \ {0}

VARIABLES
  sesspc,      \* the statement of Session.Run, DoLoopTemp or doLoop reached
  nsent,       \* how many requests the session has read
  msg,         \* m, the request being handled
  resp,        \* resp, the reply being forwarded
  pooledConn,  \* ps.pooledConn and doLoop's pooledConn
  toMongo,     \* requests written to a connection and not served
  fromMongo,   \* replies written by mongod and not read
  served       \* the number of the request of a session mongod served last

proxyVars == <<sesspc, nsent, msg, resp, pooledConn, toMongo, fromMongo, served>>
vars == <<poolVars, proxyVars>>

(* A request: who sent it, its number, its kind and how many replies mongod *)
(* has yet to give.  "exhaust" is OP_QUERY with the exhaust flag, "write"   *)
(* stands for OP_INSERT, OP_UPDATE and OP_DELETE, "kill" is OP_KILL_CURSORS *)
(* and "oneway" OP_MSG with moreToCome, which mongod does not answer.       *)
Replies(k) ==
  CASE k = "exhaust" -> 1..MaxBatches
    [] k \in {"write", "kill", "oneway"} -> {0}
    [] OTHER -> {1}

Requests(s, n) == UNION {[by: {s}, num: {n}, kind: {k}, left: Replies(k)] : k \in Kinds}

(* A reply names its request; left counts it and the ones that follow, so   *)
(* the cursor id of a reply is 0 when left is 1.                            *)
ReplyTo(m) == [by |-> m.by, num |-> m.num, left |-> m.left]

None == [by |-> "none"]

(* Message.HasResponse: by message type, whatever the flags. *)
HasResponse(m) == m.kind \notin {"write", "kill"}

(* Faulty variant: the interceptor's answer is ignored. *)
expectingAlways(m) == TRUE

(* expectingResponse: true, or what the interceptor says. *)
expectingResponse(m) == HasInterceptor => m.left > 0

(* Faulty variant: the exhaust flag is not looked at. *)
neverExhaust(m) == FALSE

inExhaustMode(m) == m.kind = "exhaust"

SessPcs == {"start", "read", "intercept", "acquire", "send", "await", "forward",
            "fatal", "deferOk", "deferErr", "exit", "end", "closed"}

TypeOK ==
  /\ PoolTypeOK
  /\ sesspc \in [Users -> SessPcs]
  /\ nsent \in [Users -> 0..MaxRequests]
  /\ \A s \in Users :
       /\ msg[s] # None => msg[s] \in Requests(s, nsent[s])
       /\ sesspc[s] \in {"intercept", "acquire", "send"} => msg[s] # None
       /\ resp[s] # None => resp[s].by \in Users /\ resp[s].left \in 1..MaxBatches
  /\ pooledConn \in [Users -> Conns \cup {NoConn}]
  /\ \A c \in Conns :
       /\ \A i \in DOMAIN toMongo[c] : toMongo[c][i].left \in 0..MaxBatches
       /\ \A i \in DOMAIN fromMongo[c] : fromMongo[c][i].left \in 1..MaxBatches
  /\ served \in [Users -> 0..MaxRequests]

Init ==
  /\ PoolInit
  /\ sesspc = [s \in Users |-> "start"]
  /\ nsent = [s \in Users |-> 0]
  /\ msg = [s \in Users |-> None]
  /\ resp = [s \in Users |-> None]
  /\ pooledConn = [s \in Users |-> NoConn]
  /\ toMongo = [c \in Conns |-> <<>>]
  /\ fromMongo = [c \in Conns |-> <<>>]
  /\ served = [s \in Users |-> 0]

At(s, p) == sesspc[s] = p
GoTo(s, p) == sesspc' = [sesspc EXCEPT ![s] = p]

-----------------------------------------------------------------------------
(* Session.Run and CreateWorker: NewInterceptor may refuse the client.  The *)
(* worker is nil then, and only the client's socket is closed.              *)
CreateWorker(s) ==
  /\ At(s, "start")
  /\ \/ GoTo(s, "read")
     \/ HasInterceptor /\ GoTo(s, "closed")
  /\ UNCHANGED <<poolVars, nsent, msg, resp, pooledConn, toMongo, fromMongo, served>>

(* doLoop reads a request from the client. *)
ReadRequest(s) ==
  /\ At(s, "read")
  /\ nsent[s] < MaxRequests
  /\ nsent' = [nsent EXCEPT ![s] = @ + 1]
  /\ \E m \in Requests(s, nsent[s] + 1) : msg' = [msg EXCEPT ![s] = m]
  /\ GoTo(s, IF HasInterceptor THEN "intercept" ELSE "acquire")
  /\ UNCHANGED <<poolVars, resp, pooledConn, toMongo, fromMongo, served>>

(* The client closed its connection, or sent what ReadMessage refuses. *)
ReadFails(s) ==
  /\ At(s, "read")
  /\ GoTo(s, "exit")
  /\ UNCHANGED <<poolVars, nsent, msg, resp, pooledConn, toMongo, fromMongo, served>>

(* InterceptClientToMongo returns a message for mongod, the client's own or *)
(* one it put in its place.                                                 *)
InterceptPasses(s) ==
  /\ At(s, "intercept")
  /\ \E m \in Requests(s, nsent[s]) : msg' = [msg EXCEPT ![s] = m]
  /\ GoTo(s, "acquire")
  /\ UNCHANGED <<poolVars, nsent, resp, pooledConn, toMongo, fromMongo, served>>

(* Faulty variant: doLoop goes on without a message. *)
InterceptAnswersGoesOn(s) ==
  /\ At(s, "intercept")
  /\ msg' = [msg EXCEPT ![s] = None]
  /\ GoTo(s, "acquire")
  /\ UNCHANGED <<poolVars, nsent, resp, pooledConn, toMongo, fromMongo, served>>

(* It answered the client itself and returns no message. *)
InterceptAnswers(s) ==
  /\ At(s, "intercept")
  /\ GoTo(s, "read")
  /\ UNCHANGED <<poolVars, nsent, msg, resp, pooledConn, toMongo, fromMongo, served>>

(* It returns an error and no message: doLoop closes the connection to      *)
(* mongod, if it has one, and gives up.                                     *)
InterceptFails(s) ==
  /\ At(s, "intercept")
  /\ GoTo(s, IF pooledConn[s] = NoConn THEN "exit" ELSE "fatal")
  /\ UNCHANGED <<poolVars, nsent, msg, resp, pooledConn, toMongo, fromMongo, served>>

(* It returns an error and a message, the client's own or another one, to   *)
(* which RespondWithError responds.  That may fail, and a message without a *)
(* response cannot be answered.                                             *)
InterceptRefuses(s) ==
  /\ At(s, "intercept")
  /\ \E m \in Requests(s, nsent[s]) :
       /\ msg' = [msg EXCEPT ![s] = m]
       /\ \/ HasResponse(m) /\ GoTo(s, "read")
          \/ GoTo(s, "exit")
  /\ UNCHANGED <<poolVars, nsent, resp, pooledConn, toMongo, fromMongo, served>>

-----------------------------------------------------------------------------
(* The connection to mongod: the one kept from a request without response,  *)
(* or one from the pool.                                                    *)
KeepConn(s) ==
  /\ At(s, "acquire")
  /\ pooledConn[s] # NoConn
  /\ GoTo(s, "send")
  /\ UNCHANGED <<poolVars, nsent, msg, resp, pooledConn, toMongo, fromMongo, served>>

CallGet(s) ==
  /\ At(s, "acquire")
  /\ pooledConn[s] = NoConn
  /\ GetCall(s) \/ GetStep(s)
  /\ UNCHANGED proxyVars

GetConn(s) ==
  /\ At(s, "acquire")
  /\ GetReturns(s)
  /\ pooledConn' = [pooledConn EXCEPT ![s] = conn[s]]
  /\ GoTo(s, "send")
  /\ UNCHANGED <<nsent, msg, resp, toMongo, fromMongo, served>>

GetConnFails(s) ==
  /\ At(s, "acquire")
  /\ GetFails(s)
  /\ GoTo(s, "exit")
  /\ UNCHANGED <<nsent, msg, resp, pooledConn, toMongo, fromMongo, served>>

(* Faulty variant: the connection is given back after a request without     *)
(* response, too.                                                           *)
SendAndRelease(s) ==
  /\ At(s, "send")
  /\ LET c == pooledConn[s] IN
       /\ crashed' = closed[c]
       /\ toMongo' = [toMongo EXCEPT ![c] = Append(@, msg[s])]
  /\ GoTo(s, IF expectingResponse(msg[s]) /\ HasResponse(msg[s]) THEN "await" ELSE "deferOk")
  /\ UNCHANGED <<pool, totalCreated, sock, closed, bad, lastUsed, now, poolpc, conn>>
  /\ UNCHANGED <<nsent, msg, resp, pooledConn, fromMongo, served>>

(* The "oh no!" check, the write, and whether a reply is waited for.  After *)
(* a request without one the session keeps its connection to mongod.        *)
SendToMongo(s) ==
  /\ At(s, "send")
  /\ LET c == pooledConn[s] IN
       /\ crashed' = closed[c]
       /\ toMongo' = [toMongo EXCEPT ![c] = Append(@, msg[s])]
  /\ GoTo(s, IF expectingResponse(msg[s]) /\ HasResponse(msg[s]) THEN "await" ELSE "read")
  /\ UNCHANGED <<pool, totalCreated, sock, closed, bad, lastUsed, now, poolpc, conn>>
  /\ UNCHANGED <<nsent, msg, resp, pooledConn, fromMongo, served>>

(* Faulty variant: an error that DoLoopTemp does not see, so that it does   *)
(* not give the connection back.                                            *)
SendFailsKeeps(s) ==
  /\ At(s, "send")
  /\ ~closed[pooledConn[s]]
  /\ MarkBad(s, pooledConn[s])
  /\ GoTo(s, "end")
  /\ UNCHANGED <<nsent, msg, resp, pooledConn, toMongo, fromMongo, served>>

SendFails(s) ==
  /\ At(s, "send")
  /\ ~closed[pooledConn[s]]
  /\ MarkBad(s, pooledConn[s])
  /\ GoTo(s, "exit")
  /\ UNCHANGED <<nsent, msg, resp, pooledConn, toMongo, fromMongo, served>>

-----------------------------------------------------------------------------
(* The reply loop.  pooledConn.Close is deferred from here on. *)
ReadReply(s) ==
  /\ At(s, "await")
  /\ LET c == pooledConn[s] IN
       /\ fromMongo[c] # <<>>
       /\ resp' = [resp EXCEPT ![s] = Head(fromMongo[c])]
       /\ fromMongo' = [fromMongo EXCEPT ![c] = Tail(@)]
  /\ GoTo(s, "forward")
  /\ UNCHANGED <<poolVars, nsent, msg, pooledConn, toMongo, served>>

(* Faulty variant: bad is not set when the reply cannot be read. *)
ReadReplyFailsGood(s) ==
  /\ At(s, "await")
  /\ GoTo(s, "deferErr")
  /\ UNCHANGED <<poolVars, nsent, msg, resp, pooledConn, toMongo, fromMongo, served>>

ReadReplyFails(s) ==
  /\ At(s, "await")
  /\ MarkBad(s, pooledConn[s])
  /\ GoTo(s, "deferErr")
  /\ UNCHANGED <<nsent, msg, resp, pooledConn, toMongo, fromMongo, served>>

(* In exhaust mode the loop reads on until a reply has cursor id 0. *)
ForwardReply(s) ==
  /\ At(s, "forward")
  /\ GoTo(s, IF inExhaustMode(msg[s]) /\ resp[s].left # 1 THEN "await" ELSE "deferOk")
  /\ UNCHANGED <<poolVars, nsent, msg, resp, pooledConn, toMongo, fromMongo, served>>

(* InterceptMongoToClient fails, or the client cannot be written to. *)
ForwardFails(s) ==
  /\ At(s, "forward")
  /\ GoTo(s, "deferErr")
  /\ UNCHANGED <<poolVars, nsent, msg, resp, pooledConn, toMongo, fromMongo, served>>

-----------------------------------------------------------------------------
(* pooledConn.Close() at its call sites: the failing interceptor ("fatal"), *)
(* the defer of the reply loop, and DoLoopTemp on an error ("exit").  doLoop *)
(* returns nil for the connection it closed; DoLoopTemp returns.            *)
ClosePcs == {"fatal", "deferOk", "deferErr", "exit"}

(* Faulty variant: doLoop returns the connection that its defer closes. *)
CloseReturnsConn(s) ==
  /\ GoTo(s, CASE At(s, "deferOk") -> "read"
               [] At(s, "exit") -> "end"
               [] OTHER -> "exit")
  /\ UNCHANGED pooledConn

CloseReturns(s) ==
  /\ GoTo(s, CASE At(s, "deferOk") -> "read"
               [] At(s, "exit") -> "end"
               [] OTHER -> "exit")
  /\ pooledConn' = IF At(s, "exit") THEN pooledConn
                   ELSE [pooledConn EXCEPT ![s] = NoConn]

CloseConn(s) ==
  /\ sesspc[s] \in ClosePcs
  /\ pooledConn[s] # NoConn
  /\ \/ poolpc[s] # "push" /\ PutBad(s, pooledConn[s]) /\ CloseReturns(s)
     \/ poolpc[s] # "push" /\ PutGood(s, pooledConn[s]) /\ UNCHANGED <<sesspc, pooledConn>>
     \/ Push(s) /\ CloseReturns(s)
  /\ UNCHANGED <<nsent, msg, resp, toMongo, fromMongo, served>>

NothingToClose(s) ==
  /\ At(s, "exit")
  /\ pooledConn[s] = NoConn
  /\ GoTo(s, "end")
  /\ UNCHANGED <<poolVars, nsent, msg, resp, pooledConn, toMongo, fromMongo, served>>

(* The defer of Session.Run: the client's socket is closed, then the worker *)
(* and with it the interceptor, which Close does not expect to be nil.      *)
EndSession(s) ==
  /\ At(s, "end")
  /\ crashed' = ~HasInterceptor
  /\ GoTo(s, "closed")
  /\ UNCHANGED <<pool, totalCreated, sock, closed, bad, lastUsed, now, poolpc, conn>>
  /\ UNCHANGED <<nsent, msg, resp, pooledConn, toMongo, fromMongo, served>>

-----------------------------------------------------------------------------
(* mongod takes the next request of a connection, or sends its next reply. *)
OneLess(m) == [m EXCEPT !.left = @ - 1]

MongoServes(c) ==
  /\ toMongo[c] # <<>>
  /\ LET m == Head(toMongo[c]) IN
       /\ served' = [served EXCEPT ![m.by] = m.num]
       /\ fromMongo' = IF m.left = 0 THEN fromMongo
                       ELSE [fromMongo EXCEPT ![c] = Append(@, ReplyTo(m))]
       /\ toMongo' = [toMongo EXCEPT ![c] =
                        IF m.left > 1 THEN [@ EXCEPT ![1] = OneLess(m)] ELSE Tail(@)]
  /\ UNCHANGED <<poolVars, sesspc, nsent, msg, resp, pooledConn>>

(* What a session does once it has a request. *)
SessionStep(s) ==
  \/ CreateWorker(s)
  \/ InterceptPasses(s) \/ InterceptAnswers(s) \/ InterceptFails(s) \/ InterceptRefuses(s)
  \/ KeepConn(s) \/ CallGet(s) \/ GetConn(s) \/ GetConnFails(s)
  \/ SendToMongo(s) \/ SendFails(s)
  \/ ReadReply(s) \/ ForwardReply(s) \/ ForwardFails(s)
  \/ CloseConn(s) \/ NothingToClose(s) \/ EndSession(s)

Next ==
  /\ ~crashed
  /\ \/ \E s \in Users : \/ SessionStep(s)
                         \/ ReadRequest(s) \/ ReadFails(s) \/ ReadReplyFails(s)
     \/ \E c \in Conns : MongoServes(c)
     \/ Tick /\ UNCHANGED proxyVars

Spec == Init /\ [][Next]_vars

-----------------------------------------------------------------------------
(* Properties *)

(* Neither "closing a connection twice" nor "oh no!" is reached, and no      *)
(* session calls a nil interceptor, on any path through doLoop.             *)
NoPanic == ~crashed

(* The reply a session is about to forward answers the request it is        *)
(* handling: replies are not matched by id, only by the connection they     *)
(* come from, which other sessions used before.                             *)
ReplyMatches ==
  \A s \in Users :
    At(s, "forward") => resp[s].by = s /\ resp[s].num = msg[s].num

(* No reply is under way on connection c, and none will be. *)
Quiet(c) ==
  /\ fromMongo[c] = <<>>
  /\ \A i \in DOMAIN toMongo[c] : toMongo[c][i].left = 0

(* A connection that Put accepted carries no reply left over for the next   *)
(* session that Get gives it to.                                            *)
PoolQuiet == \A c \in Conns : closed[c] /\ sock[c] = "open" => Quiet(c)

(* A session that has left DoLoopTemp, by whichever error, has given its    *)
(* connection back.                                                         *)
NothingKept ==
  \A s \in Users : sesspc[s] \in {"end", "closed"} => \A c \in Conns : ~Holds(s, c)

(* mongod sees the requests of a client in the order it sent them, although *)
(* they travel on different connections: a session changes its connection   *)
(* only after a reply.                                                      *)
OrderKept == [][\A s \in Users : served'[s] >= served[s]]_vars

(* The sessions use the pool by its contract: seen at the pool, the proxy   *)
(* is the pool with disciplined users.                                      *)
ObeysPool == PoolSpec
=============================================================================
