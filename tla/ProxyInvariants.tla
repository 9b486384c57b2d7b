-------------------------- MODULE ProxyInvariants ---------------------------
(***************************************************************************)
(* What holds of the sessions, the pool and the connections to mongod in   *)
(* every state of Proxy that serves no exhaust queries, strong enough to   *)
(* be kept by each step on its own.                                        *)
(***************************************************************************)
EXTENDS Proxy

(* Where the session's connection is, in the terms of the pool: a session    *)
(* that has none is outside the pool or inside Get, one that has one is      *)
(* between Get and Put, or inside the Put of the Close it calls.             *)
Linked(s) ==
  IF sesspc[s] \in {"end", "closed"} THEN poolpc[s] = "out"
  ELSE IF pooledConn[s] = NoConn
  THEN /\ sesspc[s] \in {"start", "read", "intercept", "acquire", "exit"}
       /\ \/ poolpc[s] = "out"
          \/ sesspc[s] = "acquire" /\ poolpc[s] \in {"rawGet", "check", "dial", "hook", "count"}
  ELSE /\ sesspc[s] # "start"
       /\ conn[s] = pooledConn[s]
       /\ poolpc[s] = "has" \/ (poolpc[s] = "push" /\ sesspc[s] \in ClosePcs)

LinkInv ==
  /\ sesspc \in [Users -> SessPcs]
  /\ pooledConn \in [Users -> Conns \cup {NoConn}]
  /\ \A s \in Users : Linked(s)

(* Without exhaust queries a request has one reply or none, and none if its  *)
(* type has no response.                                                     *)
Messages == [by: Users, num: Nat, kind: Kinds, left: {0, 1}]
ReplyMessages == [by: Users, num: Nat, left: {0, 1}]

Single(s) ==
  /\ msg[s] \in Messages
  /\ msg[s].by = s
  /\ msg[s].left = 1 => HasResponse(msg[s])

MsgInv ==
  /\ nsent \in [Users -> Nat]
  /\ msg \in [Users -> Messages \cup {None}]
  /\ \A s \in Users :
       sesspc[s] \in {"intercept", "acquire", "send", "await", "forward"} => Single(s)
  /\ toMongo \in [Conns -> Seq(Messages)]
  /\ fromMongo \in [Conns -> Seq(ReplyMessages)]
  /\ resp \in [Users -> ReplyMessages \cup {None}]

(* The one reply a session waits for is under way. *)
Awaits(s, c) ==
  \/ /\ fromMongo[c] = <<>>
     /\ toMongo[c] # <<>>
     /\ toMongo[c][Len(toMongo[c])] = msg[s]
     /\ msg[s].left = 1
     /\ \A i \in 1..(Len(toMongo[c]) - 1) : toMongo[c][i].left = 0
  \/ toMongo[c] = <<>> /\ fromMongo[c] = <<ReplyTo(msg[s])>>

(* A connection that is marked bad is on its way to Put. *)
Sound(s) ==
  /\ pooledConn[s] # NoConn /\ sesspc[s] \notin {"deferErr", "exit", "end", "closed"} =>
       ~bad[pooledConn[s]]
  /\ poolpc[s] \in {"hook", "count"} => ~bad[conn[s]]

ReplyInv ==
  /\ \A s \in Users : Sound(s)
  /\ \A s \in Users : sesspc[s] = "await" => Awaits(s, pooledConn[s])
  /\ \A s \in Users : sesspc[s] = "forward" => resp[s] = ReplyTo(msg[s])
  /\ \A c \in Conns :
       ~bad[c] /\ (\A s \in Users : sesspc[s] = "await" => pooledConn[s] # c) => Quiet(c)

-----------------------------------------------------------------------------
(* The places from which a session comes to send a request, and those from  *)
(* which it sends none any more.                                            *)
Sending == {"intercept", "acquire", "send"}
Ending == {"fatal", "deferErr", "exit", "end", "closed"}

(* With every kind of request: a session that handles a request has one of  *)
(* its client's, and only such requests and the replies to them travel.     *)
SentMessages == [by: Users, num: 1..MaxRequests, kind: Kinds, left: 0..MaxBatches]
SentReplies == [by: Users, num: 1..MaxRequests, left: 1..MaxBatches]

TypeInv ==
  /\ nsent \in [Users -> 0..MaxRequests]
  /\ served \in [Users -> 0..MaxRequests]
  /\ msg \in [Users -> SentMessages \cup {None}]
  /\ resp \in [Users -> SentReplies \cup {None}]
  /\ toMongo \in [Conns -> Seq(SentMessages)]
  /\ fromMongo \in [Conns -> Seq(SentReplies)]
  /\ \A s \in Users : msg[s] # None => msg[s] \in Requests(s, nsent[s])
  /\ \A s \in Users : sesspc[s] \in Sending => nsent[s] > 0 /\ msg[s] \in Requests(s, nsent[s])

(* A request on its way to mongod on connection c is one of its client's,   *)
(* not served yet, and c is the connection of its session.                  *)
Waits(m, c) ==
  /\ served[m.by] < m.num
  /\ m.num <= nsent[m.by]
  /\ sesspc[m.by] \in Sending => m.num < nsent[m.by]
  /\ sesspc[m.by] \notin Ending => pooledConn[m.by] = c

(* The requests of a session that mongod has not served are all on one       *)
(* connection, in the order they were read, and none is left when the        *)
(* session has a reply: only then does it go on with another connection.     *)
OrderInv ==
  /\ served \in [Users -> Nat]
  /\ \A s \in Users : served[s] <= nsent[s]
  /\ \A s \in Users : sesspc[s] \in Sending => msg[s].num = nsent[s] /\ served[s] < nsent[s]
  /\ \A s \in Users : sesspc[s] \in {"forward", "deferOk"} => toMongo[pooledConn[s]] = <<>>
  /\ \A c \in Conns : \A i \in DOMAIN toMongo[c] : Waits(toMongo[c][i], c)
  /\ \A c, d \in Conns : \A i \in DOMAIN toMongo[c], j \in DOMAIN toMongo[d] :
       toMongo[c][i].by = toMongo[d][j].by =>
         c = d /\ (i < j => toMongo[c][i].num < toMongo[d][j].num)

(* The invariant of the proxy on which its safety rests: every connection is *)
(* accounted for, one reply is under way on a connection that a session      *)
(* waits on, and none on any other that will be used again, and the requests *)
(* of a session wait for mongod in order on one connection.                  *)
ProxyInv == PoolInv /\ LinkInv /\ MsgInv /\ ReplyInv /\ OrderInv

-----------------------------------------------------------------------------
(* The steps of doLoop and DoLoopTemp between the calls of the pool. *)
Outside(s) ==
  \/ CreateWorker(s) \/ ReadRequest(s) \/ ReadFails(s)
  \/ InterceptPasses(s) \/ InterceptAnswers(s) \/ InterceptFails(s) \/ InterceptRefuses(s)
  \/ KeepConn(s) \/ ReadReply(s) \/ ForwardReply(s) \/ ForwardFails(s) \/ NothingToClose(s)

(* The places at which a session handles a request. *)
Handling == {"intercept", "acquire", "send", "await", "forward"}
=============================================================================
