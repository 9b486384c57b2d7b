------------------------------- MODULE Server -------------------------------
(***************************************************************************)
(* server.go and Session.Run: the accept loop, one goroutine for every     *)
(* call of Accept, one for every session, and the shutdown that Close      *)
(* starts.                                                                 *)
(*                                                                         *)
(* A client connects once.  The workers are external: one that is created  *)
(* by a contextual factory leaves DoLoopTemp when the session context is   *)
(* done, as the comment on ServerWorkerWithContextFactory asks; any worker *)
(* leaves it when its client does.                                         *)
(***************************************************************************)
EXTENDS Integers, Sequences, FiniteSets, SyncTls

CONSTANTS
  Clients,
  Configs,  \* the servers that are considered
  Failed    \* the accepted value that carries an error

(* contextual: the factory is a ServerWorkerWithContextFactory; manager:     *)
(* sessionManager is set (by NewServer, not by InitializeServer); useSSL:    *)
(* config.UseSSL; acceptFails: Accept may fail on an open listener.          *)
ServerConfigs ==
  [contextual: BOOLEAN, manager: BOOLEAN, useSSL: BOOLEAN, acceptFails: BOOLEAN]

ASSUME ServerAssumption ==
  /\ IsFiniteSet(Clients)
  /\ Failed \notin Clients
  /\ Configs \subseteq ServerConfigs
  /\ \A cf \in Configs : cf.contextual => cf.manager

VARIABLES
  config,     \* the server's configuration
  runpc,      \* the statement Run has reached
  listener,   \* "none", "open" or "closed"
  initChan,   \* what was sent on initChan: "none", "ok" or "error"
  killed,     \* killChan is closed
  done,       \* doneChan is closed
  ctxDone,    \* the session context is cancelled
  sessionWG,  \* the counter of the wait group
  accepting,  \* goroutines inside Accept
  offers,     \* goroutines that have an accepted value to send
  incoming,   \* incomingConnections
  backlog,    \* clients that connected and were not accepted
  sess,       \* the statement of Session.Run a client's session has reached
  using,      \* the tls.Config a client's connection was given
  closepc,    \* the caller of Close
  panicked    \* a nil sessionManager or a negative counter ended the process

given == <<tlsVars, config, using>>
listenVars == <<listener, initChan>>
stopVars == <<killed, done, ctxDone>>
acceptVars == <<accepting, offers, incoming, backlog>>
vars == <<given, listenVars, stopVars, acceptVars, runpc, sessionWG, sess, closepc,
          panicked>>

Capacity == 1  \* make(chan accepted, 1)

(* "dropWorker" and "dropNone" are the defer of Session.Run with and without *)
(* a worker, after the client's socket is closed.                           *)
SessPcs == {"none", "handshake", "create", "loop", "dropWorker", "dropNone",
            "wgDone", "gone"}

TypeOK ==
  /\ TlsTypeOK
  /\ config \in Configs
  /\ using \in [Clients -> 0..MaxLoads]
  /\ runpc \in {"start", "loop", "select", "unwind", "wait", "returned"}
  /\ listener \in {"none", "open", "closed"}
  /\ initChan \in {"none", "ok", "error"}
  /\ {killed, done, ctxDone, panicked} \subseteq BOOLEAN
  /\ sessionWG \in 0..Cardinality(Clients)
  /\ accepting \in Nat
  /\ offers \in Seq(Clients \cup {Failed})
  /\ incoming \in Seq(Clients \cup {Failed})
  /\ backlog \subseteq Clients
  /\ sess \in [Clients -> SessPcs]
  /\ closepc \in {"idle", "waiting", "returned"}

Init ==
  /\ TlsInit
  /\ config \in Configs
  /\ using = [c \in Clients |-> 0]
  /\ runpc = "start"
  /\ listener = "none"
  /\ initChan = "none"
  /\ killed = FALSE
  /\ done = FALSE
  /\ ctxDone = FALSE
  /\ sessionWG = 0
  /\ accepting = 0
  /\ offers = <<>>
  /\ incoming = <<>>
  /\ backlog = {}
  /\ sess = [c \in Clients |-> "none"]
  /\ closepc = "idle"
  /\ panicked = FALSE

-----------------------------------------------------------------------------
(* Run *)

Listen ==
  /\ runpc = "start"
  /\ runpc' = "loop"
  /\ listener' = "open"
  /\ initChan' = "ok"
  /\ UNCHANGED <<given, stopVars, acceptVars, sessionWG, sess, closepc,
                 panicked>>

(* The deferred function that closes doneChan is not installed yet.  (What   *)
(* is sent on initChan fits its buffer; it is closed when Run has returned.) *)
ListenFails ==
  /\ runpc = "start"
  /\ runpc' = "returned"
  /\ initChan' = "error"
  /\ UNCHANGED <<given, stopVars, acceptVars, listener, sessionWG, sess,
                 closepc, panicked>>

(* Faulty variant: the goroutine is started once, before the loop. *)
SpawnAcceptOnce ==
  /\ runpc = "loop"
  /\ runpc' = "select"
  /\ accepting' = IF \A c \in Clients : sess[c] = "none" THEN accepting + 1 ELSE accepting
  /\ UNCHANGED <<given, listenVars, stopVars, sessionWG, offers, incoming,
                 backlog, sess, closepc, panicked>>

SpawnAccept ==
  /\ runpc = "loop"
  /\ runpc' = "select"
  /\ accepting' = accepting + 1
  /\ UNCHANGED <<given, listenVars, stopVars, sessionWG, offers, incoming,
                 backlog, sess, closepc, panicked>>

(* Faulty variant: stopSessions is not called. *)
SelectKillOnly ==
  /\ runpc = "select"
  /\ killed
  /\ runpc' = "unwind"
  /\ UNCHANGED <<given, listenVars, stopVars, acceptVars, sessionWG, sess,
                 closepc, panicked>>

(* case <-s.killChan *)
SelectKill ==
  /\ runpc = "select"
  /\ killed
  /\ panicked' = ~config.manager
  /\ ctxDone' = TRUE
  /\ runpc' = "unwind"
  /\ UNCHANGED <<given, listenVars, acceptVars, killed, done, sessionWG, sess,
                 closepc>>

(* Faulty variant: the session is not counted before its goroutine starts. *)
SelectConnUncounted ==
  /\ runpc = "select"
  /\ incoming # <<>>
  /\ Head(incoming) # Failed
  /\ incoming' = Tail(incoming)
  /\ sess' = [sess EXCEPT ![Head(incoming)] =
                IF config.useSSL THEN "handshake" ELSE "create"]
  /\ runpc' = "loop"
  /\ UNCHANGED <<given, listenVars, stopVars, sessionWG, accepting, offers, backlog,
                 closepc, panicked>>

(* case connectionEvent := <-incomingConnections, with a connection: it     *)
(* gets the TLS configuration of the moment, and the session is counted     *)
(* here, before its goroutine starts.                                       *)
SelectConn ==
  /\ runpc = "select"
  /\ incoming # <<>>
  /\ Head(incoming) # Failed
  /\ config.useSSL => getTlsConfig
  /\ incoming' = Tail(incoming)
  /\ LET c == Head(incoming) IN
       /\ sess' = [sess EXCEPT ![c] = IF config.useSSL THEN "handshake" ELSE "create"]
       /\ using' = IF config.useSSL THEN [using EXCEPT ![c] = tlsConfig] ELSE using
  /\ sessionWG' = IF config.contextual THEN sessionWG + 1 ELSE sessionWG
  /\ runpc' = "loop"
  /\ UNCHANGED <<tlsVars, config, listenVars, stopVars, accepting, offers, backlog,
                 closepc, panicked>>

(* ... and with an error: Run returns, and does not call stopSessions. *)
SelectError ==
  /\ runpc = "select"
  /\ incoming # <<>>
  /\ Head(incoming) = Failed
  /\ incoming' = Tail(incoming)
  /\ runpc' = "unwind"
  /\ UNCHANGED <<given, listenVars, stopVars, sessionWG, accepting, offers,
                 backlog, sess, closepc, panicked>>

(* Faulty variant: ln.Close is forgotten. *)
KeepListener ==
  /\ runpc = "unwind"
  /\ runpc' = "wait"
  /\ UNCHANGED <<given, listenVars, stopVars, acceptVars, sessionWG, sess,
                 closepc, panicked>>

(* The deferred function: ln.Close, sessionWG.Wait, close(doneChan). *)
CloseListener ==
  /\ runpc = "unwind"
  /\ listener' = "closed"
  /\ panicked' = ~config.manager
  /\ runpc' = "wait"
  /\ UNCHANGED <<given, stopVars, acceptVars, initChan, sessionWG, sess,
                 closepc>>

WaitSessions ==
  /\ runpc = "wait"
  /\ sessionWG = 0
  /\ done' = TRUE
  /\ runpc' = "returned"
  /\ UNCHANGED <<given, listenVars, acceptVars, killed, ctxDone, sessionWG,
                 sess, closepc, panicked>>

RunStep == Listen \/ ListenFails \/ SpawnAccept \/ SelectKill \/ SelectConn
             \/ SelectError \/ CloseListener \/ WaitSessions

-----------------------------------------------------------------------------
(* The goroutines that Run starts to call Accept. *)

(* Faulty variant: the goroutine calls Accept again after each connection. *)
AcceptReturnsLoops(e) ==
  /\ accepting > 0
  /\ UNCHANGED accepting
  /\ offers' = Append(offers, e)

AcceptReturns(e) ==
  /\ accepting > 0
  /\ accepting' = accepting - 1
  /\ offers' = Append(offers, e)

Accept(c) ==
  /\ listener = "open"
  /\ c \in backlog
  /\ AcceptReturns(c)
  /\ backlog' = backlog \ {c}
  /\ UNCHANGED <<given, listenVars, stopVars, runpc, sessionWG, incoming, sess,
                 closepc, panicked>>

AcceptFails ==
  /\ config.acceptFails
  /\ listener = "open"
  /\ AcceptReturns(Failed)
  /\ UNCHANGED <<given, listenVars, stopVars, runpc, sessionWG, incoming,
                 backlog, sess, closepc, panicked>>

AcceptClosed ==
  /\ listener = "closed"
  /\ AcceptReturns(Failed)
  /\ UNCHANGED <<given, listenVars, stopVars, runpc, sessionWG, incoming,
                 backlog, sess, closepc, panicked>>

(* incomingConnections <- accepted{conn, err} blocks while the buffer is full. *)
Offer ==
  /\ offers # <<>>
  /\ Len(incoming) < Capacity
  /\ incoming' = Append(incoming, Head(offers))
  /\ offers' = Tail(offers)
  /\ UNCHANGED <<given, listenVars, stopVars, runpc, sessionWG, accepting,
                 backlog, sess, closepc, panicked>>

-----------------------------------------------------------------------------
(* Session.Run *)

SessionMoves(c, from, to) ==
  /\ sess[c] = from
  /\ sess' = [sess EXCEPT ![c] = to]
  /\ UNCHANGED <<given, listenVars, stopVars, acceptVars, runpc, closepc>>

Handshake(c) ==
  /\ \E to \in {"create", "dropNone"} : SessionMoves(c, "handshake", to)
  /\ UNCHANGED <<sessionWG, panicked>>

CreateWorker(c) ==
  /\ \E to \in {"loop", "dropNone"} : SessionMoves(c, "create", to)
  /\ UNCHANGED <<sessionWG, panicked>>

(* DoLoopTemp returns because the client left or a message was bad ... *)
LoopEnds(c) ==
  /\ SessionMoves(c, "loop", "dropWorker")
  /\ UNCHANGED <<sessionWG, panicked>>

(* ... or because the worker sees that the context is done. *)
LoopCancelled(c) ==
  /\ config.contextual
  /\ ctxDone
  /\ LoopEnds(c)

CloseWorker(c) ==
  /\ \/ SessionMoves(c, "dropWorker", "wgDone")
     \/ SessionMoves(c, "dropNone", "wgDone")
  /\ UNCHANGED <<sessionWG, panicked>>

(* Faulty variant: Done is called whatever the factory. *)
SessionAlwaysDone(c) ==
  /\ SessionMoves(c, "wgDone", "gone")
  /\ sessionWG' = sessionWG - 1
  /\ panicked' = (sessionWG' < 0)

SessionDone(c) ==
  /\ SessionMoves(c, "wgDone", "gone")
  /\ sessionWG' = IF config.contextual THEN sessionWG - 1 ELSE sessionWG
  /\ panicked' = (sessionWG' < 0)

-----------------------------------------------------------------------------
(* The outside: clients connect while the listener is open, and the owner of *)
(* the server calls Close, at any time.  A Proxy, whose server has no        *)
(* manager, keeps its server to itself and offers no Close.                 *)

Connect(c) ==
  /\ listener = "open"
  /\ sess[c] = "none"
  /\ c \notin backlog
  /\ \A i \in DOMAIN offers : offers[i] # c
  /\ \A i \in DOMAIN incoming : incoming[i] # c
  /\ backlog' = backlog \cup {c}
  /\ UNCHANGED <<given, listenVars, stopVars, runpc, sessionWG, accepting,
                 offers, incoming, sess, closepc, panicked>>

CallClose ==
  /\ config.manager
  /\ closepc = "idle"
  /\ closepc' = "waiting"
  /\ killed' = TRUE
  /\ UNCHANGED <<given, listenVars, acceptVars, runpc, done, ctxDone,
                 sessionWG, sess, panicked>>

CloseReturns ==
  /\ closepc = "waiting"
  /\ done
  /\ closepc' = "returned"
  /\ UNCHANGED <<given, listenVars, stopVars, acceptVars, runpc, sessionWG,
                 sess, panicked>>

(* OnSSLConfig replaces the TLS configuration, at any time. *)
Reload ==
  /\ config.useSSL
  /\ setTlsConfig
  /\ UNCHANGED <<config, using, listenVars, stopVars, acceptVars, runpc,
                 sessionWG, sess, closepc, panicked>>

(* What a session does of its own accord. *)
SessionStep(c) ==
  CreateWorker(c) \/ LoopCancelled(c) \/ CloseWorker(c) \/ SessionDone(c)

Next ==
  /\ ~panicked
  /\ \/ RunStep
     \/ AcceptFails \/ AcceptClosed \/ Offer
     \/ CallClose \/ CloseReturns \/ Reload
     \/ \E c \in Clients : Accept(c) \/ Connect(c) \/ Handshake(c) \/ LoopEnds(c)
                             \/ SessionStep(c)

Spec == Init /\ [][Next]_vars

(* Goroutines that can run are scheduled; select takes each ready case with *)
(* the same probability, so it does not pass over killChan for ever; a      *)
(* worker that can see the context is done returns.  Nothing is assumed of  *)
(* clients: a handshake or a session may last for ever.                     *)
Fairness ==
  /\ WF_vars(~panicked /\ RunStep)
  /\ SF_vars(~panicked /\ SelectKill)
  /\ WF_vars(~panicked /\ AcceptClosed)
  /\ WF_vars(~panicked /\ Offer)
  /\ WF_vars(~panicked /\ CloseReturns)
  /\ WF_vars(~panicked /\ tlsLock /\ Reload)
  /\ \A c \in Clients : /\ WF_vars(~panicked /\ Accept(c))
                        /\ WF_vars(~panicked /\ SessionStep(c))

FairSpec == Spec /\ Fairness

-----------------------------------------------------------------------------
(* Properties *)

(* Neither a nil sessionManager nor a negative wait group is met. *)
NoPanic == ~panicked

Running(c) == sess[c] \notin {"none", "wgDone", "gone"}

(* "wait for all sessions to end": once doneChan is closed, and so once     *)
(* Close has returned, every session that a contextual factory serves has   *)
(* closed its worker.  (Other sessions are not counted and may still run.)  *)
DoneMeansEnded == config.contextual /\ done => \A c \in Clients : ~Running(c)

(* The server in the terms of ServerLife: a session is active from the      *)
(* moment Run starts it until its worker is closed.                         *)
Phase ==
  CASE runpc = "start" -> "starting"
    [] runpc \in {"loop", "select"} -> "running"
    [] runpc \in {"unwind", "wait"} -> "stopping"
    [] OTHER -> "stopped"

Life == INSTANCE ServerLife WITH
  waits <- config.contextual,
  phase <- Phase,
  active <- {c \in Clients : Running(c)},
  ended <- {c \in Clients : sess[c] \in {"wgDone", "gone"}}

(* Run and Session.Run together keep the promise of ServerLife: no session  *)
(* begins outside the accept loop or twice, Run returns after the last one  *)
(* that it counts, and it does return when there is none.                   *)
RefinesLife == Life!LifeSpec

(* The TLS configuration of a session is complete: the accept loop does not *)
(* get one whose names OnSSLConfig has still to build.                      *)
TlsReady == config.useSSL => \A c \in Clients : Running(c) => using[c] \in built

(* An accepted connection is on its way to one session: at most one Accept  *)
(* is outstanding or undelivered, so its goroutine never waits on a full    *)
(* channel and shutdown abandons at most one connection.                    *)
OneAcceptor == accepting + Len(offers) + Len(incoming) <= 1

(* A client that connects gets a session, however the connections of other  *)
(* clients and a reload of the TLS configuration interleave, unless Run     *)
(* leaves its loop.                                                         *)
EveryClientServed ==
  \A c \in Clients :
    c \in backlog ~> (sess[c] # "none" \/ runpc \in {"unwind", "wait", "returned"})

(* Close returns: every contextual session is told to stop and is waited    *)
(* for, whichever clients stay connected.  (A TLS handshake has no time     *)
(* limit, and after a failing Accept nobody calls stopSessions.)            *)
CloseTerminates ==
  (closepc = "waiting" /\ listener # "none" /\ ~config.useSSL /\ ~config.acceptFails)
    ~> closepc = "returned"

(* The goroutine that is inside Accept when the server stops ends too: it   *)
(* does not wait for a client that never comes or for a reader of the       *)
(* channel.                                                                 *)
AcceptorEnds == done ~> accepting = 0 /\ offers = <<>>

(* "The server will call stopSessions() when the server killChan is closed; *)
(* stopSessions() will close the Done channel": a session that is running   *)
(* when Close is called is told to stop, unless it ends before.             *)
KillStopsSessions ==
  \A c \in Clients : (killed /\ sess[c] = "loop") ~> (ctxDone \/ sess[c] # "loop")
=============================================================================
