---------------------------- MODULE ServerProofs ----------------------------
(***************************************************************************)
(* Proofs about Server for any finite set of clients, any set of server    *)
(* configurations and any number of reloads.                               *)
(***************************************************************************)
EXTENDS Server, FiniteSetTheorems, TLAPS

(* TypeOK without the bound on sessionWG, which rests on CountInv. *)
Typed ==
  /\ config \in Configs
  /\ runpc \in {"start", "loop", "select", "unwind", "wait", "returned"}
  /\ listener \in {"none", "open", "closed"}
  /\ initChan \in {"none", "ok", "error"}
  /\ accepting \in Nat
  /\ offers \in Seq(Clients \cup {Failed})
  /\ incoming \in Seq(Clients \cup {Failed})
  /\ backlog \subseteq Clients
  /\ sess \in [Clients -> SessPcs]
  /\ closepc \in {"idle", "waiting", "returned"}

Flags ==
  /\ killed \in BOOLEAN
  /\ done \in BOOLEAN
  /\ ctxDone \in BOOLEAN
  /\ panicked \in BOOLEAN

(* Nothing is on its way to Run when it is about to start an Accept. *)
AcceptInv ==
  /\ OneAcceptor
  /\ runpc \in {"start", "loop"} => accepting + Len(offers) + Len(incoming) = 0

(* A connection that is on its way has no session, and is not offered by the *)
(* listener any more once it is accepted.                                   *)
Offered(q) ==
  \A i \in DOMAIN q : q[i] # Failed => sess[q[i]] = "none" /\ q[i] \notin backlog

PlaceInv ==
  /\ \A c \in backlog : sess[c] = "none"
  /\ Offered(offers)
  /\ Offered(incoming)

(* The sessions that have called Add and not Done. *)
Counted == {c \in Clients : sess[c] \notin {"none", "gone"}}

CountInv == sessionWG = IF config.contextual THEN Cardinality(Counted) ELSE 0

DoneInv ==
  /\ done => runpc = "returned"
  /\ done /\ config.contextual => Counted = {}

(* setTlsConfig holds the lock while the current configuration is not built. *)
TlsInv ==
  /\ tlsLock <=> reload = "build"
  /\ reload = "load" => tlsConfig < MaxLoads
  /\ reload # "build" => tlsConfig \in built
  /\ using \in [Clients -> 0..MaxLoads]
  /\ \A c \in Clients : using[c] \in built

ServerInv ==
  Typed /\ Flags /\ AcceptInv /\ PlaceInv /\ CountInv /\ DoneInv /\ TlsTypeOK /\ TlsInv

(* A server without sessionManager is not told to stop, and meets no error  *)
(* of Accept, unless Accept may fail.                                       *)
PanicInv ==
  /\ ~panicked
  /\ ~config.manager /\ ~config.acceptFails =>
       /\ ~killed
       /\ runpc \in {"start", "loop", "select", "returned"}
       /\ listener # "closed"
       /\ \A i \in DOMAIN offers : offers[i] # Failed
       /\ \A i \in DOMAIN incoming : incoming[i] # Failed

-----------------------------------------------------------------------------
(* A server that has not been started satisfies the invariant. *)
LEMMA InitInv == Init => ServerInv
<1>. SUFFICES ASSUME Init PROVE ServerInv
  OBVIOUS
<1>1. Typed
  BY ServerAssumption DEF Init, Typed, SessPcs
<1>2. Flags
  BY Zenon DEF Init, Flags
<1>3. AcceptInv /\ PlaceInv
  BY DEF Init, AcceptInv, OneAcceptor, PlaceInv, Offered
<1>4. CountInv /\ DoneInv
  <2>1. Counted = {}
    BY DEF Init, Counted
  <2>. QED BY <2>1, FS_EmptySet DEF Init, CountInv, DoneInv
<1>5. TlsTypeOK /\ TlsInv
  <2>1. 0 \in 0..MaxLoads
    BY LoadsAssumption
  <2>2. TlsTypeOK
    BY <2>1, Zenon DEF Init, TlsInit, TlsTypeOK
  <2>3. TlsInv
    BY <2>1 DEF Init, TlsInit, TlsInv
  <2>. QED BY <2>2, <2>3
<1>. QED BY <1>1, <1>2, <1>3, <1>4, <1>5 DEF ServerInv

(* What is left of a queue is a part of it. *)
LEMMA TailFacts ==
  ASSUME NEW S, NEW q \in Seq(S), q # <<>>
  PROVE  /\ Head(q) \in S /\ Head(q) = q[1] /\ 1 \in DOMAIN q
         /\ Tail(q) \in Seq(S)
         /\ Len(Tail(q)) = Len(q) - 1
         /\ \A i \in DOMAIN Tail(q) : i + 1 \in DOMAIN q /\ Tail(q)[i] = q[i + 1]
  OBVIOUS

(* What a step keeps that leaves the TLS configuration alone, *)
LEMMA TlsFrame ==
  ASSUME TlsTypeOK, TlsInv, UNCHANGED given
  PROVE  TlsTypeOK' /\ TlsInv'
  BY DEF TlsTypeOK, TlsInv, given, tlsVars

(* and one that leaves the sessions alone. *)
LEMMA SessFrame ==
  ASSUME CountInv, DoneInv, UNCHANGED <<config, sess, sessionWG>>,
         done' = done, done => runpc' = runpc
  PROVE  CountInv' /\ DoneInv'
  BY DEF CountInv, DoneInv, Counted

-----------------------------------------------------------------------------
(* Run keeps the invariant: when it starts to listen, or fails to, *)
LEMMA ListenInv == ASSUME ServerInv, Listen \/ ListenFails PROVE ServerInv'
<1>. USE DEF ServerInv
<1>1. UNCHANGED <<given, stopVars, acceptVars, sessionWG, sess, closepc, panicked>>
  BY DEF Listen, ListenFails
<1>2. Typed'
  BY <1>1 DEF Listen, ListenFails, Typed, given, acceptVars
<1>3. Flags'
  BY <1>1, Zenon DEF Flags, stopVars
<1>4. AcceptInv' /\ PlaceInv'
  BY <1>1 DEF Listen, ListenFails, AcceptInv, OneAcceptor, PlaceInv, Offered, acceptVars
<1>5. CountInv' /\ DoneInv'
  BY <1>1, SessFrame DEF Listen, ListenFails, DoneInv, given, stopVars
<1>. QED BY <1>1, <1>2, <1>3, <1>4, <1>5, TlsFrame

(* when it starts a goroutine that calls Accept, *)
LEMMA SpawnAcceptInv == ASSUME ServerInv, SpawnAccept PROVE ServerInv'
<1>. USE DEF ServerInv
<1>1. UNCHANGED <<given, listenVars, stopVars, sessionWG, offers, incoming, backlog, sess,
                  closepc, panicked>>
  BY DEF SpawnAccept
<1>2. Typed'
  BY <1>1 DEF SpawnAccept, Typed, given, listenVars
<1>3. Flags'
  BY <1>1, Zenon DEF Flags, stopVars
<1>4. AcceptInv' /\ PlaceInv'
  BY <1>1 DEF SpawnAccept, Typed, AcceptInv, OneAcceptor, PlaceInv, Offered
<1>5. CountInv' /\ DoneInv'
  BY <1>1, SessFrame DEF SpawnAccept, DoneInv, given, stopVars
<1>. QED BY <1>1, <1>2, <1>3, <1>4, <1>5, TlsFrame

(* when it leaves its loop because of Close or of an error, *)
LEMMA LeaveInv == ASSUME ServerInv, SelectKill \/ SelectError PROVE ServerInv'
<1>. USE DEF ServerInv
<1>1. /\ UNCHANGED <<given, listenVars, killed, done, sessionWG, accepting, offers, backlog,
                     sess, closepc>>
      /\ runpc = "select" /\ runpc' = "unwind"
      /\ \/ incoming' = incoming
         \/ incoming # <<>> /\ incoming' = Tail(incoming)
  BY DEF SelectKill, SelectError, stopVars, acceptVars
<1>2. Typed'
  BY <1>1 DEF Typed, given, listenVars
<1>3. Flags'
  <2>1. (~config.manager) \in BOOLEAN
    BY DEF Typed, ServerConfigs
  <2>2. ctxDone' \in BOOLEAN /\ panicked' \in BOOLEAN
    BY <2>1, Zenon DEF SelectKill, SelectError, Flags, stopVars
  <2>. QED BY <1>1, <2>2, Zenon DEF Flags
<1>4. AcceptInv' /\ PlaceInv'
  <2>1. /\ incoming' \in Seq(Clients \cup {Failed})
        /\ Len(incoming') <= Len(incoming)
        /\ \A i \in DOMAIN incoming' : \E j \in DOMAIN incoming : incoming'[i] = incoming[j]
    <3>1. CASE incoming' = incoming
      BY <3>1 DEF Typed
    <3>2. CASE incoming # <<>> /\ incoming' = Tail(incoming)
      <4>1. /\ Tail(incoming) \in Seq(Clients \cup {Failed})
            /\ Len(Tail(incoming)) = Len(incoming) - 1
            /\ \A i \in DOMAIN Tail(incoming) :
                 i + 1 \in DOMAIN incoming /\ Tail(incoming)[i] = incoming[i + 1]
        BY <3>2, TailFacts DEF Typed
      <4>2. \A i \in DOMAIN incoming' : \E j \in DOMAIN incoming : incoming'[i] = incoming[j]
        BY <3>2, <4>1, Zenon
      <4>. QED BY <3>2, <4>1, <4>2 DEF Typed
    <3>. QED BY <1>1, <3>1, <3>2
  <2>. QED BY <1>1, <2>1, SMTT(40) DEF Typed, AcceptInv, OneAcceptor, PlaceInv, Offered
<1>5. CountInv' /\ DoneInv'
  BY <1>1, SessFrame DEF DoneInv, given
<1>. QED BY <1>1, <1>2, <1>3, <1>4, <1>5, TlsFrame

(* and when its deferred function closes the listener. *)
LEMMA CloseListenerInv == ASSUME ServerInv, CloseListener PROVE ServerInv'
<1>. USE DEF ServerInv
<1>1. UNCHANGED <<given, stopVars, acceptVars, initChan, sessionWG, sess, closepc>>
  BY DEF CloseListener
<1>2. Typed'
  BY <1>1 DEF CloseListener, Typed, given, acceptVars
<1>3. Flags'
  <2>1. (~config.manager) \in BOOLEAN
    BY DEF Typed, ServerConfigs
  <2>. QED BY <1>1, <2>1, Zenon DEF CloseListener, Flags, stopVars
<1>4. AcceptInv' /\ PlaceInv'
  BY <1>1 DEF CloseListener, AcceptInv, OneAcceptor, PlaceInv, Offered, acceptVars
<1>5. CountInv' /\ DoneInv'
  BY <1>1, SessFrame DEF CloseListener, DoneInv, given, stopVars
<1>. QED BY <1>1, <1>2, <1>3, <1>4, <1>5, TlsFrame

(* So does waiting for the counted sessions: then there are none, and the   *)
(* loop that could start another has been left.                             *)
LEMMA WaitSessionsInv == ASSUME ServerInv, WaitSessions PROVE ServerInv'
<1>. USE DEF ServerInv
<1>1. /\ UNCHANGED <<given, listenVars, acceptVars, killed, ctxDone, sessionWG, sess, closepc,
                     panicked>>
      /\ done' = TRUE /\ runpc' = "returned" /\ sessionWG = 0
  BY DEF WaitSessions
<1>2. Typed'
  BY <1>1 DEF Typed, given, listenVars, acceptVars
<1>3. Flags'
  BY <1>1, Zenon DEF Flags
<1>4. AcceptInv' /\ PlaceInv'
  BY <1>1 DEF AcceptInv, OneAcceptor, PlaceInv, Offered, acceptVars
<1>5. CountInv' /\ DoneInv'
  <2>1. IsFiniteSet(Counted)
    BY ServerAssumption, FS_Subset DEF Counted
  <2>2. config.contextual => Counted = {}
    BY <1>1, <2>1, FS_EmptySet, ZenonT(20) DEF CountInv
  <2>. QED BY <1>1, <2>2 DEF CountInv, DoneInv, Counted, given
<1>. QED BY <1>1, <1>2, <1>3, <1>4, <1>5, TlsFrame

(* Starting a session counts it: its client had none before. *)
LEMMA SelectConnInv == ASSUME ServerInv, SelectConn PROVE ServerInv'
<1>. USE DEF ServerInv
<1>. DEFINE c == Head(incoming)
<1>1. /\ runpc = "select" /\ runpc' = "loop"
      /\ incoming # <<>> /\ incoming' = Tail(incoming)
      /\ UNCHANGED <<tlsVars, config, listenVars, stopVars, accepting, offers, backlog,
                     closepc, panicked>>
      /\ c # Failed
      /\ sess' = [sess EXCEPT ![c] = IF config.useSSL THEN "handshake" ELSE "create"]
      /\ sessionWG' = IF config.contextual THEN sessionWG + 1 ELSE sessionWG
      /\ using' = IF config.useSSL THEN [using EXCEPT ![c] = tlsConfig] ELSE using
      /\ config.useSSL => ~tlsLock
  BY DEF SelectConn, getTlsConfig
<1>2. /\ c = incoming[1] /\ 1 \in DOMAIN incoming /\ c \in Clients
      /\ Tail(incoming) \in Seq(Clients \cup {Failed})
      /\ Len(Tail(incoming)) = Len(incoming) - 1
  BY <1>1, TailFacts DEF Typed
<1>3. sess[c] = "none" /\ c \notin backlog
  BY <1>1, <1>2 DEF PlaceInv, Offered
<1>. HIDE DEF c
<1>4. Typed'
  BY <1>1, <1>2 DEF Typed, SessPcs, listenVars
<1>5. Flags'
  BY <1>1, Zenon DEF Flags, stopVars
<1>6. offers = <<>> /\ incoming' = <<>> /\ AcceptInv'
  BY <1>1, <1>2 DEF Typed, AcceptInv, OneAcceptor
<1>7. PlaceInv'
  BY <1>1, <1>2, <1>3, <1>6 DEF Typed, PlaceInv, Offered
<1>8. CountInv'
  <2>1. Counted' = Counted \cup {c} /\ c \notin Counted
    BY <1>1, <1>2, <1>3 DEF Counted, Typed
  <2>2. IsFiniteSet(Counted)
    BY ServerAssumption, FS_Subset DEF Counted
  <2>3. Cardinality(Counted') = Cardinality(Counted) + 1
    BY <2>1, <2>2, FS_AddElement
  <2>. QED BY <1>1, <2>3 DEF CountInv
<1>9. DoneInv'
  BY <1>1 DEF DoneInv, stopVars
<1>10. TlsTypeOK' /\ TlsInv'
  BY <1>1, <1>2 DEF TlsTypeOK, TlsInv, tlsVars
<1>. QED BY <1>4, <1>5, <1>6, <1>7, <1>8, <1>9, <1>10

-----------------------------------------------------------------------------
(* The goroutines that accept: a value moves from Accept to the channel and *)
(* there is never a second one.                                             *)
LEMMA AcceptInvs ==
  ASSUME ServerInv, AcceptFails \/ AcceptClosed \/ \E c \in Clients : Accept(c)
  PROVE  ServerInv'
<1>. USE DEF ServerInv
<1>1. PICK e \in Clients \cup {Failed} :
        /\ AcceptReturns(e)
        /\ e # Failed => e \in backlog /\ backlog' = backlog \ {e}
        /\ e = Failed => backlog' = backlog
        /\ UNCHANGED <<given, listenVars, stopVars, runpc, sessionWG, incoming, sess, closepc,
                       panicked>>
  BY ServerAssumption DEF AcceptFails, AcceptClosed, Accept
<1>2. accepting > 0 /\ accepting' = accepting - 1 /\ offers' = Append(offers, e)
  BY <1>1 DEF AcceptReturns
<1>3. offers = <<>> /\ offers' = <<e>> /\ accepting = 1 /\ incoming = <<>>
  <2>1. Len(offers) = 0 /\ Len(incoming) = 0 /\ accepting = 1
    BY <1>2 DEF Typed, AcceptInv, OneAcceptor
  <2>2. offers = <<>> /\ incoming = <<>>
    BY <2>1 DEF Typed
  <2>3. Append(<<>>, e) = <<e>>
    OBVIOUS
  <2>. QED BY <1>2, <2>1, <2>2, <2>3
<1>4. backlog' \subseteq backlog
  BY <1>1
<1>5. Typed'
  BY <1>1, <1>2, <1>3, <1>4 DEF Typed, given, listenVars
<1>6. Flags'
  BY <1>1, Zenon DEF Flags, stopVars
<1>7. AcceptInv'
  BY <1>1, <1>2, <1>3 DEF Typed, AcceptInv, OneAcceptor
<1>8. PlaceInv'
  BY <1>1, <1>3, <1>4 DEF PlaceInv, Offered
<1>9. CountInv' /\ DoneInv'
  BY <1>1, SessFrame DEF DoneInv, given, stopVars
<1>. QED BY <1>1, <1>5, <1>6, <1>7, <1>8, <1>9, TlsFrame

(* The goroutine that accepted sends what it has. *)
LEMMA OfferInv == ASSUME ServerInv, Offer PROVE ServerInv'
<1>. USE DEF ServerInv
<1>1. /\ UNCHANGED <<given, listenVars, stopVars, runpc, sessionWG, accepting, backlog, sess,
                     closepc, panicked>>
      /\ offers # <<>>
      /\ incoming' = Append(incoming, Head(offers))
      /\ offers' = Tail(offers)
  BY DEF Offer
<1>2. /\ Head(offers) = offers[1] /\ 1 \in DOMAIN offers
      /\ Head(offers) \in Clients \cup {Failed}
      /\ Tail(offers) \in Seq(Clients \cup {Failed})
      /\ Len(Tail(offers)) = Len(offers) - 1
  BY <1>1, TailFacts DEF Typed
<1>3. Len(offers) = 1 /\ accepting = 0 /\ incoming = <<>>
  BY <1>1, <1>2 DEF Typed, AcceptInv, OneAcceptor
<1>4. offers' = <<>> /\ incoming' = <<Head(offers)>>
  BY <1>1, <1>2, <1>3
<1>5. Typed'
  BY <1>1, <1>2, <1>4 DEF Typed, given, listenVars
<1>6. Flags'
  BY <1>1, Zenon DEF Flags, stopVars
<1>7. AcceptInv'
  <2>1. Len(offers') = 0 /\ Len(incoming') = 1 /\ accepting' = 0
    BY <1>1, <1>3, <1>4
  <2>2. runpc' \notin {"start", "loop"}
    BY <1>1, <1>3 DEF AcceptInv, Typed
  <2>. QED BY <2>1, <2>2 DEF AcceptInv, OneAcceptor
<1>8. PlaceInv'
  BY <1>1, <1>2, <1>4 DEF PlaceInv, Offered
<1>9. CountInv' /\ DoneInv'
  BY <1>1, SessFrame DEF DoneInv, given, stopVars
<1>. QED BY <1>1, <1>5, <1>6, <1>7, <1>8, <1>9, TlsFrame

-----------------------------------------------------------------------------
(* A session that goes on keeps the invariant if it stays counted, *)
LEMMA SessionGoesOnInv ==
  ASSUME ServerInv, NEW c \in Clients,
         NEW from \in SessPcs \ {"none", "gone"}, NEW to \in SessPcs \ {"none", "gone"},
         SessionMoves(c, from, to), UNCHANGED <<sessionWG, panicked>>
  PROVE  ServerInv'
<1>. USE DEF ServerInv
<1>1. /\ UNCHANGED <<given, listenVars, stopVars, acceptVars, runpc, closepc>>
      /\ sess[c] = from
      /\ sess' = [sess EXCEPT ![c] = to]
  BY DEF SessionMoves
<1>2. Typed'
  BY <1>1 DEF Typed, given, listenVars, acceptVars
<1>3. Flags'
  BY <1>1, Zenon DEF Flags, stopVars
<1>4. AcceptInv' /\ PlaceInv'
  <2>1. \A d \in Clients : sess[d] = "none" => sess'[d] = "none"
    BY <1>1 DEF Typed
  <2>2. AcceptInv'
    BY <1>1 DEF AcceptInv, OneAcceptor, acceptVars
  <2>3. \A i \in DOMAIN offers : offers[i] # Failed => offers[i] \in Clients
    BY DEF Typed
  <2>4. \A i \in DOMAIN incoming : incoming[i] # Failed => incoming[i] \in Clients
    BY DEF Typed
  <2>5. PlaceInv'
    BY <1>1, <2>1, <2>3, <2>4 DEF PlaceInv, Offered, acceptVars, Typed
  <2>. QED BY <2>2, <2>5
<1>5. CountInv' /\ DoneInv'
  <2>1. Counted' = Counted
    BY <1>1 DEF Counted, Typed
  <2>. QED BY <1>1, <2>1 DEF CountInv, DoneInv, given, stopVars
<1>. QED BY <1>1, <1>2, <1>3, <1>4, <1>5, TlsFrame

(* and the last step of one takes it out of the count. *)
LEMMA SessionDoneInv ==
  ASSUME ServerInv, NEW c \in Clients, SessionDone(c)
  PROVE  ServerInv' /\ ~panicked'
<1>. USE DEF ServerInv
<1>1. /\ UNCHANGED <<given, listenVars, stopVars, acceptVars, runpc, closepc>>
      /\ sess[c] = "wgDone"
      /\ sess' = [sess EXCEPT ![c] = "gone"]
      /\ sessionWG' = IF config.contextual THEN sessionWG - 1 ELSE sessionWG
      /\ panicked' = (sessionWG' < 0)
  BY DEF SessionDone, SessionMoves
<1>2. Typed'
  BY <1>1 DEF Typed, SessPcs, given, listenVars, acceptVars
<1>3. /\ IsFiniteSet(Counted) /\ c \in Counted /\ Counted' = Counted \ {c}
  BY <1>1, ServerAssumption, FS_Subset DEF Counted, Typed
<1>4. /\ Cardinality(Counted') = Cardinality(Counted) - 1
      /\ Cardinality(Counted') \in Nat /\ Cardinality(Counted) \in Nat
  BY <1>3, FS_RemoveElement, FS_CardinalityType
<1>5. CountInv' /\ sessionWG' \in Nat
  BY <1>1, <1>4 DEF CountInv, given
<1>6. ~panicked' /\ panicked' \in BOOLEAN
  <2>1. ~(sessionWG' < 0)
    BY <1>5
  <2>2. (sessionWG' < 0) = FALSE
    BY <2>1
  <2>3. panicked' = FALSE
    BY <1>1, <2>2, Zenon
  <2>. QED BY <2>3, Zenon
<1>7. Flags'
  BY <1>1, <1>6, Zenon DEF Flags, stopVars
<1>8. AcceptInv' /\ PlaceInv'
  <2>1. \A d \in Clients : sess[d] = "none" => sess'[d] = "none"
    BY <1>1 DEF Typed
  <2>2. AcceptInv'
    BY <1>1 DEF AcceptInv, OneAcceptor, acceptVars
  <2>3. \A i \in DOMAIN offers : offers[i] # Failed => offers[i] \in Clients
    BY DEF Typed
  <2>4. \A i \in DOMAIN incoming : incoming[i] # Failed => incoming[i] \in Clients
    BY DEF Typed
  <2>5. PlaceInv'
    BY <1>1, <2>1, <2>3, <2>4 DEF PlaceInv, Offered, acceptVars, Typed
  <2>. QED BY <2>2, <2>5
<1>9. DoneInv'
  BY <1>1, <1>3 DEF DoneInv, given, stopVars
<1>. QED BY <1>1, <1>2, <1>5, <1>6, <1>7, <1>8, <1>9, TlsFrame

(* All the steps of Session.Run. *)
LEMMA SessionInv ==
  ASSUME ServerInv, NEW c \in Clients,
         Handshake(c) \/ LoopEnds(c) \/ SessionStep(c)
  PROVE  ServerInv'
<1>1. CASE SessionDone(c)
  BY <1>1, SessionDoneInv
<1>2. CASE Handshake(c) \/ LoopEnds(c) \/ CreateWorker(c) \/ LoopCancelled(c) \/ CloseWorker(c)
  <2>1. \E from, to \in SessPcs \ {"none", "gone"} :
          SessionMoves(c, from, to) /\ UNCHANGED <<sessionWG, panicked>>
    BY <1>2 DEF Handshake, LoopEnds, CreateWorker, LoopCancelled, CloseWorker, SessPcs
  <2>. QED BY <2>1, SessionGoesOnInv
<1>. QED BY <1>1, <1>2 DEF SessionStep

-----------------------------------------------------------------------------
(* Clients, the caller of Close and OnSSLConfig. *)
LEMMA ConnectInv == ASSUME ServerInv, NEW c \in Clients, Connect(c) PROVE ServerInv'
<1>. USE DEF ServerInv
<1>1. /\ UNCHANGED <<given, listenVars, stopVars, runpc, sessionWG, accepting, offers,
                     incoming, sess, closepc, panicked>>
      /\ backlog' = backlog \cup {c}
      /\ sess[c] = "none"
      /\ \A i \in DOMAIN offers : offers[i] # c
      /\ \A i \in DOMAIN incoming : incoming[i] # c
  BY DEF Connect
<1>2. Typed'
  BY <1>1 DEF Typed, given, listenVars
<1>3. Flags'
  BY <1>1, Zenon DEF Flags, stopVars
<1>4. AcceptInv' /\ PlaceInv'
  BY <1>1 DEF AcceptInv, OneAcceptor, PlaceInv, Offered
<1>5. CountInv' /\ DoneInv'
  BY <1>1, SessFrame DEF given, stopVars
<1>. QED BY <1>1, <1>2, <1>3, <1>4, <1>5, TlsFrame

(* Close changes nothing but killChan and its caller. *)
LEMMA CloseInv == ASSUME ServerInv, CallClose \/ CloseReturns PROVE ServerInv'
<1>. USE DEF ServerInv
<1>1. UNCHANGED <<given, listenVars, acceptVars, runpc, done, ctxDone, sessionWG, sess, panicked>>
  BY DEF CallClose, CloseReturns, stopVars
<1>2. Typed'
  BY <1>1 DEF CallClose, CloseReturns, Typed, given, listenVars, acceptVars
<1>3. Flags'
  <2>1. killed' \in BOOLEAN
    BY Zenon DEF CallClose, CloseReturns, Flags, stopVars
  <2>. QED BY <1>1, <2>1, Zenon DEF Flags
<1>4. AcceptInv' /\ PlaceInv'
  BY <1>1 DEF AcceptInv, OneAcceptor, PlaceInv, Offered, acceptVars
<1>5. CountInv' /\ DoneInv'
  BY <1>1, SessFrame DEF given
<1>. QED BY <1>1, <1>2, <1>3, <1>4, <1>5, TlsFrame

(* A reload keeps the lock until the configuration it installed is built. *)
LEMMA ReloadInv == ASSUME ServerInv, Reload PROVE ServerInv'
<1>. USE DEF ServerInv
<1>1. UNCHANGED <<config, using, listenVars, stopVars, acceptVars, runpc, sessionWG, sess,
                  closepc, panicked>>
  BY DEF Reload
<1>2. Typed'
  BY <1>1 DEF Typed, listenVars, acceptVars
<1>3. Flags'
  BY <1>1, Zenon DEF Flags, stopVars
<1>4. AcceptInv' /\ PlaceInv'
  BY <1>1 DEF AcceptInv, OneAcceptor, PlaceInv, Offered, acceptVars
<1>5. CountInv' /\ DoneInv'
  BY <1>1, SessFrame DEF stopVars
<1>6. TlsTypeOK' /\ TlsInv'
  <2>1. CASE OnSSLConfig \/ LoadFails
    <3>1. UNCHANGED <<tlsConfig, tlsLock, built>> /\ reload # "build" /\ reload' # "build"
      BY <2>1 DEF OnSSLConfig, LoadFails
    <3>2. TlsTypeOK'
      BY <2>1, <3>1, Zenon DEF OnSSLConfig, LoadFails, TlsTypeOK
    <3>3. tlsLock' <=> reload' = "build"
      BY <3>1, Zenon DEF TlsInv
    <3>4. reload' = "load" => tlsConfig' < MaxLoads
      BY <2>1, <3>1 DEF OnSSLConfig, LoadFails
    <3>. QED BY <1>1, <3>1, <3>2, <3>3, <3>4, Zenon DEF TlsInv
  <2>2. CASE Install
    <3>1. TlsTypeOK'
      BY <2>2, LoadsAssumption DEF Install, TlsTypeOK, TlsInv
    <3>2. TlsInv'
      BY <1>1, <2>2 DEF Install, TlsTypeOK, TlsInv
    <3>. QED BY <3>1, <3>2
  <2>3. CASE BuildNames
    <3>1. TlsTypeOK'
      BY <2>3, ZenonT(20) DEF BuildNames, TlsTypeOK, TlsInv
    <3>2. TlsInv'
      BY <1>1, <2>3 DEF BuildNames, TlsTypeOK, TlsInv
    <3>. QED BY <3>1, <3>2
  <2>. QED BY <2>1, <2>2, <2>3 DEF Reload, setTlsConfig
<1>. QED BY <1>2, <1>3, <1>4, <1>5, <1>6

-----------------------------------------------------------------------------
(* A step in which nothing changes. *)
LEMMA StutterInv == ASSUME ServerInv, UNCHANGED vars PROVE ServerInv'
  BY DEF vars, given, tlsVars, listenVars, stopVars, acceptVars, ServerInv, Typed, Flags,
    AcceptInv, OneAcceptor, PlaceInv, Offered, CountInv, Counted, DoneInv, TlsTypeOK, TlsInv

(* Every step of the server keeps the invariant. *)
LEMMA NextInv == ASSUME ServerInv, [Next]_vars PROVE ServerInv'
<1>1. CASE UNCHANGED vars
  BY <1>1, StutterInv
<1>2. CASE RunStep
  BY <1>2, ListenInv, SpawnAcceptInv, LeaveInv, SelectConnInv, CloseListenerInv,
    WaitSessionsInv DEF RunStep
<1>3. CASE AcceptFails \/ AcceptClosed \/ \E c \in Clients : Accept(c)
  BY <1>3, AcceptInvs
<1>4. CASE Offer \/ CallClose \/ CloseReturns \/ Reload
  BY <1>4, OfferInv, CloseInv, ReloadInv
<1>5. CASE \E c \in Clients : Connect(c) \/ Handshake(c) \/ LoopEnds(c) \/ SessionStep(c)
  BY <1>5, ConnectInv, SessionInv
<1>. QED BY <1>1, <1>2, <1>3, <1>4, <1>5 DEF Next

(* The invariant of Run, its goroutines, the sessions and OnSSLConfig holds *)
(* throughout.                                                              *)
THEOREM ServerInvariant == Spec => []ServerInv
<1>1. Init => ServerInv
  BY InitInv
<1>2. ServerInv /\ [Next]_vars => ServerInv'
  BY NextInv
<1>. QED BY <1>1, <1>2, PTL DEF Spec

(* At most one accepted connection, or goroutine in Accept, is under way:   *)
(* the buffer of one that Run makes is enough.                              *)
THEOREM ServerOneAcceptor == Spec => []OneAcceptor
<1>1. ServerInv => OneAcceptor
  BY DEF ServerInv, AcceptInv
<1>. QED BY <1>1, ServerInvariant, PTL

(* doneChan is closed after the last counted session has closed its worker. *)
THEOREM ServerDoneMeansEnded == Spec => []DoneMeansEnded
<1>1. ServerInv => DoneMeansEnded
  BY DEF ServerInv, DoneInv, Counted, DoneMeansEnded, Running
<1>. QED BY <1>1, ServerInvariant, PTL

(* No session runs with a TLS configuration whose names are not built. *)
THEOREM ServerTlsReady == Spec => []TlsReady
<1>1. ServerInv => TlsReady
  BY DEF ServerInv, TlsInv, TlsReady
<1>. QED BY <1>1, ServerInvariant, PTL

(* Every variable of the server keeps its type; in particular the wait group *)
(* never counts more than the clients there are.                            *)
THEOREM ServerTypeCorrect == Spec => []TypeOK
<1>1. ServerInv => TypeOK
  <2>. SUFFICES ASSUME ServerInv PROVE TypeOK
    OBVIOUS
  <2>. USE DEF ServerInv
  <2>1. {killed, done, ctxDone, panicked} \subseteq BOOLEAN
    BY Zenon DEF Flags
  <2>2. Counted \subseteq Clients
    BY DEF Counted
  <2>3. /\ Cardinality(Counted) \in Nat /\ Cardinality(Clients) \in Nat
        /\ Cardinality(Counted) <= Cardinality(Clients)
    BY <2>2, ServerAssumption, FS_Subset, FS_CardinalityType
  <2>4. sessionWG \in 0..Cardinality(Clients)
    BY <2>3 DEF CountInv
  <2>. QED BY <2>1, <2>4, Zenon DEF TypeOK, Typed, TlsInv
<1>. QED BY <1>1, ServerInvariant, PTL

-----------------------------------------------------------------------------
(* A server starts without a panic, *)
LEMMA PanicInit == Init => PanicInv
  BY DEF Init, PanicInv

(* and no step of one meets a nil sessionManager or a negative wait group if *)
(* Accept fails only for servers that have a sessionManager.                *)
LEMMA PanicNext ==
  ASSUME \A cf \in Configs : cf.manager \/ ~cf.acceptFails, ServerInv, PanicInv, [Next]_vars
  PROVE  PanicInv'
<1>1. config.manager \/ ~config.acceptFails
  BY DEF ServerInv, Typed
<1>2. ~panicked'
  <2>1. CASE \E c \in Clients : SessionDone(c)
    BY <2>1, SessionDoneInv
  <2>2. CASE SelectKill \/ CloseListener
    BY <1>1, <2>2, ZenonT(20) DEF SelectKill, CloseListener, PanicInv
  <2>3. CASE UNCHANGED panicked
    BY <2>3 DEF PanicInv
  <2>. QED BY <2>1, <2>2, <2>3, ZenonT(20) DEF Next, vars, RunStep, Listen, ListenFails,
    SpawnAccept,
         SelectConn, SelectError, WaitSessions, AcceptFails, AcceptClosed, Offer, CallClose,
         CloseReturns, Reload, Accept, Connect, Handshake, LoopEnds, SessionStep, CreateWorker,
         LoopCancelled, CloseWorker
<1>3. config' = config
  BY ZenonT(20) DEF Next, vars, given, RunStep, Listen, ListenFails, SpawnAccept, SelectKill,
    CloseListener,
    SelectConn, SelectError, WaitSessions, AcceptFails, AcceptClosed, Offer, CallClose,
    CloseReturns, Reload, Accept, Connect, Handshake, LoopEnds, SessionStep, CreateWorker,
    LoopCancelled, CloseWorker, SessionDone, SessionMoves
<1>. SUFFICES ASSUME ~config.manager, ~config.acceptFails
              PROVE  /\ ~killed'
                     /\ runpc' \in {"start", "loop", "select", "returned"}
                     /\ listener' # "closed"
                     /\ \A i \in DOMAIN offers' : offers'[i] # Failed
                     /\ \A i \in DOMAIN incoming' : incoming'[i] # Failed
  BY <1>2, <1>3 DEF PanicInv
<1>4. /\ ~killed /\ runpc \in {"start", "loop", "select", "returned"} /\ listener # "closed"
      /\ \A i \in DOMAIN offers : offers[i] # Failed
      /\ \A i \in DOMAIN incoming : incoming[i] # Failed
      /\ offers \in Seq(Clients \cup {Failed}) /\ incoming \in Seq(Clients \cup {Failed})
  BY DEF PanicInv, ServerInv, Typed
<1>5. CASE UNCHANGED <<killed, listener, offers, incoming, runpc>>
  BY <1>4, <1>5
<1>6. CASE Listen \/ ListenFails \/ SpawnAccept
  BY <1>4, <1>6 DEF Listen, ListenFails, SpawnAccept, stopVars, listenVars, acceptVars
<1>7. CASE SelectConn
  <2>1. /\ incoming # <<>> /\ incoming' = Tail(incoming) /\ runpc' = "loop"
        /\ UNCHANGED <<killed, listener, offers>>
    BY <1>7 DEF SelectConn, stopVars, listenVars
  <2>2. \A i \in DOMAIN incoming' : incoming'[i] # Failed
    BY <1>4, <2>1, TailFacts
  <2>. QED BY <1>4, <2>1, <2>2
<1>8. CASE SelectKill \/ SelectError \/ CloseListener \/ WaitSessions \/ AcceptFails
             \/ AcceptClosed \/ CallClose
  <2>1. ~SelectError
    BY <1>4, TailFacts DEF SelectError
  <2>. QED BY <1>4, <1>8, <2>1 DEF SelectKill, CloseListener, WaitSessions, AcceptFails,
         AcceptClosed, CallClose
<1>9. CASE \E c \in Clients : Accept(c)
  <2>1. PICK c \in Clients : Accept(c)
    BY <1>9
  <2>2. offers' = Append(offers, c) /\ UNCHANGED <<killed, listener, incoming, runpc>>
    BY <2>1 DEF Accept, AcceptReturns, stopVars, listenVars
  <2>3. \A i \in DOMAIN offers' : offers'[i] # Failed
    BY <1>4, <2>2, ServerAssumption
  <2>. QED BY <1>4, <2>2, <2>3
<1>10. CASE Offer
  <2>1. /\ offers # <<>> /\ offers' = Tail(offers) /\ incoming' = Append(incoming, Head(offers))
        /\ UNCHANGED <<killed, listener, runpc>>
    BY <1>10 DEF Offer, stopVars, listenVars
  <2>2. Head(offers) \in Clients \cup {Failed} /\ Head(offers) # Failed
    BY <1>4, <2>1, TailFacts
  <2>3. \A i \in DOMAIN incoming' : incoming'[i] # Failed
    BY <1>4, <2>1, <2>2
  <2>4. \A i \in DOMAIN offers' : offers'[i] # Failed
    BY <1>4, <2>1, TailFacts
  <2>. QED BY <1>4, <2>1, <2>3, <2>4
<1>. QED BY <1>5, <1>6, <1>7, <1>8, <1>9, <1>10, ZenonT(20) DEF Next, vars, RunStep,
  CloseReturns, Reload,
       Connect, Handshake, LoopEnds, SessionStep, CreateWorker, LoopCancelled, CloseWorker,
       SessionDone, SessionMoves, stopVars, listenVars, acceptVars

(* A server whose Accept does not fail, or that NewServer built, never meets *)
(* a nil sessionManager, and no server counts its sessions below 0.         *)
THEOREM ServerNeverPanics ==
  ASSUME \A cf \in Configs : cf.manager \/ ~cf.acceptFails
  PROVE  Spec => []NoPanic
<1>1. Init => ServerInv /\ PanicInv
  BY InitInv, PanicInit
<1>2. ServerInv /\ PanicInv /\ [Next]_vars => (ServerInv /\ PanicInv)'
  BY NextInv, PanicNext
<1>3. PanicInv => NoPanic
  BY DEF PanicInv, NoPanic
<1>. QED BY <1>1, <1>2, <1>3, PTL DEF Spec

-----------------------------------------------------------------------------
(* The sessions in the terms of ServerLife. *)
Active == {c \in Clients : Running(c)}
Over == {c \in Clients : sess[c] \in {"wgDone", "gone"}}

(* A step of Run outside its loop, of Accept, Close or a reload leaves the   *)
(* sessions where they are.                                                 *)
LEMMA LifeFrame ==
  ASSUME UNCHANGED <<config, sess>>
  PROVE  UNCHANGED <<config.contextual, Active, Over>>
  BY DEF Active, Over, Running

(* A new session is one that no client had before. *)
LEMMA LifeBegins ==
  ASSUME ServerInv, SelectConn
  PROVE  \E c \in Clients : Life!Begin(c)
<1>. USE DEF ServerInv
<1>1. incoming # <<>> /\ Head(incoming) # Failed /\ incoming \in Seq(Clients \cup {Failed})
  BY DEF SelectConn, Typed
<1>2. PICK c \in Clients : c = Head(incoming) /\ sess[c] = "none"
  BY <1>1, TailFacts DEF PlaceInv, Offered
<1>3. /\ sess' = [sess EXCEPT ![c] = IF config.useSSL THEN "handshake" ELSE "create"]
      /\ runpc = "select" /\ runpc' = "loop" /\ config' = config
  BY <1>2 DEF SelectConn
<1>4. sess'[c] \in {"handshake", "create"} /\ \A d \in Clients \ {c} : sess'[d] = sess[d]
  BY <1>3 DEF Typed
<1>5. c \notin Active \cup Over /\ Active' = Active \cup {c} /\ Over' = Over
  BY <1>2, <1>4 DEF Active, Over, Running
<1>6. Phase = "running" /\ Phase' = "running"
  BY <1>3 DEF Phase
<1>7. Life!Begin(c)
  BY <1>3, <1>5, <1>6 DEF Life!Begin, Active, Over
<1>. QED BY <1>7

(* A session is over when its worker is closed, and stays so. *)
LEMMA LifeGoesOn ==
  ASSUME ServerInv, NEW c \in Clients, NEW from \in SessPcs, NEW to \in SessPcs,
         SessionMoves(c, from, to),
         from \notin {"none", "gone"}, to \notin {"none"},
         from = "wgDone" => to = "gone"
  PROVE  Life!End(c) \/ UNCHANGED Life!lifeVars
<1>. USE DEF ServerInv
<1>1. /\ sess[c] = from /\ sess'[c] = to /\ \A d \in Clients \ {c} : sess'[d] = sess[d]
      /\ config' = config /\ runpc' = runpc
  BY DEF SessionMoves, Typed, given
<1>2. Phase' = Phase
  BY <1>1 DEF Phase
<1>3. CASE Running(c) /\ to \in {"wgDone", "gone"}
  <2>1. c \in Active /\ Active' = Active \ {c} /\ Over' = Over \cup {c}
    BY <1>1, <1>3 DEF Active, Over, Running
  <2>2. Life!End(c)
    BY <1>1, <1>2, <2>1 DEF Life!End, Active, Over
  <2>. QED BY <2>2
<1>4. CASE ~(Running(c) /\ to \in {"wgDone", "gone"})
  <2>1. Active' = Active /\ Over' = Over
    BY <1>1, <1>4 DEF Active, Over, Running
  <2>. QED BY <1>1, <1>2, <2>1 DEF Life!lifeVars, Active, Over
<1>. QED BY <1>3, <1>4

(* Run returns when the sessions it counts are over. *)
LEMMA LifeFinishes == ASSUME ServerInv, WaitSessions PROVE Life!Finish
<1>. USE DEF ServerInv
<1>1. /\ runpc = "wait" /\ sessionWG = 0 /\ runpc' = "returned"
      /\ UNCHANGED <<config, sess>>
  BY DEF WaitSessions, given
<1>2. Phase = "stopping" /\ Phase' = "stopped"
  BY <1>1 DEF Phase
<1>3. config.contextual => Active = {}
  <2>1. SUFFICES ASSUME config.contextual PROVE Counted = {}
    BY DEF Counted, Active, Running
  <2>2. Counted \subseteq Clients
    BY DEF Counted
  <2>3. IsFiniteSet(Counted)
    BY <2>2, ServerAssumption, FS_Subset
  <2>4. Cardinality(Counted) = 0
    BY <1>1, <2>1 DEF CountInv
  <2>. QED BY <2>3, <2>4, FS_EmptySet
<1>. QED BY <1>1, <1>2, <1>3, LifeFrame DEF Life!Finish, Life!Moves, Active, Over

(* Every step of the server is one of ServerLife or leaves it unchanged. *)
LEMMA LifeStep ==
  ASSUME ServerInv, [Next]_vars PROVE [Life!LifeNext]_(Life!lifeVars)
<1>1. CASE UNCHANGED <<config, sess, runpc>>
  BY <1>1 DEF Life!lifeVars, Phase, Running
<1>2. CASE Listen \/ ListenFails \/ SelectKill \/ SelectError
  <2>1. UNCHANGED <<config, sess>>
    BY <1>2 DEF Listen, ListenFails, SelectKill, SelectError, given
  <2>2. \/ Phase = "starting" /\ Phase' = "running"
        \/ Phase = "starting" /\ Phase' = "stopped"
        \/ Phase = "running" /\ Phase' = "stopping"
    BY <1>2 DEF Listen, ListenFails, SelectKill, SelectError, Phase
  <2>3. Life!Start \/ Life!GiveUp \/ Life!Stop
    BY <2>1, <2>2, LifeFrame DEF Life!Start, Life!GiveUp, Life!Stop, Life!Moves, Active, Over
  <2>. QED BY <2>3 DEF Life!LifeNext
<1>3. CASE SpawnAccept \/ CloseListener
  <2>1. UNCHANGED <<config, sess>> /\ Phase' = Phase
    BY <1>3 DEF SpawnAccept, CloseListener, given, Phase
  <2>. QED BY <2>1, LifeFrame DEF Life!lifeVars, Active, Over
<1>4. CASE SelectConn
  BY <1>4, LifeBegins DEF Life!LifeNext
<1>5. CASE WaitSessions
  BY <1>5, LifeFinishes DEF Life!LifeNext
<1>6. CASE \E c \in Clients : Handshake(c) \/ LoopEnds(c) \/ SessionStep(c)
  <2>1. PICK c \in Clients : Handshake(c) \/ LoopEnds(c) \/ SessionStep(c)
    BY <1>6
  <2>2. \E from, to \in SessPcs :
          /\ SessionMoves(c, from, to)
          /\ from \notin {"none", "gone"} /\ to \notin {"none"}
          /\ from = "wgDone" => to = "gone"
    BY <2>1 DEF Handshake, LoopEnds, SessionStep, CreateWorker, LoopCancelled, CloseWorker,
      SessionDone, SessPcs
  <2>. QED BY <2>2, LifeGoesOn DEF Life!LifeNext
<1>. QED BY <1>1, <1>2, <1>3, <1>4, <1>5, <1>6 DEF Next, vars, given, RunStep, AcceptFails,
       AcceptClosed, Offer, CallClose, CloseReturns, Reload, Accept, Connect

(* Run, its goroutines and the sessions implement ServerLife: no session     *)
(* begins outside the accept loop or twice, and Run returns after the last  *)
(* one that it counts.                                                      *)
THEOREM ServerImplementsLife == Spec => Life!LifeSafety
<1>1. Init => Life!LifeInit
  BY ServerAssumption DEF Init, Life!LifeInit, Phase, Running, ServerConfigs
<1>2. ServerInv /\ [Next]_vars => [Life!LifeNext]_(Life!lifeVars)
  BY LifeStep
<1>. QED BY <1>1, <1>2, ServerInvariant, PTL DEF Spec, Life!LifeSafety
=============================================================================
