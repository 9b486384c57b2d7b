-------------------------- MODULE ProxyAnswersProofs ------------------------
(***************************************************************************)
(* The invariant of ProxyAnswers with an interceptor and without exhaust   *)
(* queries, and the proof that every step keeps it: what a client is told  *)
(* is the answer to the request it sent last, in the kind it waits for,    *)
(* and all of it when the session reads the next request.  ProxyProofs     *)
(* has the theorems.                                                       *)
(***************************************************************************)
EXTENDS ProxyAnswers, ProxyOrderProofs

Tellings == [op: {"OP_REPLY", "OP_COMMAND_REPLY", "OP_MSG"},
             num: 1..MaxRequests, left: 1..MaxBatches]

(* w is all that the client waits for after it sent request a. *)
InFull(a, w) ==
  a # None /\ a.kind # "oneway" =>
    IF a.left = 0 THEN w = <<>> ELSE \E e \in Tellings : w = <<e>> /\ e.left = 1

(* A session s at statement pc that has read n requests and handles m, when *)
(* its client sent a and has been told w since.                             *)
Dialogue(s, pc, n, m, a, w) ==
  /\ a # None => a \in Requests(s, n)
  /\ w \in Seq(Tellings)
  /\ \A i \in DOMAIN w : w[i].op = ReplyOp(a) /\ w[i].num = a.num
  /\ pc = "start" => a = None
  /\ pc \in Handling => /\ n > 0 /\ a \in Requests(s, n) /\ m \in Requests(s, n)
                        /\ (a.left > 0) = (m.left > 0)
                        /\ w = <<>>
  /\ pc = "intercept" => m = a
  /\ pc \in {"read", "deferOk"} => InFull(a, w)

(* The invariant of the answers: until it has an answer a session handles a *)
(* request that has a reply exactly if the client's has one, and the client *)
(* has been told nothing.                                                   *)
AnswersInv ==
  /\ asked \in [Users -> SentMessages \cup {None}]
  /\ told \in [Users -> Seq(Tellings)]
  /\ \A s \in Users : Dialogue(s, sesspc[s], nsent[s], msg[s], asked[s], told[s])

-----------------------------------------------------------------------------
(* A step of the answers is a step of the proxy. *)
LEMMA AnswersAreProxySteps ==
  ASSUME [AnswersNext]_AllVars
  PROVE  [Next]_vars
<1>1. CASE UNCHANGED AllVars
  BY <1>1 DEF AllVars
<1>2. CASE AnswersNext
  <2>1. ASSUME NEW s \in Users, Works(s) PROVE SessionStep(s)
    BY <2>1, ZenonT(20) DEF Works, Silent, Passes, Answers, Refuses, Forwards, SessionStep
  <2>2. ASSUME NEW s \in Users, Asks(s) PROVE ReadRequest(s)
    BY <2>2 DEF Asks
  <2>. QED BY <1>2, <2>1, <2>2, ZenonT(20) DEF AnswersNext, Next
<1>. QED BY <1>1, <1>2

(* What the client of a ProxySession sends, without exhaust queries. *)
LEMMA SingleRequest ==
  ASSUME "exhaust" \notin Kinds, NEW s, NEW n, NEW m \in Requests(s, n)
  PROVE  /\ m.by = s /\ m.num = n /\ m.kind \in Kinds /\ m # None
         /\ m.left = IF m.kind \in {"write", "kill", "oneway"} THEN 0 ELSE 1
<1>1. PICK k \in Kinds : m \in [by: {s}, num: {n}, kind: {k}, left: Replies(k)]
  BY DEF Requests
<1>2. m.by = s /\ m.num = n /\ m.kind = k /\ m.left \in Replies(k)
  BY <1>1
<1>3. m # None
  BY <1>1 DEF None
<1>4. k # "exhaust"
  BY <1>1
<1>5. m.left = IF k \in {"write", "kill", "oneway"} THEN 0 ELSE 1
  BY <1>2, <1>4 DEF Replies
<1>. QED BY <1>2, <1>3, <1>5

(* Nobody has asked anything when the proxy starts. *)
LEMMA AnswersInitInv == AnswersInit => AnswersInv
<1>1. SUFFICES ASSUME AnswersInit PROVE AnswersInv
  OBVIOUS
<1>2. ASSUME NEW s, NEW m PROVE Dialogue(s, "start", 0, m, None, <<>>)
  BY DEF Dialogue, Handling, InFull
<1>3. ASSUME NEW s \in Users
      PROVE  Dialogue(s, sesspc[s], nsent[s], msg[s], asked[s], told[s])
  <2>1. sesspc[s] = "start" /\ nsent[s] = 0 /\ asked[s] = None /\ told[s] = <<>>
    BY <1>1 DEF AnswersInit, Init
  <2>. QED BY <1>2, <2>1
<1>. QED BY <1>1, <1>3 DEF AnswersInv, AnswersInit

(* A step of session s. *)
LEMMA AnswersFrame ==
  ASSUME AnswersInv, NEW s \in Users, NEW a \in SentMessages \cup {None}, NEW w \in Seq(Tellings),
         asked' = [asked EXCEPT ![s] = a], told' = [told EXCEPT ![s] = w],
         \A t \in Users \ {s} : /\ sesspc'[t] = sesspc[t] /\ nsent'[t] = nsent[t]
                                /\ msg'[t] = msg[t],
         Dialogue(s, sesspc'[s], nsent'[s], msg'[s], a, w)
  PROVE  AnswersInv'
<1>1. /\ asked' \in [Users -> SentMessages \cup {None}] /\ told' \in [Users -> Seq(Tellings)]
      /\ asked'[s] = a /\ told'[s] = w
      /\ \A t \in Users \ {s} : asked'[t] = asked[t] /\ told'[t] = told[t]
  BY DEF AnswersInv
<1>2. ASSUME NEW t \in Users
      PROVE  Dialogue(t, sesspc'[t], nsent'[t], msg'[t], asked'[t], told'[t])
  <2>1. CASE t = s
    BY <1>1, <2>1
  <2>2. CASE t # s
    BY <1>1, <2>2 DEF AnswersInv
  <2>. QED BY <2>1, <2>2
<1>3. (\A t \in Users : Dialogue(t, sesspc[t], nsent[t], msg[t], asked[t], told[t]))'
  <2>1. ASSUME NEW t \in Users PROVE Dialogue(t, sesspc[t], nsent[t], msg[t], asked[t], told[t])'
    BY <1>2 DEF Dialogue, InFull
  <2>. QED BY <2>1
<1>. QED BY <1>1, <1>3 DEF AnswersInv

(* One message is told. *)
LEMMA OneTelling ==
  ASSUME NEW e \in Tellings
  PROVE  /\ Append(<<>>, e) = <<e>> /\ <<e>> \in Seq(Tellings)
         /\ \A i \in DOMAIN <<e>> : <<e>>[i] = e
  OBVIOUS

(* The client sends a request. *)
LEMMA AnswersAsk ==
  ASSUME LinkInv, TypeInv, AnswersInv, NEW s \in Users, HasInterceptor, Asks(s)
  PROVE  AnswersInv'
<1>. DEFINE a == msg'[s]
            n == nsent[s] + 1
<1>0. n \in 1..MaxRequests /\ n > 0
  BY ProxyAssumption DEF Asks, ReadRequest, TypeInv
<1>1. /\ sesspc' = [sesspc EXCEPT ![s] = "intercept"]
      /\ nsent' = [nsent EXCEPT ![s] = n]
      /\ \E m \in Requests(s, n) : msg' = [msg EXCEPT ![s] = m]
      /\ asked' = [asked EXCEPT ![s] = a] /\ told' = [told EXCEPT ![s] = <<>>]
  BY ZenonT(20) DEF Asks, ReadRequest, GoTo
<1>2. a \in Requests(s, n) /\ \A t \in Users \ {s} : msg'[t] = msg[t]
  BY <1>1 DEF TypeInv
<1>3. a \in SentMessages
  BY <1>0, <1>2, RequestTyped
<1>4. /\ sesspc'[s] = "intercept" /\ nsent'[s] = n
      /\ \A t \in Users \ {s} : sesspc'[t] = sesspc[t] /\ nsent'[t] = nsent[t]
  BY <1>1 DEF LinkInv, TypeInv
<1>. HIDE DEF a, n
<1>5. Dialogue(s, "intercept", n, a, a, <<>>)
  BY <1>0, <1>2 DEF Dialogue, Handling
<1>6. Dialogue(s, sesspc'[s], nsent'[s], msg'[s], a, <<>>)
  BY <1>4, <1>5 DEF a
<1>7. \A t \in Users \ {s} : /\ sesspc'[t] = sesspc[t] /\ nsent'[t] = nsent[t]
                              /\ msg'[t] = msg[t]
  BY <1>2, <1>4
<1>8. <<>> \in Seq(Tellings) /\ a \in SentMessages \cup {None}
  BY <1>3
<1>. QED BY <1>1, <1>6, <1>7, <1>8, AnswersFrame, ZenonT(20)

(* The interceptor passes a message on: it has a reply if the client's has. *)
LEMMA AnswersPass ==
  ASSUME LinkInv, TypeInv, AnswersInv, NEW s \in Users, Passes(s)
  PROVE  AnswersInv'
<1>. DEFINE a == asked[s]
            n == nsent[s]
            m == msg'[s]
<1>1. /\ sesspc[s] = "intercept" /\ sesspc' = [sesspc EXCEPT ![s] = "acquire"]
      /\ \E r \in Requests(s, n) : msg' = [msg EXCEPT ![s] = r]
      /\ (m.left > 0) = (a.left > 0) /\ UNCHANGED <<nsent, asked, told>>
  BY ZenonT(20) DEF Passes, Replaces, InterceptPasses, At, GoTo, answerVars
<1>2. m \in Requests(s, n) /\ \A t \in Users \ {s} : msg'[t] = msg[t]
  BY <1>1 DEF TypeInv
<1>3. Dialogue(s, "intercept", n, msg[s], a, told[s])
  BY <1>1 DEF AnswersInv
<1>4. /\ sesspc'[s] = "acquire" /\ \A t \in Users \ {s} : sesspc'[t] = sesspc[t]
  BY <1>1 DEF LinkInv
<1>. HIDE DEF a, n, m
<1>5. Dialogue(s, "acquire", n, m, a, told[s])
  BY <1>1, <1>2, <1>3 DEF Dialogue, Handling
<1>6. Dialogue(s, sesspc'[s], nsent'[s], msg'[s], a, told[s])
  BY <1>1, <1>4, <1>5 DEF m, n
<1>7. \A t \in Users \ {s} : /\ sesspc'[t] = sesspc[t] /\ nsent'[t] = nsent[t]
                              /\ msg'[t] = msg[t]
  BY <1>1, <1>2, <1>4
<1>8. /\ told[s] \in Seq(Tellings) /\ a \in SentMessages \cup {None}
      /\ asked' = [asked EXCEPT ![s] = a] /\ told' = [told EXCEPT ![s] = told[s]]
  BY <1>1 DEF AnswersInv, a
<1>. QED BY <1>6, <1>7, <1>8, AnswersFrame, ZenonT(20)

(* A session that tells its client one message in answer to its request. *)
LEMMA AnswersTell ==
  ASSUME LinkInv, TypeInv, AnswersInv, "exhaust" \notin Kinds, NEW s \in Users,
         sesspc[s] \in Handling, NEW p \in {"read", "deferOk"},
         sesspc' = [sesspc EXCEPT ![s] = p],
         Tell(s, ReplyOp(asked[s]), asked[s].num, 1),
         asked[s].kind = "oneway" \/ asked[s].left # 0,
         \A t \in Users \ {s} : msg'[t] = msg[t],
         UNCHANGED <<nsent, asked>>
  PROVE  AnswersInv'
<1>. DEFINE a == asked[s]
            e == [op |-> ReplyOp(a), num |-> a.num, left |-> 1]
<1>1. /\ Dialogue(s, sesspc[s], nsent[s], msg[s], a, told[s]) /\ a \in SentMessages \cup {None}
      /\ told \in [Users -> Seq(Tellings)]
  BY DEF AnswersInv
<1>2. a \in Requests(s, nsent[s]) /\ told[s] = <<>> /\ nsent[s] > 0
  BY <1>1 DEF Dialogue
<1>3. a.num = nsent[s] /\ a # None
  BY <1>2, SingleRequest
<1>4. e \in Tellings
  <2>1. a.num \in 1..MaxRequests /\ 1 \in 1..MaxBatches
    BY <1>2, <1>3, ProxyAssumption DEF TypeInv
  <2>2. ReplyOp(a) \in {"OP_REPLY", "OP_COMMAND_REPLY", "OP_MSG"}
    BY DEF ReplyOp
  <2>. QED BY <2>1, <2>2 DEF Tellings
<1>5. told' = [told EXCEPT ![s] = <<e>>]
  <2>1. told' = [told EXCEPT ![s] = Append(told[s], e)]
    BY DEF Tell
  <2>2. Append(told[s], e) = <<e>>
    BY <1>2, <1>4, OneTelling
  <2>. QED BY <2>1, <2>2, ZenonT(20)
<1>6. e.op = ReplyOp(a) /\ e.num = a.num /\ e.left = 1
  OBVIOUS
<1>7. a.kind = "oneway" \/ a.left # 0
  OBVIOUS
<1>. HIDE DEF a, e
<1>8. Dialogue(s, p, nsent[s], msg'[s], a, <<e>>)
  <2>1. /\ <<e>> \in Seq(Tellings)
        /\ \A i \in DOMAIN <<e>> : <<e>>[i].op = ReplyOp(a) /\ <<e>>[i].num = a.num
    BY <1>4, <1>6, OneTelling
  <2>2. InFull(a, <<e>>)
    BY <1>4, <1>6, <1>7 DEF InFull
  <2>3. p # "start" /\ p \notin Handling /\ p # "intercept"
    BY DEF Handling
  <2>. QED BY <1>2, <2>1, <2>2, <2>3, ZenonT(20) DEF Dialogue
<1>9. sesspc'[s] = p /\ \A t \in Users \ {s} : /\ sesspc'[t] = sesspc[t] /\ nsent'[t] = nsent[t]
                                               /\ msg'[t] = msg[t]
  BY DEF LinkInv
<1>10. Dialogue(s, sesspc'[s], nsent'[s], msg'[s], a, <<e>>)
  BY <1>8, <1>9
<1>11. asked' = [asked EXCEPT ![s] = a]
  BY DEF AnswersInv, a
<1>12. <<e>> \in Seq(Tellings)
  BY <1>4, OneTelling
<1>. QED BY <1>1, <1>5, <1>9, <1>10, <1>11, <1>12, AnswersFrame, ZenonT(20)

(* A step that tells the client nothing. *)
LEMMA AnswersMove ==
  ASSUME LinkInv, AnswersInv, NEW s \in Users, NEW p,
         sesspc' = [sesspc EXCEPT ![s] = p],
         \A t \in Users \ {s} : msg'[t] = msg[t],
         UNCHANGED <<nsent, asked, told>>,
         p # "start", p # "intercept",
         p \in Handling => sesspc[s] \in Handling /\ msg'[s] = msg[s],
         p \in {"read", "deferOk"} => InFull(asked[s], told[s])
  PROVE  AnswersInv'
<1>1. Dialogue(s, sesspc[s], nsent[s], msg[s], asked[s], told[s])
  BY DEF AnswersInv
<1>2. Dialogue(s, p, nsent[s], msg'[s], asked[s], told[s])
  BY <1>1, ZenonT(20) DEF Dialogue
<1>3. sesspc'[s] = p /\ \A t \in Users \ {s} : /\ sesspc'[t] = sesspc[t] /\ nsent'[t] = nsent[t]
                                               /\ msg'[t] = msg[t]
  BY DEF LinkInv
<1>4. /\ asked' = [asked EXCEPT ![s] = asked[s]] /\ told' = [told EXCEPT ![s] = told[s]]
      /\ asked[s] \in SentMessages \cup {None} /\ told[s] \in Seq(Tellings)
  BY DEF AnswersInv
<1>5. Dialogue(s, sesspc'[s], nsent'[s], msg'[s], asked[s], told[s])
  BY <1>2, <1>3
<1>. QED BY <1>3, <1>4, <1>5, AnswersFrame, ZenonT(20)

(* A step that changes nothing of the sessions and of the answers. *)
LEMMA AnswersSame ==
  ASSUME AnswersInv, UNCHANGED <<sesspc, nsent, msg, asked, told>>
  PROVE  AnswersInv'
<1>1. ASSUME NEW t \in Users PROVE Dialogue(t, sesspc[t], nsent[t], msg[t], asked[t], told[t])'
  <2>1. Dialogue(t, sesspc[t], nsent[t], msg[t], asked[t], told[t])
    BY DEF AnswersInv
  <2>. QED BY <2>1 DEF Dialogue, InFull
<1>. QED BY <1>1 DEF AnswersInv

(* The interceptor answers in mongod's place. *)
LEMMA AnswersAnswer ==
  ASSUME LinkInv, TypeInv, AnswersInv, "exhaust" \notin Kinds, NEW s \in Users, Answers(s)
  PROVE  AnswersInv'
<1>1. /\ sesspc[s] = "intercept" /\ sesspc' = [sesspc EXCEPT ![s] = "read"]
      /\ UNCHANGED <<nsent, msg, asked>>
      /\ IF asked[s].left = 0 THEN UNCHANGED told
         ELSE /\ RespondToCommand(asked[s]) # "ErrUnknownOpcode"
              /\ Tell(s, RespondToCommand(asked[s]), asked[s].num, 1)
  BY DEF Answers, InterceptAnswers, At, GoTo
<1>2. asked[s] \in Requests(s, nsent[s]) /\ told[s] = <<>>
  BY <1>1 DEF AnswersInv, Dialogue, Handling
<1>3. /\ asked[s].kind \in Kinds
      /\ asked[s].left = IF asked[s].kind \in {"write", "kill", "oneway"} THEN 0 ELSE 1
  BY <1>2, SingleRequest
<1>4. "intercept" \in Handling /\ "read" \notin Handling
  BY DEF Handling
<1>5. CASE asked[s].left = 0
  <2>1. InFull(asked[s], told[s])
    BY <1>2, <1>5 DEF InFull
  <2>. QED BY <1>1, <1>4, <1>5, <2>1, AnswersMove, ZenonT(20)
<1>6. CASE asked[s].left # 0
  <2>1. asked[s].kind \notin {"write", "kill", "oneway", "exhaust"}
    BY <1>3, <1>6
  <2>2. RespondToCommand(asked[s]) = ReplyOp(asked[s])
    BY <1>1, <1>6, <2>1 DEF RespondToCommand, ReplyOp
  <2>. QED BY <1>1, <1>4, <1>6, <2>2, AnswersTell, ZenonT(20)
<1>. QED BY <1>5, <1>6

(* RespondWithError answers the client, or the session ends. *)
LEMMA AnswersRefuse ==
  ASSUME LinkInv, TypeInv, AnswersInv, "exhaust" \notin Kinds, NEW s \in Users, Refuses(s)
  PROVE  AnswersInv'
<1>. DEFINE m == msg'[s]
            op == RespondWithError(m)
<1>0. PICK r \in Requests(s, nsent[s]) :
        /\ msg' = [msg EXCEPT ![s] = r]
        /\ \/ HasResponse(r) /\ sesspc' = [sesspc EXCEPT ![s] = "read"]
           \/ sesspc' = [sesspc EXCEPT ![s] = "exit"]
  BY DEF Refuses, InterceptRefuses, GoTo
<1>1. /\ sesspc[s] = "intercept" /\ UNCHANGED <<nsent, asked>>
      /\ (m.left > 0) = (asked[s].left > 0) /\ ReplyOp(m) = ReplyOp(asked[s])
      /\ sesspc'[s] = "read" => op # "ErrUnknownOpcode"
      /\ IF sesspc'[s] = "read" /\ op # "nothing" THEN Tell(s, op, m.num, 1)
         ELSE UNCHANGED told
  BY DEF Refuses, InterceptRefuses, SameKind, Replaces, At
<1>2. /\ asked[s] \in Requests(s, nsent[s]) /\ m = r
      /\ \A t \in Users \ {s} : msg'[t] = msg[t]
  BY <1>0, <1>1 DEF AnswersInv, Dialogue, Handling, TypeInv
<1>3. /\ asked[s].kind \in Kinds
      /\ asked[s].left = IF asked[s].kind \in {"write", "kill", "oneway"} THEN 0 ELSE 1
  BY <1>2, SingleRequest
<1>4. "intercept" \in Handling /\ "exit" \notin Handling
  BY DEF Handling
<1>5. CASE HasResponse(r) /\ sesspc' = [sesspc EXCEPT ![s] = "read"]
  <2>1. sesspc'[s] = "read"
    BY <1>5 DEF LinkInv
  <2>2. r.kind \notin {"write", "kill", "exhaust"} /\ r.num = asked[s].num
        /\ r.left = IF r.kind = "oneway" THEN 0 ELSE 1
    BY <1>2, <1>5, SingleRequest DEF HasResponse
  <2>3. op = ReplyOp(r)
    BY <1>1, <1>2, <2>1, <2>2 DEF RespondWithError, ReplyOp
  <2>4. op # "nothing"
    BY <2>3 DEF ReplyOp
  <2>5. Tell(s, ReplyOp(asked[s]), asked[s].num, 1)
    BY <1>1, <1>2, <2>1, <2>2, <2>3, <2>4
  <2>6. asked[s].kind = "oneway" \/ asked[s].left # 0
    BY <1>1, <1>2, <1>3, <2>2 DEF ReplyOp
  <2>. QED BY <1>1, <1>2, <1>4, <1>5, <2>5, <2>6, AnswersTell, ZenonT(20)
<1>6. CASE sesspc' = [sesspc EXCEPT ![s] = "exit"]
  <2>1. sesspc'[s] # "read"
    BY <1>6 DEF LinkInv
  <2>2. UNCHANGED told
    BY <1>1, <2>1
  <2>. QED BY <1>1, <1>2, <1>4, <1>6, <2>2, AnswersMove, ZenonT(20)
<1>. QED BY <1>0, <1>5, <1>6

(* doLoop forwards the reply, which is the one to the request and the last. *)
LEMMA AnswersForward ==
  ASSUME LinkInv, TypeInv, ReplyInv, AnswersInv, "exhaust" \notin Kinds, NEW s \in Users,
         Forwards(s)
  PROVE  AnswersInv'
<1>1. /\ sesspc[s] = "forward" /\ UNCHANGED <<nsent, msg, asked>>
      /\ sesspc' = [sesspc EXCEPT ![s] = IF inExhaustMode(msg[s]) /\ resp[s].left # 1
                                         THEN "await" ELSE "deferOk"]
      /\ Tell(s, ReplyOp(asked[s]), resp[s].num, resp[s].left)
  BY ZenonT(20) DEF Forwards, ForwardReply, At, GoTo
<1>2. /\ asked[s] \in Requests(s, nsent[s]) /\ msg[s] \in Requests(s, nsent[s])
      /\ (asked[s].left > 0) = (msg[s].left > 0)
  BY <1>1, ZenonT(20) DEF AnswersInv, Dialogue, Handling
<1>3. resp[s] = ReplyTo(msg[s]) /\ (resp[s] # None => resp[s] \in SentReplies)
  BY <1>1 DEF ReplyInv, TypeInv
<1>4. msg[s].num = nsent[s] /\ msg[s].kind \in Kinds /\ msg[s].left \in {0, 1}
  BY <1>2, SingleRequest
<1>5. asked[s].num = nsent[s] /\ asked[s].left \in {0, 1}
  BY <1>2, SingleRequest
<1>6. /\ resp[s].num = msg[s].num /\ resp[s].left = msg[s].left /\ resp[s] # None
  BY <1>3 DEF ReplyTo, None
<1>7. resp[s].left \in 1..MaxBatches
  BY <1>3, <1>6 DEF SentReplies
<1>8. resp[s].left = 1 /\ msg[s].left = 1
  BY <1>4, <1>6, <1>7
<1>9. asked[s].left # 0
  BY <1>2, <1>8
<1>10. sesspc' = [sesspc EXCEPT ![s] = "deferOk"]
  BY <1>1, <1>8
<1>11. Tell(s, ReplyOp(asked[s]), asked[s].num, 1)
  BY <1>1, <1>4, <1>5, <1>6, <1>8
<1>12. sesspc[s] \in Handling
  BY <1>1 DEF Handling
<1>. QED BY <1>1, <1>9, <1>10, <1>11, <1>12, AnswersTell, ZenonT(20)

(* The request goes to mongod: without a reply to wait for, the client      *)
(* waits for none either.                                                   *)
LEMMA AnswersSend ==
  ASSUME HasInterceptor, LinkInv, AnswersInv, "exhaust" \notin Kinds, NEW s \in Users,
         SendToMongo(s), UNCHANGED answerVars
  PROVE  AnswersInv'
<1>1. /\ sesspc[s] = "send" /\ UNCHANGED <<nsent, msg, asked, told>>
      /\ sesspc' = [sesspc EXCEPT ![s] = IF expectingResponse(msg[s]) /\ HasResponse(msg[s])
                                         THEN "await" ELSE "read"]
  BY ZenonT(20) DEF SendToMongo, At, GoTo, answerVars
<1>2. /\ asked[s] \in Requests(s, nsent[s]) /\ msg[s] \in Requests(s, nsent[s])
      /\ (asked[s].left > 0) = (msg[s].left > 0) /\ told[s] = <<>>
  BY <1>1 DEF AnswersInv, Dialogue, Handling
<1>3. msg[s].left = IF msg[s].kind \in {"write", "kill", "oneway"} THEN 0 ELSE 1
  BY <1>2, SingleRequest
<1>4. asked[s].left \in {0, 1}
  BY <1>2, SingleRequest
<1>5. sesspc[s] \in Handling /\ "await" \in Handling /\ "read" \notin Handling
  BY <1>1 DEF Handling
<1>6. CASE expectingResponse(msg[s]) /\ HasResponse(msg[s])
  BY <1>1, <1>5, <1>6, AnswersMove, ZenonT(20)
<1>7. CASE ~(expectingResponse(msg[s]) /\ HasResponse(msg[s]))
  <2>1. msg[s].left = 0
    BY <1>3, <1>7 DEF expectingResponse, HasResponse
  <2>2. asked[s].left = 0
    BY <1>2, <1>4, <2>1
  <2>3. InFull(asked[s], told[s])
    BY <1>2, <2>2 DEF InFull
  <2>. QED BY <1>1, <1>5, <1>7, <2>3, AnswersMove, ZenonT(20)
<1>. QED BY <1>6, <1>7, ZenonT(20)

(* Every step keeps the answers. *)
LEMMA AnswersStep ==
  ASSUME HasInterceptor, "exhaust" \notin Kinds, LinkInv, TypeInv, ReplyInv, AnswersInv,
         [AnswersNext]_AllVars
  PROVE  AnswersInv'
<1>1. CASE \/ UNCHANGED AllVars
           \/ Tick /\ UNCHANGED <<proxyVars, answerVars>>
           \/ \E c \in Conns : MongoServes(c) /\ UNCHANGED answerVars
  <2>1. UNCHANGED <<sesspc, nsent, msg, asked, told>>
    BY <1>1, ZenonT(20) DEF AllVars, vars, proxyVars, answerVars, MongoServes
  <2>. QED BY <2>1, AnswersSame
<1>2. ASSUME NEW s \in Users,
             \/ Works(s) \/ Asks(s)
             \/ (ReadFails(s) \/ ReadReplyFails(s)) /\ UNCHANGED answerVars
      PROVE  AnswersInv'
  <2>1. CASE Asks(s)
    BY <2>1, AnswersAsk
  <2>2. CASE Passes(s)
    BY <2>2, AnswersPass
  <2>3. CASE Answers(s)
    BY <2>3, AnswersAnswer
  <2>4. CASE Refuses(s)
    BY <2>4, AnswersRefuse
  <2>5. CASE Forwards(s)
    BY <2>5, AnswersForward
  <2>6. CASE SendToMongo(s) /\ UNCHANGED answerVars
    BY <2>6, AnswersSend
  <2>7. CASE CallGet(s) /\ UNCHANGED answerVars
    <3>1. UNCHANGED <<sesspc, nsent, msg, asked, told>>
      BY <2>7, ZenonT(20) DEF CallGet, proxyVars, answerVars
    <3>. QED BY <3>1, AnswersSame
  <2>8. CASE CloseConn(s) /\ UNCHANGED answerVars
    <3>1. UNCHANGED <<nsent, msg, asked, told>>
      BY <2>8 DEF CloseConn, answerVars
    <3>2. CASE UNCHANGED sesspc
      BY <3>1, <3>2, AnswersSame
    <3>3. CASE CloseReturns(s)
      <4>1. PICK p \in {"read", "end", "exit"} :
              sesspc' = [sesspc EXCEPT ![s] = p] /\ (p = "read" => sesspc[s] = "deferOk")
        BY <3>3, ZenonT(20) DEF CloseReturns, GoTo, At
      <4>2. p = "read" => InFull(asked[s], told[s])
        BY <4>1 DEF AnswersInv, Dialogue
      <4>3. p # "start" /\ p # "intercept" /\ p \notin Handling
            /\ (p \in {"read", "deferOk"} => InFull(asked[s], told[s]))
        BY <4>1, <4>2 DEF Handling
      <4>. QED BY <3>1, <4>1, <4>3, AnswersMove, ZenonT(20)
    <3>. QED BY <2>8, <3>2, <3>3, ZenonT(20) DEF CloseConn
  <2>9. CASE CreateWorker(s) /\ UNCHANGED answerVars
    <3>1. /\ UNCHANGED <<nsent, msg, asked, told>> /\ sesspc[s] = "start"
      BY <2>9 DEF CreateWorker, At, answerVars
    <3>2. PICK p \in {"read", "closed"} : sesspc' = [sesspc EXCEPT ![s] = p]
      BY <2>9, ZenonT(20) DEF CreateWorker, GoTo
    <3>3. InFull(asked[s], told[s])
      BY <3>1 DEF AnswersInv, Dialogue, InFull
    <3>4. p # "start" /\ p # "intercept" /\ p \notin Handling
      BY <3>2 DEF Handling
    <3>. QED BY <3>1, <3>2, <3>3, <3>4, AnswersMove, ZenonT(20)
  <2>10. CASE /\ \/ InterceptFails(s) \/ KeepConn(s) \/ GetConn(s) \/ GetConnFails(s)
                 \/ SendFails(s) \/ ReadReply(s) \/ ForwardFails(s) \/ NothingToClose(s)
                 \/ EndSession(s) \/ ReadFails(s) \/ ReadReplyFails(s)
              /\ UNCHANGED answerVars
    <3>1. UNCHANGED <<nsent, msg, asked, told>>
      BY <2>10, ZenonT(20) DEF InterceptFails, KeepConn, GetConn, GetConnFails, SendFails,
        ReadReply, ForwardFails, NothingToClose, EndSession, ReadFails, ReadReplyFails, answerVars
    <3>2. PICK p \in {"exit", "fatal", "send", "forward", "deferErr", "end", "closed"} :
            /\ sesspc' = [sesspc EXCEPT ![s] = p]
            /\ p \in {"send", "forward"} => sesspc[s] \in {"acquire", "await"}
      BY <2>10, ZenonT(20) DEF InterceptFails, KeepConn, GetConn, GetConnFails, SendFails,
        ReadReply, ForwardFails, NothingToClose, EndSession, ReadFails, ReadReplyFails, GoTo, At
    <3>3. /\ p # "start" /\ p # "intercept" /\ p \notin {"read", "deferOk"}
          /\ p \in Handling => sesspc[s] \in Handling
      BY <3>2 DEF Handling
    <3>. QED BY <3>1, <3>2, <3>3, AnswersMove, ZenonT(20)
  <2>. QED BY <1>2, <2>1, <2>2, <2>3, <2>4, <2>5, <2>6, <2>7, <2>8, <2>9, <2>10, ZenonT(20)
       DEF Works, Silent
<1>. QED BY <1>1, <1>2 DEF AnswersNext

=============================================================================
