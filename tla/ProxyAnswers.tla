---------------------------- MODULE ProxyAnswers ----------------------------
(***************************************************************************)
(* session.go: what the client of a ProxySession is told.  Every step of   *)
(* Proxy that writes to the client's socket is taken together with what it *)
(* writes: the replies that doLoop forwards, the error documents of        *)
(* RespondWithError and the documents of RespondToCommand, with which an   *)
(* interceptor answers in mongod's place.                                  *)
(*                                                                         *)
(* An interceptor may put another message in the place of the client's, of *)
(* another op code too, if its ResponseInterceptor turns the reply into    *)
(* what the client expects; it makes an exhaust query only of an exhaust   *)
(* query, and a request with a reply only of a request with one.  If it     *)
(* returns another message with an error, that one has the client's op     *)
(* code, because it is the one that RespondWithError looks at.             *)
(***************************************************************************)
EXTENDS Proxy

VARIABLES
  asked,  \* the request as the client sent it
  told    \* the messages sent to the client since

answerVars == <<asked, told>>

(* The op code a client expects in the answer to its request. *)
ReplyOp(m) ==
  CASE m.kind = "command" -> "OP_COMMAND_REPLY"
    [] m.kind \in {"msg", "oneway"} -> "OP_MSG"
    [] OTHER -> "OP_REPLY"

(* The op code of the answer that Session writes: "nothing" if it returns   *)
(* without writing, "ErrUnknownOpcode" if it returns that error.            *)
RespondToCommand(m) ==
  CASE m.kind \in {"query", "exhaust"} -> "OP_REPLY"
    [] m.kind = "write" -> "nothing"
    [] m.kind = "command" -> "OP_COMMAND_REPLY"
    [] m.kind \in {"msg", "oneway"} -> "OP_MSG"
    [] OTHER -> "ErrUnknownOpcode"

(* Faulty variant: OP_COMMAND is answered like OP_QUERY. *)
RespondWithErrorReply(m) ==
  CASE m.kind \in {"query", "exhaust", "getmore", "command"} -> "OP_REPLY"
    [] m.kind = "write" -> "nothing"
    [] m.kind \in {"msg", "oneway"} -> "OP_MSG"
    [] OTHER -> "ErrUnknownOpcode"

RespondWithError(m) ==
  CASE m.kind \in {"query", "exhaust", "getmore"} -> "OP_REPLY"
    [] m.kind = "write" -> "nothing"
    [] m.kind = "command" -> "OP_COMMAND_REPLY"
    [] m.kind \in {"msg", "oneway"} -> "OP_MSG"
    [] OTHER -> "ErrUnknownOpcode"

(* SendMessage(rm, s.conn): cursor id 0, ResponseTo the request. *)
Tell(s, op, num, left) ==
  told' = [told EXCEPT ![s] = Append(@, [op |-> op, num |-> num, left |-> left])]

-----------------------------------------------------------------------------
AnswersInit ==
  /\ Init
  /\ asked = [s \in Users |-> None]
  /\ told = [s \in Users |-> <<>>]

Asks(s) ==
  /\ ReadRequest(s)
  /\ asked' = [asked EXCEPT ![s] = msg'[s]]
  /\ told' = [told EXCEPT ![s] = <<>>]

(* What an interceptor may put in the place of the client's request. *)
Replaces(m, n) ==
  /\ (m.left > 0) = (n.left > 0)
  /\ m.kind = "exhaust" => n.kind = "exhaust"

SameKind(m, n) == Replaces(m, n) /\ ReplyOp(m) = ReplyOp(n)

Passes(s) ==
  /\ InterceptPasses(s)
  /\ Replaces(msg'[s], asked[s])
  /\ UNCHANGED answerVars

(* The interceptor answers a client that waits, with RespondToCommand; if   *)
(* that fails it returns the error (InterceptFails).                        *)
Answers(s) ==
  /\ InterceptAnswers(s)
  /\ LET op == RespondToCommand(asked[s]) IN
       IF asked[s].left = 0 THEN UNCHANGED told
       ELSE op # "ErrUnknownOpcode" /\ Tell(s, op, asked[s].num, 1)
  /\ UNCHANGED asked

(* doLoop goes on if RespondWithError returns nil. *)
Refuses(s) ==
  /\ InterceptRefuses(s)
  /\ SameKind(msg'[s], asked[s])
  /\ LET op == RespondWithError(msg'[s]) IN
       /\ sesspc'[s] = "read" => op # "ErrUnknownOpcode"
       /\ IF sesspc'[s] = "read" /\ op # "nothing" THEN Tell(s, op, msg'[s].num, 1)
          ELSE UNCHANGED told
  /\ UNCHANGED asked

(* SendMessage(resp, ps.conn), after respInter has translated the reply. *)
Forwards(s) ==
  /\ ForwardReply(s)
  /\ Tell(s, ReplyOp(asked[s]), resp[s].num, resp[s].left)
  /\ UNCHANGED asked

(* Steps that write nothing to the client. *)
Silent(s) ==
  /\ \/ CreateWorker(s) \/ InterceptFails(s)
     \/ KeepConn(s) \/ CallGet(s) \/ GetConn(s) \/ GetConnFails(s)
     \/ SendToMongo(s) \/ SendFails(s)
     \/ ReadReply(s) \/ ForwardFails(s)
     \/ CloseConn(s) \/ NothingToClose(s) \/ EndSession(s)
  /\ UNCHANGED answerVars

Works(s) == Silent(s) \/ Passes(s) \/ Answers(s) \/ Refuses(s) \/ Forwards(s)

AnswersNext ==
  /\ ~crashed
  /\ \/ \E s \in Users : \/ Works(s) \/ Asks(s)
                         \/ (ReadFails(s) \/ ReadReplyFails(s)) /\ UNCHANGED answerVars
     \/ \E c \in Conns : MongoServes(c) /\ UNCHANGED answerVars
     \/ Tick /\ UNCHANGED <<proxyVars, answerVars>>

AllVars == <<vars, answerVars>>

(* Where a session waits for others: for the interceptor, for a dial and    *)
(* the pool's hook, for mongod or the client to take what it writes.  None  *)
(* of these has a deadline that the code sets.                              *)
Waiting(s) ==
  \/ sesspc[s] \in {"start", "intercept", "send", "forward"}
  \/ At(s, "acquire") /\ poolpc[s] \in {"dial", "hook"}

(* Everywhere else it can run, and so the scheduler runs it. *)
AnswersSpec ==
  /\ AnswersInit /\ [][AnswersNext]_AllVars
  /\ \A s \in Users : WF_AllVars(~crashed /\ ~Waiting(s) /\ Works(s))

-----------------------------------------------------------------------------
(* Properties *)

(* Whoever answers - mongod, the interceptor through RespondToCommand, or   *)
(* RespondWithError - the client gets messages of the op code it waits for, *)
(* in response to the request it sent last.  (The op code of what mongod    *)
(* answers is the interceptor's contract, not something that doLoop does.)  *)
AnsweredInKind ==
  \A s \in Users : \A i \in DOMAIN told[s] :
    told[s][i].op = ReplyOp(asked[s]) /\ told[s][i].num = asked[s].num

(* When the session reads the next request, the client has been told all    *)
(* that it waits for: one message, or the batches of an exhaust query down  *)
(* to the one with cursor id 0; and nothing if it waits for none.  (A       *)
(* moreToCome message that is refused is answered all the same: HasResponse *)
(* does not see the flag.)                                                  *)
AnsweredInFull ==
  \A s \in Users : At(s, "read") /\ asked[s] # None /\ asked[s].kind # "oneway" =>
    IF asked[s].left = 0 THEN told[s] = <<>>
    ELSE /\ told[s] # <<>>
         /\ \A i \in DOMAIN told[s] : told[s][i].left = Len(told[s]) - i + 1

(* What a session waits for returns, and mongod serves what it is sent. *)
OthersReturn(s) ==
  /\ WF_AllVars(~crashed /\ Waiting(s) /\ Works(s))
  /\ \A c \in Conns : WF_AllVars(~crashed /\ MongoServes(c) /\ UNCHANGED answerVars)

(* If the interceptor, the client and mongod let it, a session is done with *)
(* each request it has read: it comes back for the next one, or ends.  It   *)
(* waits for no reply that does not come.                                   *)
RequestFinishes ==
  \A s \in Users :
    OthersReturn(s) => (At(s, "intercept") ~> sesspc[s] \in {"read", "closed"})
=============================================================================
