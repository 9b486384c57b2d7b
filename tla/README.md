# mongonet: specifications, model checking and proofs

mongonet is a library for programs that speak the MongoDB wire protocol; its
main use is a proxy between clients and a mongod. This directory models the
parts of it that are concurrent or easy to get wrong: TLA+ modules translated
from the Go source, TLC configurations that check them on small instances, and
TLAPS proofs about the connection pool, the proxy sessions, the server, the
framing and the wire codec for instances of any size.

## The system

| Part | Source | State | Operations |
|---|---|---|---|
| Connection pool | `connpool.go` | stack of idle connections under a mutex, `closed`, `bad` and `lastUsedUnix` of each, `totalCreated` | `Get` (`rawGet`, age check, dial, hook), `Put` |
| Proxy session | `proxy.go` | request and reply being handled, the connection kept from one request to the next | `CreateWorker`, `DoLoopTemp`, `doLoop`, `Close` |
| Server | `server.go` | listener, `killChan`, `doneChan`, `initChan`, channel of accepted connections, session wait group and context | `Run`, `Close`, the accept goroutines |
| TLS configuration | `server.go` (`SyncTlsConfig`) | the current `tls.Config` under a lock | `setTlsConfig` (through `OnSSLConfig`), `getTlsConfig` |
| Session | `session.go` | where each session's goroutine is | `Run` with its deferred function, `RespondToCommand`, `RespondWithError` |
| Framing | `sock.go` | bytes under way, bytes of the current message | `sendBytes`, `ReadMessage` |
| Connection checker | `connchecker.go` | read and write deadline | `CheckedConn.Read`, `Write` |
| Wire codec | `wire*.go`, `bsonutil.go` | none | a parser and a serializer for each of ten op codes |
| BSON helpers | `bsonutil.go` | none | `BSONWalk`, `BSONWalkAll`, accessors |
| Namespaces, configuration, errors, examples | `namespace.go`, `config.go`, `util.go`, `cmd/` | none | pure functions, constructors, wiring |

How they interact: `Server.Run` accepts a connection and starts `Session.Run`,
which makes a worker. In a proxy the worker is a `ProxySession`: it reads a
request from the client (framing over the checker, then the codec), asks the
interceptor, takes a connection from the pool shared by all sessions, forwards
the request, forwards the reply or replies, and returns the connection. A
request that the interceptor refuses or answers itself is answered by
`RespondWithError` or `RespondToCommand` of the session instead. Meanwhile the
owner of the server may replace its TLS configuration or call `Close`.

What is hard in it: sessions share connections and replies are matched to
requests by nothing but the connection they arrive on; a connection has one
owner by convention only, over some fifteen exits from `doLoop`; shutdown involves
`Run`, the accept goroutine, every session and the caller of `Close`; a TLS
configuration is published before it is complete; sockets split
bytes anywhere and time out in the middle of a message; each serializer computes
a size and then, separately, the positions it writes to; the BSON walks change
documents in place while they descend into them.

## Modules

**ConnLease** is what a pool promises: a connection is fresh, idle, leased to
one user or retired, and passes from one user to another only through idle.

**ConnectionPool** is `connpool.go`. A user is a goroutine; `poolpc` says which
statement of `Get` or `Put` it has reached, and each critical section, and each
step between two of them, is an action (`RawGetHit`, `RawGetMiss`, `Reuse`,
`Expire`, `Dial`, `DialFails`, `HookAccepts`, `HookFails`, `CountCreated`,
`PutBad`, `PutGood`, `Push`). Time is a counter that `Tick` moves. The panic of
`Put` is the variable `crashed`. Users follow the contract: they Close what
`Get` gave them, once.

**Proxy** extends ConnectionPool: the users are proxy sessions, and the steps of
`Get` and `Put` are taken at the calls in `doLoop` and `DoLoopTemp`. That they
follow the pool's contract is now a property (`ObeysPool`), no assumption.
mongod, clients and the interceptor are external: mongod serves the requests of
a connection in order; the interceptor may pass, replace, answer or refuse a
request, and says truthfully whether mongod will reply. A request has a kind:
one reply (`query`, `getmore`, `command`, `msg`), several (`exhaust`), none by
its type (`write`, `kill`), none by a flag (`oneway`).

**ProxyInvariants** extends Proxy with the inductive invariants that its proofs
rest on (`ProxyInv` and `TypeInv`); the run `proxy` checks the first as well.

**ProxyAnswers** extends Proxy with the client's side: what was asked, and what
has been told since. Each step of Proxy that writes to the client is taken
together with the message it writes; `RespondToCommand` and `RespondWithError`
are the dispatch of `session.go` on the op code, with the op codes they refuse.
The interceptor's contract is stated there: a request with a reply is replaced
only by one with a reply (`Replaces`), its `ResponseInterceptor` turns mongod's
reply into what the client expects (so the op code of a forwarded reply is
assumed, the request it answers is not), and a message returned with an error,
which is the one `doLoop` and `RespondWithError` look at, has the op code of the
client's (`SameKind`).

**SyncTls** is `SyncTlsConfig`: the pointer is replaced first and what it points
to is completed afterwards, under one lock. **Server** extends it: `Server.Run`,
`Server.Close`, `OnSSLConfig` and `Session.Run`. `config`, chosen in `Init`,
says which server it is: one with a contextual factory or another, made by
`NewServer` or by `Proxy.InitializeServer` (then without `sessionManager`), with
or without TLS, with an Accept that may fail or not. **ServerLife** is what a
server promises: it starts sessions only while it runs, one for a connection,
and once it is to stop it comes to rest after the last one it waits for.

**MessageChannel** is what one direction of a socket promises: messages are
received whole, in order and once, each after all of it was sent, until one of
the ends stops.

**Framing** is `sock.go` over `connchecker.go`, one direction of a socket. A
byte is the pair (message, offset), so the reader's buffer shows whether it is
in step (a header that promises fewer than its own four bytes still has them:
`Length`). One step is one round of the loop in `CheckedConn.Read` or `Write`.
What `CheckConnectionInterval` returns may change between any two rounds. A size
of 4 passes the check of `sock.go:45` but leaves nothing to read, so `ReadMessage`
goes straight on to the check for 12 bytes of header, which fails: `GotSize`
refuses it with the other invalid sizes.

**Wire** is the codec. A body is a sequence of tokens with their widths, and
the content of a byte is its position: the serialized buffer then shows where
each byte comes from. Each parser is the list of the items it reads, each
serializer the constant part of its size and how it writes each item; the first
flag byte of an OP_MSG, from which `Serialize` clears checksumPresent, is a value
of its own (`ChecksumCleared`). The body may be cut at any byte. The format a peer sends (`Format`) is the wire protocol
and stands apart from the parsers; the peer composes a body item by item
(`Compose`), the sections of an OP_MSG one by one (`ComposeSection`). Positions
are running sums of widths (`Ends`).

**BsonWalk** is `BSONWalk` and `BSONWalkAll`: one call on one document, which
returns what the slices hold afterwards, the changes made in place included.
The reference definitions (`Selected`, `Rewritten`, `Applied`) say what a path
or a key selects and what a visitor makes of it, without `prev`, indices or
aliasing. `Regular` is the premise under which the two agree; what it excludes
is listed under the hazards of `bsonutil.go`.

Operators introduced as "Faulty variant" are plausible mistakes, used to see
that a property can fail; no specification uses them.

## Runs

| Run | Instance | Shows |
|---|---|---|
| `pool` | 2 users, 3 connections, 2 ticks | no connection lent twice, lost or closed twice; `totalCreated` counts what `Get` created and handed out; the number of sockets is bounded by the users; `Get` returns; the pool implements ConnLease |
| `proxy` | 2 sessions, 2 connections, 2 requests each | replies reach their request, connections in the pool are quiet, sessions keep nothing and obey the pool's contract, mongod sees requests in order; the invariant of the proofs holds |
| `proxy_answers` | 1 session, 8 kinds of request, 2 requests, 3 batches | the client is told what it waits for, in the op code it expects, in full and nothing else; exhaust queries are followed to the end; a request is finished if nobody the session waits for holds it up |
| `proxy_stale_reply` | 2 sessions, exhaust | **violated**: a session that fails in an exhaust query leaves its batches to the next |
| `proxy_no_interceptor` | no interceptor | **violated**: the end of a session closes a nil interceptor |
| `server` | 2 clients, 2 reloads, four servers | clients are served; `Close` returns and does not overtake a session; no session gets an incomplete TLS configuration; one accept at a time, and its goroutine ends; the wait group never goes below 0; the server implements ServerLife |
| `server_kill_ignored` | failing accepts | **violated**: sessions are not told to stop after Accept failed |
| `server_no_manager` | the proxy's server | **violated**: a failing Accept meets a nil `sessionManager` |
| `wire` | ten op codes, lists of up to 2 documents, 2 sections, cut at every byte | what is parsed and serialized again is what was read, but for reserved fields and the checksum bit; what is cut is refused, except where an OP_MSG ends in fewer than five bytes |
| `bson` | documents of up to 4 levels, paths of up to 3 keys | the walks change what the path or key selects, and nothing else, and the visitor sees it in order |
| `bson_delete` | the same | **violated**: an embedded document in which a value is deleted is not emptied |
| `framing` | 2 messages, TCP and TLS, checked, not checked or changing, faults | the sockets implement MessageChannel: messages are returned whole, in order and once, each after all of it was written; if the reader keeps reading, they arrive unless the session ends, and `sendBytes` returns; the invariant of the proofs, which includes the types, holds |

The violated properties are what a comment or the surrounding code says;
`PROJECT.json` quotes the line under "findings".

### Bounds

Two users let one connection be pushed while it is looked for, and a third
connection lets one expire while both hold another; the proofs cover any
number. Two proxy sessions are the smallest number in which one can
inherit the other's connection, two requests the smallest in which a kept
connection is used again; `proxy_answers` has one session, because what a client
is told depends on its own session only (the proofs cover any number, without
exhaust queries). Two clients let one wait in the backlog
while the other is being accepted, and the second of two reloads replaces a
configuration in use. Four levels of documents are two more than `prev` and
`current` span, and arrays of two members have one to delete and one to keep.
Two documents after each other, strings of one and
three bytes and two document widths make every offset in a message depend on
the one before. Message sizes in Framing are real (16 bytes and more, because
the guards compare with 4 and 16); a window of 7 bytes splits every message
and holds the end of one with the start of the next. `MaxTime`,
`MaxRequests`, `MaxBatches` and `MaxLoads` only bound counters.

Deadlock checking is off: a client may leave or a bound may be reached, and the
system then rightly stops. In `pool` it
is on. Symmetry (of connections) is used in `proxy` only, which checks no
liveness.

### Fairness

Weak fairness of goroutines that can run: the Go scheduler is preemptive and a
mutex is not withheld for ever. Strong fairness of `SelectKill`, because
`select` chooses among ready cases at random. A reload that holds the lock goes
on (its caller need not start one). Two assumptions are about the network:

- `WriteOk` is strongly fair: a socket with room for more does not time out every
  time before it takes a byte, and each end notices that the other has closed.
- In `pool` a dial returns and so does the hook; `GetTerminates` is about `Get`
  itself, which bounds neither (`PoolFairness`).

Nothing is assumed of the others. Where a property needs them, they are its
premise:

- `RequestFinishes`: the steps at which a session waits for the interceptor, a
  dial, mongod or the client (`Waiting`) return, and mongod serves
  (`OthersReturn`). The specification has fairness only for the steps that
  `doLoop` takes by itself.
- `MessageArrives`, `SendReturns`: the reader keeps reading until it closes
  (`KeepsReading`). Against a reader that does neither, `sendBytes` waits for
  ever.
- `CloseTerminates` is checked without TLS: a session and a TLS handshake may
  last for ever, and one client that does not finish its handshake keeps `Close`
  waiting.

## Proofs

`ConnectionPoolProofs` proves, for every set of connections, every finite set
of users, every time-out and every bound on time (`PoolAssumption`):

- `PoolInvariant`: `PoolInv` is an invariant. `Exclusive` alone is not
  inductive: that the connection a user pushes is not in the pool yet rests on
  nobody else holding it, that `Put` does not panic rests on `closed` being
  false while a user has the connection (`HeldSound`), and that a dialled
  connection is good rests on its being untouched before (`FreshUntouched`).
  There is one lemma per action.
- `PoolTypeCorrect`, `PoolExclusive`, `PoolStaysHealthy`, `PoolNeverPanics`,
  `PoolLosesNoSocket`: its consequences.
- `PoolCountsCreated`: `totalCreated` is the number of connections that were
  handed out. Besides `PoolInv` it needs that the set of them grows by one
  connection exactly where `Get` counts: what `CountCreated` returns was fresh,
  and what is reused, given back or expires was in the set already
  (`HandedOutSame`, `CreatedOnce`).
- `PoolSocketBound`: open sockets and dials under way never outnumber users.
  The step to look at is the miss of `rawGet`, which adds a dial: the stack is
  empty then, so each open socket has a holder of its own, who is not dialling.
- `PoolImplementsLease`: each action is a step of ConnLease or leaves the
  owners unchanged.

`ServerProofs` proves, for every finite set of clients, every set of server
configurations (in which a contextual factory comes with a manager: the one
server without is a Proxy's, and Proxy is no contextual factory) and any number
of reloads (`ServerAssumption`, `LoadsAssumption`):

- `ServerInvariant`: `ServerInv` is an invariant. `DoneMeansEnded` is not
  inductive, because the code looks at the wait group and not at the sessions:
  `CountInv` says that the counter is the number of sessions between `Add` and
  `Done`. That `Add` is for a session not counted before rests on `PlaceInv` (a
  connection on its way to `Run` has no session yet); that one buffer place is
  enough rests on `AcceptInv` (nothing is on its way when `Run` starts an
  Accept); that a session's configuration is built rests on `TlsInv` (an
  unbuilt one is the current one only while the lock is held).
- `ServerTypeCorrect`, `ServerOneAcceptor`, `ServerDoneMeansEnded`,
  `ServerTlsReady`: its consequences.
- `ServerNeverPanics`: if every server whose Accept may fail has a manager, no
  nil `sessionManager` is met and the counter stays at 0 or above. The run
  `server_no_manager` shows that the hypothesis is needed.
- `ServerImplementsLife`: each action is a step of ServerLife or leaves it
  unchanged. This is the safety part of `RefinesLife`; that `Run` returns once
  nothing is left to wait for is checked by TLC.

`ProxyProofs` proves, for every finite set of sessions, every set of connections
and any number of requests (`PoolAssumption`, `ProxyAssumption`). All but
`AnswersImplementProxy` suppose an interceptor: the run `proxy_no_interceptor`
shows that without one a session ends in a panic. Those named as such suppose
that no client sends exhaust queries.

- `ProxyObeysPool`: the proxy implements the pool with users that follow its
  contract, so the theorems above hold of it. The argument is `LinkInv`: a
  session's `pooledConn` is the connection that the pool takes it to hold, and
  a session without one is outside the pool or inside `Get`. It is shown for
  each exit of `doLoop` (`ProxyReplyProofs`).
- `ProxyNeverPanics`, `ProxyKeepsNothing`: its consequences.
- `ProxyTypeCorrect`, whichever requests clients send, exhaust queries included:
  it rests on `TypeInv` (`ProxyTyped`), because that a reply has a number of
  batches in range depends on the request mongod took it from, and that one on
  what the session had read. The steps are in `ProxyOrderProofs`.
- `ProxyInvariant`, without exhaust queries: `ProxyInv` is an invariant. Its
  two parts beyond `LinkInv` are `ReplyInv` and `OrderInv`.
  `ReplyMatches` alone is not inductive, since a reply carries nothing that
  `doLoop` compares with the request. `ReplyInv` says where replies can be: on
  a connection that a session waits on, its own reply or its own request and
  nothing else that will be answered; on any other connection that is not bad,
  nothing. It needs `MsgInv` (a request has one reply or none, and none if its
  type has no response, so what is not waited for is not answered) and
  `Exclusive` of the pool (nobody else writes to the connection). The steps
  are in `ProxyReplyProofs`.
- `ProxyReplyMatches`, `ProxyPoolQuiet`: its consequences. The run
  `proxy_stale_reply` shows that with exhaust queries they fail.
- `ProxyOrderKept`, without exhaust queries: mongod serves a client's requests
  in the order they were read. Nothing in `doLoop` numbers them, so this is an
  argument about connections: `OrderInv` says that what a session has sent and
  mongod has not served is on one connection, in order, before anything the
  session is about to send. The step to look at is the one that gives the
  connection back. It follows a reply, and mongod serves a connection in order,
  so nothing of the session is left on it (`OrderReply`, from `ReplyInv`); after
  a request without reply the connection is kept (`OrderSend`). A session that ends with an error may leave requests
  behind, but sends no more. The steps are in `ProxyOrderProofs`.
- `AnswersImplementProxy`: a behaviour of ProxyAnswers is one of Proxy, so all
  of the above holds of it.
- `AnswersInvariant`, without exhaust queries: `AnswersInv` is an invariant
  (`ProxyAnswersProofs`). `AnsweredInFull` speaks of the moment at which the
  next request is read. `Dialogue` says what makes it true then: while the
  session handles a request, the client has been told nothing, and the request
  that the interceptor made of it has a reply exactly if the client's has one.
  That a forwarded reply is in response to the client's request rests on
  `ReplyInv`.
- `ClientsAnsweredInKind`, `ClientsAnsweredInFull`: its consequences. That exhaust queries are followed to the end is left to the run
  `proxy_answers`.

`FramingProofs` proves, for all streams of messages of any sizes, every window
and all intervals (`FramingAssumption`):

- `FramingInvariant`: `FramingInv` is an invariant. `ReaderInStep` and
  `ReadsWhatWasSent` see only what the reader has; that it stays in step depends
  on what is still to come. `FramingInv` looks at the bytes in the socket
  followed by the next byte that `sendBytes` will write (`Unread`): they are
  contiguous, from each byte to the next one of its message or the first of the
  following one, and while the reader is open they begin with the byte it needs.
  A time-out of `Write` keeps this because it goes on after the bytes written; an
  error of `ReadMessage` leaves bytes behind, but closes the reader.
- `FramingTypeCorrect`, `ReadMessageReturnsWhatWasSent`,
  `SizeReadAtMessageStart`: its consequences.
- `FramingImplementsChannel`: each round is a step of MessageChannel or leaves
  it unchanged. The message that `sendBytes` is writing counts as sent with its
  last byte, so a round of `ReadMessage` that returns a message must come after
  that one. `FramingInv` does not say so; `Written` adds that a byte in the
  socket was written before the byte `sendBytes` is at, and a reader that takes
  the last byte of a message takes it from the socket (`DeliverStep`).

`WireProofs` proves, for every set of op codes among the ten, all widths of
strings and documents, and lists and sections of any number (`WireAssumption`,
`OpsAssumption`):

- `WireInvariant`: `WireInv` is an invariant. `RoundTrip` compares a buffer that
  has been written with a body that has been parsed, so it rests on everything
  before. While the peer composes, `WireInv` says how the tokens follow the
  format (`Composing`: each item in its place, a sequence's declared size
  leading to the next section). While the codec parses, it says that the
  fields so far are the tokens so far (`Parsed`) and that the parser stands
  where the format says, which for OP_MSG means between two sections or inside
  the run of documents that `left` spans (`InParser`). The clause that links the
  two halves of a serializer is about sizes: the position of the parser is the
  constant part of the size so far plus what each token has beyond it
  (`FixedBefore`, `Varying`), and at the end that sum is `SerializedSize`. While
  the codec writes, every byte before `loc` is where it came from, and the size
  of a document sequence, added up again by `Size`, is the one that was read
  (`InSerializer`). There is one lemma per action.
- `AcceptsWholeHolds`, `NothingDroppedHolds`: its consequences. What may be left
  out of a message is only what is shorter than the five bytes that
  `parseMessageMessage` asks for, at the place of a section or of the checksum
  (`LeftOut`); a section that arrived whole has more (`SectionWidth`).
- `RoundTripHolds`, `NoOverrunHolds`, if documents of size 0 do not come in
  OP_REPLY (`RepliesHaveSizes`), whose `Serialize` alone moves on by
  `len(d.BSON)`: with two documents after one of size 0 it slices beyond its
  buffer.

That the tables of the parsers and serializers fit the format is the lemma
`PlainTables`, shown for each op code. What is said of running sums is shown by
induction over positions, in the form "a set of numbers that has 0 and the
successor of each of its members has them all" (`UpTo`), which comes from the
library's theorem that < is well-founded. WireInv was checked with TLC before it
was proved, on the instance of the run `wire` with documents of one width.

Only model-checked, because the prover cannot do them:

- all liveness (`GetTerminates`, `RequestFinishes`, `CloseTerminates`,
  `EveryClientServed`, `AcceptorEnds`, `MessageArrives`, `SendReturns`, the
  fairness in ServerLife);
- BsonWalk (`WalkMatches`, `WalkAllMatches`), which is recursive over documents:
  what a RECURSIVE operator computes for every input is out of reach.

Every other property of the runs that pass is the statement of a theorem.

## Not modelled

- `namespace.go`, functions of one string without state or loop; the `GetAs`
  accessors and conversions of `bsonutil.go`, one type switch or driver call
  each; `config.go`, `util.go` and the example programs, which have no state.
- The documents that `RespondToCommandMakeBSON` and `MongoError` build, `Stats`,
  and `respondWithError` of `proxy.go`, which nothing calls.
- Byte order and the 16 bytes of the message header in the codec; an op code or
  an OP_MSG section kind that the protocol does not have, which is an error
  return (`sock.go:91`, `wire_message.go:118`).
- The exit of `ReadMessage`'s loop when a Read returns no byte and no error
  (`sock.go:54`): a `net.Conn` does not.
- Documents of size 0 in OP_REPLY: the module has them, but the run `wire` leaves
  them out, for the reason given with `RepliesHaveSizes`.
- The wrap of `header.Size-4` in int32 at `sock.go:45`: sizes are natural
  numbers.
- A second call of `Close`, which closes a closed channel.
- Logging, wording and stack traces.

Limits of what is stated: `WalkMatches` is premised on `Regular`; `NothingDropped`
lets a body that is cut within the first four bytes of a section lose them,
because the parser does; `AnsweredInFull` leaves out moreToCome messages
(one that is refused is answered although nobody waits); `CloseTerminates` is
premised on a server without TLS whose Accept does not fail; `MessageArrives`
and `SendReturns` leave out an interval that became 0 after its deadline was
set, which no later round clears.

## Plan

1. An abstract proxy (every request answered at most once, by its own reply)
   that ProxyAnswers implements without exhaust queries.
2. `AnsweredInFull` for sessions with exhaust queries: `ReplyInv` would have to
   say which batches are under way, and to except connections given back in the
   middle of one.
