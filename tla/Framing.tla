------------------------------ MODULE Framing -------------------------------
(***************************************************************************)
(* sock.go over connchecker.go: messages sent with sendBytes and read with *)
(* ReadMessage, both through a CheckedConn, in one direction of a socket.   *)
(*                                                                         *)
(* A byte is the pair of its message and its offset in it, so that the     *)
(* reader's buffer shows whether it is in step with the sender.  One step  *)
(* is one round of the loop of CheckedConn.Write or CheckedConn.Read.       *)
(***************************************************************************)
EXTENDS Integers, Sequences

CONSTANTS
  Streams,   \* the messages a sender may send: sequences of header.Size
  Window,    \* bytes the socket holds
  TlsModes,  \* whether the connection under the CheckedConn is a tls.Conn
  Intervals, \* values of CheckConnectionInterval(), 0 to not check
  Faults     \* checks and connections may fail

ASSUME FramingAssumption ==
  /\ \A s \in Streams : s \in Seq(Nat)
  /\ Window \in Nat \ {0}
  /\ Intervals \subseteq Nat
  /\ TlsModes \subseteq BOOLEAN
  /\ Faults \in BOOLEAN

VARIABLES
  sizes,      \* the messages of this behaviour
  tls,        \* the kind of its connection
  interval,   \* what CheckConnectionInterval() returns now
  wmsg,       \* messages sent
  wn,         \* bytes of the next message that are written
  wstate,     \* "open" or "closed": the sender's end
  wdeadline,  \* the write deadline: "none", "set" or "past"
  inflight,   \* bytes written and not read
  got,        \* bytes of the current message that are read
  rstate,     \* "open" or "closed": the reader's end
  rdeadline,  \* the read deadline
  delivered   \* messages that ReadMessage returned

vars == <<sizes, tls, interval, wmsg, wn, wstate, wdeadline, inflight, got,
          rstate, rdeadline, delivered>>

MaxSize == 200 * 1024 * 1024

(* A header that promises less than its own four bytes still has them. *)
Length(m) == IF sizes[m] < 4 THEN 4 ELSE sizes[m]

Bytes(m) == [i \in 1..Length(m) |-> <<m, i>>]

Deadlines == {"none", "set", "past"}

TypeOK ==
  /\ sizes \in Streams
  /\ tls \in TlsModes
  /\ interval \in Intervals
  /\ wmsg \in 0..Len(sizes)
  /\ wn \in Nat
  /\ wmsg < Len(sizes) => wn < Length(wmsg + 1)
  /\ {wstate, rstate} \subseteq {"open", "closed"}
  /\ {wdeadline, rdeadline} \subseteq Deadlines
  /\ Len(inflight) <= Window
  /\ Len(delivered) <= Len(sizes)

Init ==
  /\ sizes \in Streams
  /\ tls \in TlsModes
  /\ interval \in Intervals
  /\ wmsg = 0
  /\ wn = 0
  /\ wstate = "open"
  /\ wdeadline = "none"
  /\ inflight = <<>>
  /\ got = <<>>
  /\ rstate = "open"
  /\ rdeadline = "none"
  /\ delivered = <<>>

-----------------------------------------------------------------------------
(* The deadline of a round, after the check of the connection: an interval  *)
(* of 0 sets none and leaves the one that is there.                         *)
Armed(deadline) == IF interval > 0 THEN "set" ELSE deadline

readVars == <<got, rstate, rdeadline, delivered>>

writeVars == <<wmsg, wn, wstate, wdeadline>>

-----------------------------------------------------------------------------
(* sendBytes and CheckedConn.Write *)

Sending == wstate = "open" /\ wmsg < Len(sizes)

Message == Bytes(wmsg + 1)

(* The connection takes d more bytes, from where the last round stopped. *)
Emit(d) ==
  /\ Len(inflight) + d <= Window
  /\ wn + d <= Len(Message)
  /\ inflight' = inflight \o SubSeq(Message, wn + 1, wn + d)

(* Faulty variant: the next message starts where the last one ended. *)
WriteOkKeeps ==
  /\ Sending
  /\ Armed(wdeadline) # "past"
  /\ wdeadline' = Armed(wdeadline)
  /\ \E d \in 1..Window :
       /\ Emit(d)
       /\ wmsg' = IF wn + d = Len(Message) THEN wmsg + 1 ELSE wmsg
       /\ wn' = wn + d
  /\ UNCHANGED <<sizes, tls, interval, wstate, readVars>>

(* Faulty variant: sendBytes compares what the last Write took with the     *)
(* length of the whole message, not of the rest of it.                      *)
WriteOkInOne ==
  /\ Sending
  /\ Armed(wdeadline) # "past"
  /\ wdeadline' = Armed(wdeadline)
  /\ \E d \in 1..Window :
       /\ Emit(d)
       /\ wmsg' = IF d = Len(Message) THEN wmsg + 1 ELSE wmsg
       /\ wn' = IF d = Len(Message) THEN 0 ELSE wn + d
  /\ UNCHANGED <<sizes, tls, interval, wstate, readVars>>

(* Write returns without an error; sendBytes goes on if bytes are left. *)
WriteOk ==
  /\ Sending
  /\ Armed(wdeadline) # "past"
  /\ wdeadline' = Armed(wdeadline)
  /\ \E d \in 1..Window :
       /\ Emit(d)
       /\ wmsg' = IF wn + d = Len(Message) THEN wmsg + 1 ELSE wmsg
       /\ wn' = IF wn + d = Len(Message) THEN 0 ELSE wn + d
  /\ UNCHANGED <<sizes, tls, interval, wstate, readVars>>

(* Faulty variant: the next round starts from the beginning of b. *)
WriteTimeoutRestarts ==
  /\ Sending
  /\ Armed(wdeadline) # "none"
  /\ wdeadline' = "past"
  /\ \E d \in 0..Window :
       /\ wn + d < Len(Message)
       /\ Emit(d)
       /\ UNCHANGED wn
       /\ wstate' = IF tls THEN "closed" ELSE "open"
  /\ UNCHANGED <<sizes, tls, interval, wmsg, readVars>>

(* The deadline passes after d bytes: the next round goes on from there, but *)
(* on a tls.Conn Write returns the error and the session ends.              *)
WriteTimeout ==
  /\ Sending
  /\ Armed(wdeadline) # "none"
  /\ wdeadline' = "past"
  /\ \E d \in 0..Window :
       /\ Armed(wdeadline) = "past" => d = 0
       /\ wn + d < Len(Message)
       /\ Emit(d)
       /\ wn' = wn + d
       /\ wstate' = IF tls THEN "closed" ELSE "open"
  /\ UNCHANGED <<sizes, tls, interval, wmsg, readVars>>

(* The check or the connection fails: sendBytes returns the error. *)
WriteFails ==
  /\ Sending
  /\ Faults \/ rstate = "closed"
  /\ wstate' = "closed"
  /\ \E d \in 0..Window :
       /\ wn + d < Len(Message)
       /\ Emit(d)
       /\ wn' = wn + d
  /\ UNCHANGED <<sizes, tls, interval, wmsg, wdeadline, readVars>>

(* The sender has nothing more to send. *)
SenderLeaves ==
  /\ wstate = "open"
  /\ wmsg = Len(sizes)
  /\ wstate' = "closed"
  /\ UNCHANGED <<sizes, tls, interval, wmsg, wn, wdeadline, inflight, readVars>>

-----------------------------------------------------------------------------
(* ReadMessage and CheckedConn.Read *)

Reading == rstate = "open"

(* readInt32 of the size: what the sender wrote, if the reader is in step. *)
HeaderSize(bytes) == sizes[bytes[1][1]]

InStep(bytes) == bytes[1][2] = 1

(* What ReadMessage has left to read: the size, or the rest of the message. *)
Wanted == IF got = <<>> THEN 4 ELSE HeaderSize(got) - Len(got)

ReadFailed ==
  /\ rstate' = "closed"
  /\ UNCHANGED <<got, delivered>>

Invalid(size) == size > MaxSize \/ size - 4 < 0

(* The first read of a message: anything but four bytes is an error, and so *)
(* is a size out of bounds.  A size of 4 leaves no rest to read, and no     *)
(* header: it is refused here, too.                                         *)
GotSize(bytes) ==
  IF Len(bytes) # 4 \/ Invalid(HeaderSize(bytes)) \/ HeaderSize(bytes) = 4 THEN ReadFailed
  ELSE got' = bytes /\ UNCHANGED <<rstate, delivered>>

(* Faulty variant: the loop stops one byte early. *)
GotRestEarly(bytes) ==
  LET all == got \o bytes
  IN IF Len(all) < HeaderSize(all) - 1
     THEN got' = all /\ UNCHANGED <<rstate, delivered>>
     ELSE /\ got' = <<>>
          /\ delivered' = Append(delivered, all)
          /\ UNCHANGED rstate

(* Faulty variant: the loop asks for one byte more. *)
GotRestLate(bytes) ==
  /\ got' = got \o bytes
  /\ UNCHANGED <<rstate, delivered>>

(* A read of the loop over the rest; a message without a whole header is    *)
(* refused when all of it is there, any other is parsed and returned.  A    *)
(* Read of a net.Conn into a buffer that is not empty gives a byte or an    *)
(* error, so the loop's exit on n == 0 is not taken.                        *)
GotRest(bytes) ==
  LET all == got \o bytes
  IN IF Len(all) < HeaderSize(all)
     THEN got' = all /\ UNCHANGED <<rstate, delivered>>
     ELSE IF Len(all) - 4 < 12 THEN ReadFailed
     ELSE /\ got' = <<>>
          /\ delivered' = Append(delivered, all)
          /\ UNCHANGED rstate

(* Read returns between 1 and the wanted number of bytes. *)
ReadData ==
  /\ Reading
  /\ Armed(rdeadline) # "past"
  /\ rdeadline' = Armed(rdeadline)
  /\ \E n \in 1..Len(inflight) :
       /\ n <= Wanted
       /\ inflight' = SubSeq(inflight, n + 1, Len(inflight))
       /\ LET bytes == SubSeq(inflight, 1, n)
          IN IF got = <<>> THEN GotSize(bytes) ELSE GotRest(bytes)
  /\ UNCHANGED <<sizes, tls, interval, writeVars>>

(* The deadline passes: the loop goes round again, but on a tls.Conn Read   *)
(* returns the error and the session ends.                                  *)
ReadTimeout ==
  /\ Reading
  /\ Armed(rdeadline) # "none"
  /\ rdeadline' = "past"
  /\ rstate' = IF tls THEN "closed" ELSE "open"
  /\ UNCHANGED <<sizes, tls, interval, inflight, got, delivered, writeVars>>

(* The end of the stream, a failed check or a failed connection. *)
ReadFails ==
  /\ Reading
  /\ Faults \/ (wstate = "closed" /\ inflight = <<>>)
  /\ ReadFailed
  /\ UNCHANGED <<sizes, tls, interval, inflight, rdeadline, writeVars>>

(* The checker is asked in every round and may change its mind. *)
ChangeInterval ==
  /\ interval' \in Intervals \ {interval}
  /\ UNCHANGED <<sizes, tls, inflight, readVars, writeVars>>

Next ==
  \/ WriteOk \/ WriteTimeout \/ WriteFails \/ SenderLeaves
  \/ ReadData \/ ReadTimeout \/ ReadFails \/ ChangeInterval

Spec == Init /\ [][Next]_vars

(* The sender's own loop, and what it needs of the socket under it: a socket *)
(* with room for more does not time out every time before it takes a byte,  *)
(* and each end notices that the other has closed.  Nothing is assumed of   *)
(* the reader, who may leave the bytes in the socket for ever.              *)
Fairness ==
  /\ SF_vars(WriteOk)
  /\ WF_vars(WriteFails /\ rstate = "closed")
  /\ WF_vars(ReadFails /\ wstate = "closed")

FairSpec == Spec /\ Fairness

-----------------------------------------------------------------------------
(* Properties *)

(* However the socket splits the bytes and whenever rounds time out, the    *)
(* messages that ReadMessage returns are the ones that were sent, each      *)
(* whole, in order and once.                                                *)
ReadsWhatWasSent ==
  \A m \in DOMAIN delivered : delivered[m] = Bytes(m)

(* The reader never takes bytes from inside a message for a size. *)
ReaderInStep == got # <<>> => InStep(got)

(* The stream from the byte that is read next to the one written next. *)
Unread == Append(inflight, <<wmsg + 1, wn + 1>>)

(* A byte is followed by the rest of its message, and that by the start of  *)
(* the next one.                                                            *)
Contiguous(s) ==
  \A i, j \in DOMAIN s :
    LET m == s[i][1]
        o == s[i][2] + (j - i)
    IN /\ i < j /\ o <= Length(m) => s[j] = <<m, o>>
       /\ i < j /\ o = Length(m) + 1 => s[j] = <<m + 1, 1>>

(* What the reader has of a message is its beginning. *)
Begun ==
  got # <<>> =>
    /\ Len(delivered) < Len(sizes)
    /\ Len(got) \in 4..(sizes[Len(delivered) + 1] - 1)
    /\ \A i \in 1..Len(got) : got[i] = <<Len(delivered) + 1, i>>

(* The bytes between sender and reader are the part of the stream that the  *)
(* one has written and the other has yet to read: the next byte of the      *)
(* socket is the next byte of the message that ReadMessage is reading.      *)
FramingInv ==
  /\ TypeOK
  /\ wmsg = Len(sizes) => wn = 0
  /\ inflight \in Seq(Nat \X Nat)
  /\ got \in Seq(Nat \X Nat)
  /\ delivered \in Seq(Seq(Nat \X Nat))
  /\ \A i \in 1..Len(inflight) : /\ inflight[i][1] \in 1..Len(sizes)
                                 /\ inflight[i][2] \in 1..Length(inflight[i][1])
  /\ Contiguous(Unread)
  /\ rstate = "open" => Unread[1] = <<Len(delivered) + 1, Len(got) + 1>>
  /\ Begun
  /\ ReadsWhatWasSent

Channel == INSTANCE MessageChannel WITH
  toSend <- [m \in 1..Len(sizes) |-> Bytes(m)],
  sent <- wmsg,
  received <- delivered,
  sender <- wstate,
  reader <- rstate

(* sendBytes, ReadMessage and the rounds of CheckedConn under them are a    *)
(* channel of messages: ReadMessage returns the next message whole, and     *)
(* only when sendBytes has written all of it, and an end that has failed    *)
(* sends or returns nothing more.                                           *)
RefinesChannel == Channel!ChannelSpec

(* An interval that became 0 leaves a deadline that has passed in place, and *)
(* every round times out until the interval is positive again.              *)
Stuck(deadline) == interval = 0 /\ deadline = "past"

(* The reader goes on calling ReadMessage until it closes, and a socket that *)
(* holds bytes does not time out every time before it gives one.            *)
KeepsReading == SF_vars(ReadData)

(* If the reader keeps reading, a message that was sent entirely is         *)
(* delivered, or the session has ended: the time-outs of CheckedConn.Read   *)
(* delay a message and do not lose it, unless the checks are turned off     *)
(* just after one.                                                          *)
MessageArrives ==
  KeepsReading =>
    \A m \in UNION {DOMAIN s : s \in Streams} :
      wmsg >= m ~> (Len(delivered) >= m \/ rstate = "closed" \/ Stuck(rdeadline))

(* If the reader keeps reading or closes, the calls of sendBytes return: no *)
(* time-out and no partial Write leaves the sender in its loop.  Against a  *)
(* reader that does neither, sendBytes has no limit of its own.             *)
SendReturns ==
  KeepsReading => Sending ~> (~Sending \/ Stuck(wdeadline) \/ Stuck(rdeadline))
=============================================================================
