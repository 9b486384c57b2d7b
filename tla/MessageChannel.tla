--------------------------- MODULE MessageChannel ---------------------------
(***************************************************************************)
(* What one direction of a MongoSocket promises: the messages that go in   *)
(* at one end come out at the other, each whole, in order and once, none   *)
(* before all of it was sent, until one of the ends stops.                 *)
(***************************************************************************)
EXTENDS Naturals, Sequences

VARIABLES
  toSend,    \* the messages to send
  sent,      \* how many of them are sent
  received,  \* the messages received
  sender,    \* "open" or "closed"
  reader     \* "open" or "closed"

channelVars == <<toSend, sent, received, sender, reader>>

ChannelInit ==
  /\ sent = 0
  /\ received = <<>>
  /\ sender = "open"
  /\ reader = "open"

SendMessage ==
  /\ sender = "open"
  /\ sent < Len(toSend)
  /\ sent' = sent + 1
  /\ UNCHANGED <<toSend, received, sender, reader>>

ReceiveMessage ==
  /\ reader = "open"
  /\ Len(received) < sent
  /\ received' = Append(received, toSend[Len(received) + 1])
  /\ UNCHANGED <<toSend, sent, sender, reader>>

SenderStops ==
  /\ sender = "open"
  /\ sender' = "closed"
  /\ UNCHANGED <<toSend, sent, received, reader>>

ReaderStops ==
  /\ reader = "open"
  /\ reader' = "closed"
  /\ UNCHANGED <<toSend, sent, received, sender>>

ChannelNext == SendMessage \/ ReceiveMessage \/ SenderStops \/ ReaderStops

ChannelSpec == ChannelInit /\ [][ChannelNext]_channelVars
=============================================================================
