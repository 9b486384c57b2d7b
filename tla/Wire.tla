-------------------------------- MODULE Wire --------------------------------
(***************************************************************************)
(* The parsers and serializers of the wire_*.go files: what the proxy reads *)
(* from one side it parses, and serializes again for the other side.       *)
(*                                                                         *)
(* The body of a message is a sequence of tokens, each with its width in   *)
(* bytes.  The content of a byte is its position in the body, so that the  *)
(* serialized buffer shows where each of its bytes comes from.  A body may *)
(* end early (length): the size in the header is the sender's word.        *)
(***************************************************************************)
EXTENDS Integers, Sequences, FiniteSets

CONSTANTS
  Ops,          \* the op codes that are sent
  ShortcutOps,  \* those whose documents may have the size 0
  StringWidths, \* widths of C strings, terminator included
  DocWidths,    \* sizes of documents
  MaxDocs,      \* most documents in a list
  MaxSections   \* most sections in an OP_MSG

ASSUME WireAssumption ==
  /\ ShortcutOps \subseteq Ops
  /\ StringWidths \subseteq Nat \ {0}
  /\ DocWidths \subseteq Nat \ 0..4
  /\ MaxDocs \in Nat
  /\ MaxSections \in Nat

VARIABLES
  op,      \* header.OpCode
  wire,    \* the tokens of the body
  length,  \* len(buf): the bytes of the body that are there
  pc,      \* "compose", "parse", "write", "sent", "refused", "misread", "panic"
  k,       \* the next item of the format, the parser or the serializer
  tok,     \* tokens parsed
  loc,     \* loc, of the parser and then of the serializer
  left,    \* expectedSizeRemaining
  fields,  \* the parsed message
  buf      \* the serialized body

vars == <<op, wire, length, pc, k, tok, loc, left, fields, buf>>

-----------------------------------------------------------------------------
(* The parsers: the items each one reads.  "doc?" is read if bytes are left, *)
(* "docs" until none are, "sections" while at least five are.               *)

parseReplyMessage == <<"int32", "int64", "int32", "int32", "docs">>

parseUpdateMessage == <<"int32", "cstring", "int32", "doc", "doc">>

parseInsertMessage == <<"int32", "cstring", "docs">>

(* Faulty variant: the projection is not optional. *)
parseQueryProjecting == <<"int32", "cstring", "int32", "int32", "doc", "doc">>

parseQueryMessage == <<"int32", "cstring", "int32", "int32", "doc", "doc?">>

parseGetMoreMessage == <<"int32", "cstring", "int32", "int64">>

(* Faulty variant: the filter is not read. *)
parseDeleteShort == <<"int32", "cstring", "int32">>

parseDeleteMessage == <<"int32", "cstring", "int32", "doc">>

parseKillCursorsMessage == <<"int32", "cursors">>

parseCommandMessage == <<"cstring", "cstring", "doc", "doc", "docs">>

parseCommandReplyMessage == <<"doc", "doc", "docs">>

parseMessageMessage == <<"int32", "sections">>

(* The switch of ReadMessage. *)
parser ==
  [OP_REPLY |-> parseReplyMessage, OP_UPDATE |-> parseUpdateMessage,
   OP_INSERT |-> parseInsertMessage, OP_QUERY |-> parseQueryMessage,
   OP_GET_MORE |-> parseGetMoreMessage, OP_DELETE |-> parseDeleteMessage,
   OP_KILL_CURSORS |-> parseKillCursorsMessage, OP_COMMAND |-> parseCommandMessage,
   OP_COMMAND_REPLY |-> parseCommandReplyMessage, OP_MSG |-> parseMessageMessage]

ASSUME OpsAssumption == Ops \subseteq DOMAIN parser

(* The serializers: the bytes of the size that depend on no field, and how  *)
(* each parsed item is written.  "zero" writes 0 for the reserved field;    *)
(* "flags" clears the checksumPresent bit; "copy" is SimpleBSON.Copy, which *)
(* moves by Size; "copyBytes" moves by the bytes it was given.              *)

ReplySerialize == [fixed |-> 20, write |-> <<"int", "int", "int", "int", "copyBytes">>]

(* Faulty variant: the flags are not counted in the size. *)
UpdateSerializeShort == [fixed |-> 4, write |-> <<"zero", "cstring", "int", "copy", "copy">>]

UpdateSerialize == [fixed |-> 8, write |-> <<"zero", "cstring", "int", "copy", "copy">>]

InsertSerialize == [fixed |-> 4, write |-> <<"int", "cstring", "copy">>]

QuerySerialize == [fixed |-> 12, write |-> <<"int", "cstring", "int", "int", "copy", "copy">>]

(* Faulty variant: the cursor id is counted as an int32. *)
GetMoreSerializeShort == [fixed |-> 12, write |-> <<"zero", "cstring", "int", "int">>]

GetMoreSerialize == [fixed |-> 16, write |-> <<"zero", "cstring", "int", "int">>]

DeleteSerialize == [fixed |-> 8, write |-> <<"zero", "cstring", "int", "copy">>]

KillCursorsSerialize == [fixed |-> 8, write |-> <<"zero", "int">>]

CommandSerialize == [fixed |-> 0, write |-> <<"cstring", "cstring", "copy", "copy", "copy">>]

CommandReplySerialize == [fixed |-> 0, write |-> <<"copy", "copy", "copy">>]

MessageSerialize == [fixed |-> 4, write |-> <<"flags", "section">>]

Serialize ==
  [OP_REPLY |-> ReplySerialize, OP_UPDATE |-> UpdateSerialize,
   OP_INSERT |-> InsertSerialize, OP_QUERY |-> QuerySerialize,
   OP_GET_MORE |-> GetMoreSerialize, OP_DELETE |-> DeleteSerialize,
   OP_KILL_CURSORS |-> KillCursorsSerialize, OP_COMMAND |-> CommandSerialize,
   OP_COMMAND_REPLY |-> CommandReplySerialize, OP_MSG |-> MessageSerialize]

-----------------------------------------------------------------------------
(* The wire protocol: what a peer sends. *)

Format ==
  [OP_REPLY |-> <<"int32", "int64", "int32", "int32", "docs">>,
   OP_UPDATE |-> <<"reserved", "cstring", "int32", "doc", "doc">>,
   OP_INSERT |-> <<"int32", "cstring", "docs">>,
   OP_QUERY |-> <<"int32", "cstring", "int32", "int32", "doc", "doc?">>,
   OP_GET_MORE |-> <<"reserved", "cstring", "int32", "int64">>,
   OP_DELETE |-> <<"reserved", "cstring", "int32", "doc">>,
   OP_KILL_CURSORS |-> <<"reserved", "cursors">>,
   OP_COMMAND |-> <<"cstring", "cstring", "doc", "doc", "docs">>,
   OP_COMMAND_REPLY |-> <<"doc", "doc", "docs">>,
   OP_MSG |-> <<"int32", "sections", "checksum?">>]

Token(kind, width) == [kind |-> kind, width |-> width]

(* A document of size 0 occupies the four bytes of its size. *)
DocTokens ==
  {Token("doc", w) : w \in DocWidths}
    \cup (IF op \in ShortcutOps THEN {Token("shortcut", 4)} ELSE {})

DocLists == UNION {[1..n -> DocTokens] : n \in 0..MaxDocs}

(* The sums of the first 0, 1, ... numbers of a sequence. *)
Sums(ns) ==
  LET sum[i \in 0..Len(ns)] == IF i = 0 THEN 0 ELSE sum[i - 1] + ns[i]
  IN sum

Sum(ns) == Sums(ns)[Len(ns)]

(* Where each token of ts ends, and all of them. *)
Ends(ts) == Sums([i \in 1..Len(ts) |-> ts[i].width])

Width(ts) == Ends(ts)[Len(ts)]

(* "body" is the kind byte 0; "sequence" the kind byte 1 and the size, which *)
(* counts itself and what follows it.                                       *)
Sections ==
  {<<Token("body", 1), d>> : d \in DocTokens}
    \cup {<<[kind |-> "sequence", width |-> 5, size |-> 4 + w + Width(ds)],
            Token("cstring", w)>> \o ds :
            w \in StringWidths, ds \in DocLists}

Chunks(item) ==
  CASE item = "int32"     -> {<<Token("int32", 4)>>}
    [] item = "reserved"  -> {<<Token("int32", 4)>>}
    [] item = "int64"     -> {<<Token("int64", 8)>>}
    [] item = "cstring"   -> {<<Token("cstring", w)>> : w \in StringWidths}
    [] item = "doc"       -> {<<d>> : d \in DocTokens}
    [] item = "doc?"      -> {<<>>} \cup {<<d>> : d \in DocTokens}
    [] item = "docs"      -> DocLists
    [] item = "cursors"   -> {<<Token("cursors", 4 + 8 * n)>> : n \in 0..MaxDocs}
    [] item = "sections"  -> {<<>>}
    [] item = "checksum?" -> {<<>>, <<Token("checksum", 4)>>}

Init ==
  /\ op \in Ops
  /\ wire = <<>>
  /\ length = 0
  /\ pc = "compose"
  /\ k = 1
  /\ tok = 0
  /\ loc = 0
  /\ left = 0
  /\ fields = <<>>
  /\ buf = <<>>

Compose ==
  /\ pc = "compose"
  /\ k <= Len(Format[op])
  /\ \E chunk \in Chunks(Format[op][k]) : wire' = wire \o chunk
  /\ k' = k + 1
  /\ UNCHANGED <<op, length, pc, tok, loc, left, fields, buf>>

(* The sections of OP_MSG, one by one, before Compose goes on. *)
ComposeSection ==
  /\ pc = "compose"
  /\ k <= Len(Format[op])
  /\ Format[op][k] = "sections"
  /\ Cardinality({i \in DOMAIN wire : wire[i].kind \in {"body", "sequence"}}) < MaxSections
  /\ \E section \in Sections : wire' = wire \o section
  /\ UNCHANGED <<op, length, pc, k, tok, loc, left, fields, buf>>

Send ==
  /\ pc = "compose"
  /\ k > Len(Format[op])
  /\ \E n \in 0..Width(wire) : length' = n
  /\ pc' = "parse"
  /\ k' = 1
  /\ UNCHANGED <<op, wire, tok, loc, left, fields, buf>>

-----------------------------------------------------------------------------
(* Parsing *)

Remaining == length - loc

Item == parser[op][k]

NextTok == wire[tok + 1]

Parsing == pc = "parse" /\ k <= Len(parser[op])

(* What a token becomes: its place in the body, the bytes that are kept of  *)
(* it and the size it has for the serializer.  Of a document of size 0,     *)
(* parseSimpleBSON keeps everything up to the end of the body.              *)
Field(t, at) ==
  [item |-> k, kind |-> t.kind, from |-> at, size |-> t.width,
   bytes |-> IF t.kind = "shortcut" THEN length - at ELSE t.width]

Whole(t) == t.width <= Remaining

KindOf(t) == IF t.kind = "shortcut" THEN "doc" ELSE t.kind

Take(ts) ==
  /\ fields' = fields \o [i \in DOMAIN ts |-> Field(ts[i], loc + Ends(ts)[i - 1])]
  /\ loc' = loc + Width(ts)
  /\ tok' = tok + Len(ts)
  /\ UNCHANGED <<op, wire, length, pc, buf>>

Refuse ==
  /\ pc' = "refused"
  /\ UNCHANGED <<op, wire, length, k, tok, loc, left, fields, buf>>

(* An int32, an int64, a C string, a document or the cursors of              *)
(* OP_KILL_CURSORS, which must be there entirely.                           *)
ParseOne ==
  /\ Parsing
  /\ \/ Item \in {"int32", "int64", "cstring", "doc", "cursors"}
     \/ Item = "doc?" /\ Remaining > 0
  /\ IF Remaining = 0 \/ ~Whole(NextTok) THEN Refuse
     ELSE IF KindOf(NextTok) # (IF Item = "doc?" THEN "doc" ELSE Item)
     THEN pc' = "misread" /\ UNCHANGED <<op, wire, length, k, tok, loc, left, fields, buf>>
     ELSE Take(<<NextTok>>) /\ k' = k + 1 /\ UNCHANGED left

(* One round of the loop over the documents at the end of a message. *)
ParseDoc ==
  /\ Parsing
  /\ Item = "docs"
  /\ Remaining > 0
  /\ IF ~Whole(NextTok) THEN Refuse
     ELSE Take(<<NextTok>>) /\ UNCHANGED <<k, left>>

(* A list, or the optional projection, ends where the body does. *)
ParseEnds ==
  /\ Parsing
  /\ Item \in {"docs", "doc?"}
  /\ Remaining = 0
  /\ k' = k + 1
  /\ UNCHANGED <<op, wire, length, pc, tok, loc, left, fields, buf>>

InSections == Parsing /\ Item = "sections"

parseBodySection ==
  /\ InSections
  /\ left = 0
  /\ Remaining >= 5
  /\ NextTok.kind = "body"
  /\ LET ts == SubSeq(wire, tok + 1, tok + 2)
     IN IF Width(ts) > Remaining THEN Refuse
        ELSE Take(ts) /\ UNCHANGED <<k, left>>

(* The kind byte, the size and the identifier of a document sequence. *)
parseSequenceHead ==
  /\ InSections
  /\ left = 0
  /\ Remaining >= 5
  /\ NextTok.kind = "sequence"
  /\ LET ts == SubSeq(wire, tok + 1, tok + 2)
     IN IF NextTok.size > Remaining - 1 THEN Refuse
        ELSE /\ Take(ts)
             /\ left' = NextTok.size - 4 - ts[2].width
             /\ UNCHANGED k

parseSequenceDoc ==
  /\ InSections
  /\ left > 0
  /\ IF ~Whole(NextTok) \/ left < NextTok.width THEN Refuse
     ELSE /\ Take(<<NextTok>>)
          /\ left' = left - NextTok.width
          /\ UNCHANGED k

(* Fewer than five bytes are left: they are taken for a checksum. *)
ParseSectionsEnd ==
  /\ InSections
  /\ left = 0
  /\ Remaining < 5
  /\ k' = k + 1
  /\ UNCHANGED <<op, wire, length, pc, tok, loc, left, fields, buf>>

(* The size of the message: the fixed part and the fields that vary. *)
VaryingSize(f) ==
  CASE f.kind \in {"int32", "int64"} -> 0
    [] f.kind = "cursors"            -> f.size - 4
    [] OTHER                         -> f.size

SerializedSize ==
  Serialize[op].fixed + Sum([i \in 1..Len(fields) |-> VaryingSize(fields[i])])

Unwritten == -1

Allocate ==
  /\ pc = "parse"
  /\ k > Len(parser[op])
  /\ pc' = "write"
  /\ k' = 1
  /\ tok' = 0
  /\ loc' = 0
  /\ buf' = [i \in 1..SerializedSize |-> Unwritten]
  /\ UNCHANGED <<op, wire, length, left, fields>>

-----------------------------------------------------------------------------
(* Serializing *)

Least(S) == CHOOSE n \in S : \A m \in S : n <= m

(* The size of document sequence i, as DocumentSequenceSection.Size adds it  *)
(* up: the fields from it up to the next section.                           *)
SequenceSize(i) ==
  LET Heads == {j \in i+1..Len(fields) : fields[j].kind \in {"body", "sequence"}}
      end   == Least(Heads \cup {Len(fields) + 1})
  IN Sum([j \in 1..end-i |-> fields[i + j - 1].size])

(* Byte 1 of the body without its lowest bit: flags &^= 1. *)
ChecksumCleared == -2

(* The bytes a field writes, as positions of the body; 0 is the byte 0. *)
Bytes(i) ==
  LET f == fields[i]
      w == Serialize[op].write[f.item]
  IN CASE w = "zero" -> [j \in 1..4 |-> 0]
       [] w = "flags" -> [j \in 1..4 |-> IF j = 1 THEN ChecksumCleared ELSE f.from + j]
       [] f.kind = "sequence" /\ SequenceSize(i) - 1 # wire[i].size
            -> [j \in 1..5 |-> Unwritten]
       [] OTHER -> [j \in 1..f.bytes |-> f.from + j]

(* copy stops at the end of the buffer; a store beyond it panics, and so    *)
(* does a copy that starts beyond it.                                       *)
IsCopy(f) == f.kind \in {"doc", "shortcut"}

Panics(f) ==
  IF IsCopy(f) THEN loc > Len(buf) ELSE loc + f.size > Len(buf)

Advance(f) ==
  IF Serialize[op].write[f.item] = "copyBytes" THEN f.bytes ELSE f.size

WriteField ==
  /\ pc = "write"
  /\ k <= Len(fields)
  /\ IF Panics(fields[k]) THEN pc' = "panic" /\ UNCHANGED <<k, loc, buf>>
     ELSE LET bs == Bytes(k)
          IN /\ buf' = [i \in DOMAIN buf |->
                          IF i - loc \in DOMAIN bs THEN bs[i - loc] ELSE buf[i]]
             /\ loc' = loc + Advance(fields[k])
             /\ k' = k + 1
             /\ UNCHANGED pc
  /\ UNCHANGED <<op, wire, length, tok, left, fields>>

Finish ==
  /\ pc = "write"
  /\ k > Len(fields)
  /\ pc' = "sent"
  /\ UNCHANGED <<op, wire, length, k, tok, loc, left, fields, buf>>

Next ==
  \/ Compose \/ ComposeSection \/ Send
  \/ ParseOne \/ ParseDoc \/ ParseEnds
  \/ parseBodySection \/ parseSequenceHead \/ parseSequenceDoc \/ ParseSectionsEnd
  \/ Allocate \/ WriteField \/ Finish

Spec == Init /\ [][Next]_vars

-----------------------------------------------------------------------------
(* Properties *)

(* Bytes of the body that the parsed message stands for. *)
Consumed == Ends(wire)[Len(fields)]

(* The reserved field, which the serializers set to 0, is the first int32 of *)
(* the messages that have one.                                              *)
Reserved(i) == Format[op][1] = "reserved" /\ i <= 4

(* What byte i of the body is sent on as. *)
SentAs(i) ==
  IF Reserved(i) THEN 0 ELSE IF op = "OP_MSG" /\ i = 1 THEN ChecksumCleared ELSE i

(* The peer's document lists, strings and numbers are read as what they     *)
(* are, and the message the proxy sends on has the bytes it received, in    *)
(* place: the size in the header is the size of what was written, and no    *)
(* byte is left unset, moved or taken from elsewhere.  Two fields are       *)
(* changed: a reserved one is set to 0, and the flags of an OP_MSG, which   *)
(* is sent without a checksum, no longer promise one.                       *)
RoundTrip ==
  /\ pc # "misread"
  /\ pc = "sent" => /\ Len(buf) = Consumed
                    /\ \A i \in DOMAIN buf : buf[i] = SentAs(i)

(* No serializer writes beyond the buffer it sized. *)
NoOverrun == pc # "panic"

(* Every message of the protocol is accepted if it arrives whole. *)
AcceptsWhole == length = Width(wire) => pc # "refused"

(* A message that is sent on has all that arrived, but for what is left of  *)
(* an OP_MSG when the loop of parseMessageMessage ends, which asks for five *)
(* bytes: the checksum, or, only in a body that is cut there, the beginning *)
(* of a section, which the loop does not tell from a checksum.  A body that *)
(* ends anywhere else in a field or a section is refused.                   *)
NothingDropped ==
  pc = "sent" /\ length # Consumed =>
    /\ op = "OP_MSG"
    /\ length - Consumed < 5
    /\ LET next == wire[Len(fields) + 1].kind
       IN \/ next = "checksum"
          \/ next \in {"body", "sequence"} /\ length < Width(wire)
=============================================================================
