------------------------------ MODULE BsonWalk ------------------------------
(***************************************************************************)
(* bsonutil.go: BSONWalk follows a path of keys into a document, through   *)
(* embedded documents and arrays, and BSONWalkAll looks for a key          *)
(* everywhere.  Both hand what they find to a visitor, which may change    *)
(* the value, ask for its deletion or fail.                                *)
(*                                                                         *)
(* A bson.D is a sequence of elements [key, val].  A value is a scalar, an *)
(* embedded document "D", a []bson.D "docs", or "arr", which stands for    *)
(* primitive.A and []interface{}.  The code changes documents in place;    *)
(* the operators return what the slices hold afterwards.  The operators    *)
(* are recursive as the code is, so that this module is for TLC alone.     *)
(***************************************************************************)
EXTENDS Integers, FiniteSets, SequencesExt

CONSTANTS
  Docs,   \* the documents that are walked
  Paths   \* the paths, as strings.Split returns them

VARIABLES
  call,   \* "BSONWalk" or "BSONWalkAll"
  doc,    \* the document passed
  path,   \* the path, or the one key of BSONWalkAll
  out     \* what the call returned

vars == <<call, doc, path, out>>

Doc(elems) == [t |-> "D", sub |-> elems]
NilDoc == [t |-> "nilD"]     \* a nil bson.D
Nil == [t |-> "nil"]         \* a nil interface{}
Cycle == [t |-> "cycle"]     \* a document that contains itself

Returns(d, visited) == [doc |-> d, err |-> "nil", seen |-> visited]
Fails(e, visited) == [doc |-> <<>>, err |-> e, seen |-> visited]

(* The visitor: it marks scalars, fails on one and asks to delete another,  *)
(* and leaves documents and arrays alone.                                   *)
Visit(v) ==
  CASE v.t = "del" -> [err |-> "delete", val |-> v]
    [] v.t = "bad" -> [err |-> "error", val |-> v]
    [] v.t = "keep" -> [err |-> "nil", val |-> [t |-> "seen"]]
    [] OTHER -> [err |-> "nil", val |-> v]

(* The first element with the key; 0 stands for -1. *)
BSONIndexOf(d, name) == SelectInSeq(d, LAMBDA elem : elem.key = name)

-----------------------------------------------------------------------------
(* BSONWalkHelp.  w holds its locals: the document, the path, the places in *)
(* the document of prev and current, docPath, whose length is pieceOffset,  *)
(* and inArray.                                                             *)

RECURSIVE DocAt(_, _)
DocAt(d, at) == IF at = <<>> THEN d ELSE DocAt(d[Head(at)].val.sub, Tail(at))

RECURSIVE PutAt(_, _, _)
PutAt(d, at, new) ==
  IF at = <<>> THEN new
  ELSE [d EXCEPT ![Head(at)].val.sub = PutAt(@, Tail(at), new)]

(* Faulty variant: prev stays behind at the document the walk began with. *)
DescendKeepsPrev(w, idx) ==
  [w EXCEPT !.at = Append(@, idx), !.docPath = Append(@, idx)]

Descend(w, idx) ==
  [w EXCEPT !.prev = w.at, !.at = Append(@, idx), !.docPath = Append(@, idx)]

(* DELETE_ME at the end of the path.  append(current[0:idx], ...) moves the *)
(* elements behind idx forward in the array that current shares; the value *)
(* at prev[docPath[len(docPath)-2]] becomes the shorter slice.              *)
DeleteMe(w, idx) ==
  LET current == DocAt(w.doc, w.at)
      fixed == RemoveAt(current, idx)
      moved == PutAt(w.doc, w.at, Append(fixed, Last(current)))
      prev == DocAt(moved, w.prev)
      holder == Last(w.docPath)
      visited == <<current[idx].val>>
  IN CASE w.inArray -> Fails("delete", visited)
       [] ~w.inArray /\ w.docPath = <<>> -> Returns(fixed, visited)
       [] OTHER ->
            IF holder > Len(prev) THEN Fails("panic", visited)
            ELSE LET value == IF w.prev = w.at /\ holder <= Len(fixed) THEN Cycle
                              ELSE Doc(fixed)
                 IN Returns(PutAt(moved, w.prev, [prev EXCEPT ![holder].val = value]),
                            visited)

(* The last piece of the path: the visitor sees the element. *)
VisitElem(w, idx) ==
  LET current == DocAt(w.doc, w.at)
      v == current[idx].val
      visit == Visit(v)
  IN CASE current[idx].key = "" -> Fails("panic", <<>>)
       [] visit.err = "delete" -> DeleteMe(w, idx)
       [] visit.err = "error" -> Fails("error", <<v>>)
       [] OTHER -> Returns(PutAt(w.doc, w.at, [current EXCEPT ![idx].val = visit.val]),
                           <<v>>)

(* newArr, made numDeleted shorter: a []bson.D keeps what is not nil, an    *)
(* []interface{} what is a document with elements.  Places that are not     *)
(* filled stay nil.                                                         *)
Compact(kind, items, numDeleted) ==
  LET drop == IF kind = "docs" THEN {NilDoc} ELSE {NilDoc, Nil, Doc(<<>>)}
      kept == SelectSeq(items, LAMBDA v : v \notin drop)
      size == Len(items) - numDeleted
  IN [j \in 1..size |-> IF j <= Len(kept) THEN kept[j]
                        ELSE IF kind = "docs" THEN NilDoc ELSE Nil]

RECURSIVE BSONWalkHelp(_, _, _)

(* An array on the path: each document in it is walked with what is left of *)
(* the path.  Dropping a deleted one from an []interface{} asserts that     *)
(* every other member is a document or nil.                                 *)
WalkArray(w, idx) ==
  LET current == DocAt(w.doc, w.at)
      val == current[idx].val
      rest == SubSeq(w.path, Len(w.docPath) + 2, Len(w.path))
      walked == {j \in DOMAIN val.sub : val.sub[j].t = "D"}
      others == {j \in DOMAIN val.sub : val.sub[j].t \notin {"D", "nilD", "nil"}}
      results == [j \in walked |-> BSONWalkHelp(val.sub[j].sub, rest, TRUE)]
      failed == {j \in walked : results[j].err \in {"error", "panic"}}
      deleted == {j \in walked : results[j].err = "delete"}
      reached == IF failed = {} THEN Len(val.sub) ELSE Min(failed)
      visited == FlattenSeq([j \in 1..reached |->
                               IF j \in walked THEN results[j].seen ELSE <<>>])
      items == [j \in DOMAIN val.sub |->
                  CASE j \in deleted -> NilDoc
                    [] j \in walked \ deleted -> Doc(results[j].doc)
                    [] OTHER -> val.sub[j]]
      left == IF deleted = {} THEN items
              ELSE Compact(val.t, items, Cardinality(deleted))
  IN CASE failed # {} -> Fails(results[reached].err, visited)
       [] failed = {} /\ deleted # {} /\ others # {} -> Fails("panic", visited)
       [] OTHER -> Returns(PutAt(w.doc, w.at, [current EXCEPT ![idx].val.sub = left]),
                           visited)

(* The loop over the pieces of the path.  An empty []interface{} is passed  *)
(* over by "continue": the next piece is looked up in the same document.    *)
RECURSIVE WalkPiece(_)
WalkPiece(w) ==
  LET current == DocAt(w.doc, w.at)
      idx == BSONIndexOf(current, w.path[Len(w.docPath) + 1])
      kind == current[idx].val.t
  IN CASE idx = 0 -> Returns(w.doc, <<>>)
       [] idx # 0 /\ Len(w.docPath) + 1 = Len(w.path) -> VisitElem(w, idx)
       [] OTHER ->
            CASE kind = "D" -> WalkPiece(Descend(w, idx))
              [] kind = "arr" /\ current[idx].val.sub = <<>> ->
                   WalkPiece([w EXCEPT !.docPath = Append(@, idx)])
              [] kind \in {"docs", "arr"} /\ ~(kind = "arr" /\ current[idx].val.sub = <<>>) ->
                   WalkArray(w, idx)
              [] OTHER -> Returns(w.doc, <<>>)

BSONWalkHelp(d, pieces, inArray) ==
  WalkPiece([doc |-> d, path |-> pieces, at |-> <<>>, prev |-> <<>>,
             docPath |-> <<>>, inArray |-> inArray])

BSONWalk(d, pieces) == BSONWalkHelp(d, pieces, FALSE)

-----------------------------------------------------------------------------
(* BSONWalkAll.  It returns the document, or nil once DELETE_ME was met; mem *)
(* is what the slice that was passed holds then.  A nil bson.D has no       *)
(* elements, and that is all that is seen of it here.                       *)
(*                                                                          *)
(* A loop that one of its rounds may end: what it leaves in the slice, why  *)
(* it stopped, and what the visitor saw.                                    *)
Done == [mem |-> <<>>, stop |-> "no", seen |-> <<>>]
Then(x, visited, rest) == [rest EXCEPT !.mem = <<x>> \o @, !.seen = visited \o @]

RECURSIVE BSONWalkAll(_, _)

(* Faulty variant: what comes back for a document is not stored. *)
StoreNothing(r) == Doc(r.mem)

(* val[arrayOffset] = newDoc *)
StoreItem(r) == Doc(r.doc)

(* The documents in an array; other members stay as they are. *)
RECURSIVE WalkAllItems(_, _)
WalkAllItems(items, fieldName) ==
  IF items = <<>> THEN Done
  ELSE LET rest == WalkAllItems(Tail(items), fieldName)
           r == BSONWalkAll(Head(items).sub, fieldName)
       IN CASE Head(items).t # "D" -> Then(Head(items), <<>>, rest)
            [] Head(items).t = "D" ->
                 IF r.err = "nil" THEN Then(StoreItem(r), r.seen, rest)
                 ELSE [mem |-> items, stop |-> "error", seen |-> r.seen]

(* One round of the loop over the elements.  elem is a copy: storing the    *)
(* document that comes back in elem.Value leaves the element what it was,   *)
(* with what the recursive call did in place.                               *)
WalkAllElem(elem, fieldName) ==
  LET hit == elem.key = fieldName
      visit == IF hit THEN Visit(elem.val) ELSE [err |-> "nil", val |-> elem.val]
      visited == IF hit THEN <<elem.val>> ELSE <<>>
      r == BSONWalkAll(elem.val.sub, fieldName)
      items == WalkAllItems(elem.val.sub, fieldName)
  IN CASE visit.err # "nil" -> [val |-> elem.val, stop |-> visit.err, seen |-> visited]
       [] visit.err = "nil" /\ elem.val.t = "D" ->
            [val |-> Doc(r.mem), stop |-> IF r.err = "nil" THEN "no" ELSE "error",
             seen |-> visited \o r.seen]
       [] visit.err = "nil" /\ elem.val.t \in {"docs", "arr"} ->
            [val |-> [elem.val EXCEPT !.sub = items.mem], stop |-> items.stop,
             seen |-> visited \o items.seen]
       [] OTHER -> [val |-> visit.val, stop |-> "no", seen |-> visited]

RECURSIVE WalkAllElems(_, _)
WalkAllElems(d, fieldName) ==
  IF d = <<>> THEN Done
  ELSE LET r == WalkAllElem(Head(d), fieldName)
           elem == [Head(d) EXCEPT !.val = r.val]
       IN IF r.stop = "no" THEN Then(elem, r.seen, WalkAllElems(Tail(d), fieldName))
          ELSE [mem |-> <<elem>> \o Tail(d), stop |-> r.stop, seen |-> r.seen]

BSONWalkAll(d, fieldName) ==
  LET loop == WalkAllElems(d, fieldName)
  IN [doc |-> IF loop.stop = "no" THEN loop.mem ELSE <<>>, mem |-> loop.mem,
      err |-> IF loop.stop = "error" THEN "error" ELSE "nil", seen |-> loop.seen]

-----------------------------------------------------------------------------
Init ==
  /\ call \in {"BSONWalk", "BSONWalkAll"}
  /\ doc \in Docs
  /\ path \in {p \in Paths : call = "BSONWalkAll" => Len(p) = 1}
  /\ out = [err |-> "none"]

CallBSONWalk ==
  /\ call = "BSONWalk"
  /\ out.err = "none"
  /\ out' = BSONWalk(doc, path)
  /\ UNCHANGED <<call, doc, path>>

CallBSONWalkAll ==
  /\ call = "BSONWalkAll"
  /\ out.err = "none"
  /\ out' = BSONWalkAll(doc, path[1])
  /\ UNCHANGED <<call, doc, path>>

Next == CallBSONWalk \/ CallBSONWalkAll

Spec == Init /\ [][Next]_vars

-----------------------------------------------------------------------------
(* What the functions are for, by the shape of the document alone. *)

IsArray(v) == v.t \in {"docs", "arr"}

(* The values at the end of path p, in the order of the document. *)
RECURSIVE Selected(_, _)
Selected(d, p) ==
  LET i == SelectInSeq(d, LAMBDA elem : elem.key = p[1])
      v == d[i].val
      In(x) == IF x.t = "D" THEN Selected(x.sub, Tail(p)) ELSE <<>>
  IN CASE i = 0 -> <<>>
       [] i # 0 /\ Len(p) = 1 -> <<v>>
       [] OTHER -> IF IsArray(v) THEN FlattenSeq([j \in DOMAIN v.sub |-> In(v.sub[j])])
                   ELSE In(v)

(* Following p through embedded documents alone ends at a value to delete. *)
RECURSIVE Dropped(_, _)
Dropped(d, p) ==
  LET i == SelectInSeq(d, LAMBDA elem : elem.key = p[1])
  IN /\ i # 0
     /\ IF Len(p) = 1 THEN d[i].val.t = "del"
        ELSE d[i].val.t = "D" /\ Dropped(d[i].val.sub, Tail(p))

DroppedItem(v, p) == v.t = "D" /\ Dropped(v.sub, p)

(* The document with the values at the end of p rewritten: a deletion takes *)
(* away the member of the innermost array on the path, or the element.      *)
RECURSIVE Rewritten(_, _)
Rewritten(d, p) ==
  LET i == SelectInSeq(d, LAMBDA elem : elem.key = p[1])
      v == d[i].val
      In(x) == IF x.t = "D" THEN Doc(Rewritten(x.sub, Tail(p))) ELSE x
      left == SelectSeq(v.sub, LAMBDA x : ~DroppedItem(x, Tail(p)))
  IN CASE i = 0 -> d
       [] i # 0 /\ Len(p) = 1 -> IF v.t = "del" THEN RemoveAt(d, i)
                                 ELSE [d EXCEPT ![i].val = Visit(v).val]
       [] OTHER -> [d EXCEPT ![i].val =
                      IF IsArray(v) THEN [v EXCEPT !.sub = [j \in DOMAIN left |-> In(left[j])]]
                      ELSE In(v)]

(* No []interface{} on the path is empty, and one that loses a member has   *)
(* nothing but documents with elements.                                     *)
RECURSIVE Regular(_, _)
Regular(d, p) ==
  LET i == SelectInSeq(d, LAMBDA elem : elem.key = p[1])
      v == d[i].val
      In(x) == x.t = "D" => Regular(x.sub, Tail(p))
      items == {v.sub[j] : j \in DOMAIN v.sub}
  IN \/ i = 0
     \/ Len(p) = 1
     \/ ~IsArray(v) /\ In(v)
     \/ /\ IsArray(v)
        /\ \A x \in items : In(x)
        /\ v.t = "arr" => /\ items # {}
                          /\ (\E x \in items : DroppedItem(x, Tail(p))) =>
                               \A x \in items : x.t = "D" /\ x.sub # <<>>

(* The document with every value under key f rewritten, at any depth; a     *)
(* document in which one of them is deleted is emptied.                     *)
RECURSIVE Applied(_, _)
Applied(d, f) ==
  LET In(x) == IF x.t = "D" THEN Doc(Applied(x.sub, f)) ELSE x
      Value(elem) == CASE elem.val.t = "D" -> In(elem.val)
                       [] IsArray(elem.val) -> [elem.val EXCEPT !.sub =
                                                  [j \in DOMAIN @ |-> In(@[j])]]
                       [] OTHER -> IF elem.key = f THEN Visit(elem.val).val ELSE elem.val
  IN IF \E i \in DOMAIN d : d[i].key = f /\ d[i].val.t = "del" THEN <<>>
     ELSE [i \in DOMAIN d |-> [d[i] EXCEPT !.val = Value(d[i])]]

(* A document that is the value of an element loses a value under key f. *)
RECURSIVE EmbeddedDelete(_, _)
EmbeddedDelete(d, f) ==
  LET Below(x) == x.t = "D" /\ EmbeddedDelete(x.sub, f)
      Here(x) == \E i \in DOMAIN x.sub : x.sub[i].key = f /\ x.sub[i].val.t = "del"
  IN \E i \in DOMAIN d :
       \/ d[i].val.t = "D" /\ (Here(d[i].val) \/ Below(d[i].val))
       \/ IsArray(d[i].val) /\ \E j \in DOMAIN d[i].val.sub : Below(d[i].val.sub[j])

Walked == out.err # "none" /\ call = "BSONWalk"
WalkedAll == out.err # "none" /\ call = "BSONWalkAll"

HasBad(values) == \E i \in DOMAIN values : values[i].t = "bad"

(* "applies the visitor on the select path": the visitor of BSONWalk sees   *)
(* the values that the path selects, in order, and they alone are changed:  *)
(* the index it keeps for prev is the right one at every depth, deleting    *)
(* from an array leaves its other members in order, and it fails only if    *)
(* the visitor does.  This is said of documents in which no []interface{}   *)
(* on the path is empty, or loses a member while it holds anything but      *)
(* documents with elements (Regular): on those the code does otherwise.     *)
WalkMatches ==
  Walked /\ Regular(doc, path) =>
    IF HasBad(Selected(doc, path)) THEN out.err = "error"
    ELSE /\ out.err = "nil"
         /\ out.doc = Rewritten(doc, path)
         /\ out.seen = Selected(doc, path)

(* BSONWalkAll rewrites the values under its key wherever they are, and     *)
(* empties a member of an array in which one is deleted, without losing     *)
(* what it changed in place before.                                         *)
WalkAllMatches ==
  WalkedAll /\ out.err = "nil" /\ ~EmbeddedDelete(doc, path[1]) =>
    out.doc = Applied(doc, path[1])

(* "If delete_me is encountered, it'll return an empty document for that    *)
(* element": so for a member of an array, and for an embedded document.     *)
WalkAllEmpties ==
  WalkedAll /\ out.err = "nil" => out.doc = Applied(doc, path[1])
=============================================================================
