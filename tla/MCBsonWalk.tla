----------------------------- MODULE MCBsonWalk -----------------------------
(* Instances of BsonWalk for TLC: documents of up to four levels.  The       *)
(* documents inside arrays are the ones that make a difference there: empty, *)
(* with one element, and with the element of interest in second place.       *)
EXTENDS BsonWalk

Keys == {"a", "b"}
Keep == [t |-> "keep"]
Scalars == {Keep, [t |-> "del"], [t |-> "bad"]}
Elem(k, v) == [key |-> k, val |-> v]

SmallElems == {Elem(k, v) : k \in Keys, v \in Scalars}
SmallDocs == {Doc(<<>>)} \cup {Doc(<<e>>) : e \in SmallElems}
               \cup {Doc(<<Elem("b", Keep), Elem("a", v)>>) : v \in Scalars}

UpTo2(S) == {<<>>} \cup {<<x>> : x \in S} \cup {<<x, y>> : x, y \in S}
Docs2 == {[t |-> "docs", sub |-> s] : s \in UpTo2(SmallDocs)}
Arrs2 == {[t |-> "arr", sub |-> s] : s \in UpTo2(SmallDocs \cup {Keep, Nil})}
Values2 == Scalars \cup SmallDocs \cup Docs2 \cup Arrs2

Beside(e) == {<<e>>} \cup {<<e, f>> : f \in SmallElems} \cup {<<f, e>> : f \in SmallElems}
Flat == UNION {Beside(Elem("a", v)) : v \in Values2}
Inner == {Doc(<<Elem("a", v)>>) : v \in Values2}
           \cup {Doc(<<Elem("b", Keep), Elem("a", v)>>) : v \in Values2}
Nested == {<<Elem("a", d)>> : d \in Inner}
            \cup {<<Elem("b", Keep), Elem("a", d)>> : d \in Inner}
            \cup {<<Elem("a", [t |-> k, sub |-> <<d>>])>> : k \in {"docs", "arr"}, d \in Inner}

MCDocs == {<<>>} \cup Flat \cup Nested
MCPaths == {<<"a">>, <<"b">>, <<"a", "a">>, <<"a", "b">>, <<"a", "a", "a">>, <<"a", "a", "b">>}
=============================================================================
