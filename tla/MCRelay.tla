------------------------------ MODULE MCRelay -------------------------------
(* Instance of Relay for TLC: the lines that an operator may write for a   *)
(* request, and all short parameter lists and headers.                     *)
EXTENDS Relay

x == 120
MCMe   == <<80, 85, 53, 65, 65, 65, 65, Dash, 49, 49>>   \* PU5AAAA-11
Lower10 == <<112, 117, 53, 98, 98, 98, 98, Dash, 50, 50>>   \* pu5bbbb-22
AB     == <<65, 66>>
qc     == <<113, 99>>
Long   == <<65, 65, 65, 65, 65, 65, 65, 65, Dash, 49, 48>>   \* AAAAAAAA-10

Sets(S) == UNION {[D -> S] : D \in SUBSET {<<75>>, <<84, 57>>}}   \* of the keys K and T9
Messages == {<<>>, <<x>>, <<Space, x>>, <<x, Colon, Comma, Less>>}
Small(s) == [i \in DOMAIN s |-> IF s[i] \in Upper THEN s[i] + 32 ELSE s[i]]

\* The pieces of a parameter list, in an order; some write a number, too.
PieceOf(items, k) == k \o IF items[k] = Naked THEN <<>> ELSE <<Equal>> \o items[k]
Orders(S) == {o \in [1..Cardinality(S) -> S] : {o[i] : i \in DOMAIN o} = S}
Lists(items) ==
    LET pieces == {PieceOf(items, k) : k \in DOMAIN items} IN
    UNION {Orders(pieces \cup n) : n \in {{}, {<<55>>}}}
Joined(ps) == FlattenSeq([i \in DOMAIN ps |-> <<IF i = 1 THEN Colon ELSE Comma>> \o ps[i]])

Texts(dest, items, msg) ==
    {dest \o t \o m : t \in {Joined(l) : l \in Lists(items)} \cup {Small(Joined(l)) : l \in Lists(items)},
                      m \in {<<Space>> \o msg} \cup {n \in {<<>>} : msg = <<>>}}

Meant ==
    UNION {{[text |-> t, meant |-> [to |-> Uppercase(dest), from |-> NoCallsign,
                                    params |-> [valid |-> TRUE, ident |-> 0, items |-> items], msg |-> msg]] :
               t \in Texts(dest, items, msg)} :
           dest \in {AB, qc, Lower10}, items \in Sets({Naked, <<>>, <<120>>}), msg \in Messages}
\* Values keep their case.
Typed == {[l EXCEPT !.text = <<Space>> \o @] : l \in Meant}
         \cup {[l EXCEPT !.text = Pktx \o ToHex(@)] : l \in Meant}

\* Parameter lists and headers of all kinds.
ParamTexts == BoundedSeq({75, 107, 48, 54, Equal, Comma}, 4)
              \cup {<<82, Equal>> \o [i \in 1..n |-> x] : n \in 1..15}   \* R has a value
Scribbles  == {[text |-> dest \o <<Colon>> \o t \o m, meant |-> NoPacket] :
                  dest \in {AB, Lower10}, t \in ParamTexts, m \in {<<Space, x>>}}
Headers    == {FlattenSeq(t) : t \in BoundedSeq({AB, Long, <<Less>>, <<Colon>>, <<49>>, <<Space>>}, 5)}
MCLines  == Typed \cup Scribbles
MCNoises == Headers \cup {AB \o <<Less>> \o Small(MCMe) \o <<Colon>> \o t \o <<Space, x>> : t \in ParamTexts}
=============================================================================
