------------------------------- MODULE MCMesh -------------------------------
(* Instances of Mesh for TLC. *)
EXTENDS Mesh

Both(R) == R \cup {<<p[2], p[1]>> : p \in R}
AllSame(S, v) == [s \in S |-> v]
Send(to, params, x) == [to |-> to, params |-> params, msg |-> <<Text(x)>>]

\* A - R - B: A and B hear only the repeater R.
Line == {"A", "R", "B"}
LineHears == Both({<<"A", "R">>, <<"R", "B">>})
LineRssi == [h \in LineHears |-> IF h[1] = "R" THEN -60 ELSE -90]
LineKeys == AllSame(Line, "psk")
LineFirstId == [s \in Line |-> IF s = "A" THEN 9 ELSE 1]
\* The messages of two texts fit in MaxPayload = 4 until a repeater adds its R.
Long(to, param) == [to |-> to, params |-> {param}, msg |-> <<Text("x"), Text("y")>>]
AnswersRequests == [s \in Line |->
    IF s = "A"
    THEN {Send("B", {"C"}, "x"), Send("B", {"PING"}, "x"), Long("B", "C"), Long("QC", "PING")}
    ELSE {}]
AnswersBoots == [s \in Line |-> IF s = "R" THEN 0 ELSE 1]
RouteRequests == [s \in Line |-> IF s = "A" THEN {Send("B", {"RREQ"}, "x")} ELSE {}]

\* A - {R, S} - B, and the repeaters R and S hear each other.
Diamond == {"A", "R", "S", "B"}
DiamondHears ==
    Both({<<"A", "R">>, <<"A", "S">>, <<"R", "S">>, <<"R", "B">>, <<"S", "B">>})
DiamondRssi == [h \in DiamondHears |-> IF h[1] = "R" THEN -60 ELSE IF h[1] = "A" THEN -70 ELSE -80]
DiamondFirstId == AllSame(Diamond, 1)
NoBoots == AllSame(Diamond, 0)
DiamondSigned == AllSame(Diamond, "psk")
ReliableRequests == [s \in Diamond |->
    IF s = "A" THEN {Send("B", {"C", "PING"}, "x"), Send("B", {"RREQ"}, "x")} ELSE {}]

\* A, R and S all hear each other.
Triangle == {"A", "R", "S"}
TriangleHears == {h \in Triangle \X Triangle : h[1] # h[2]}
TriangleRssi == [h \in TriangleHears |-> IF h[1] = "R" THEN -60 ELSE IF h[1] = "S" THEN -70 ELSE -80]
TriangleKeys == AllSame(Triangle, NoKey)
TriangleFirstId == AllSame(Triangle, 1)
TriangleBoots == AllSame(Triangle, 0)
TriangleRequests == [s \in Triangle |-> IF s = "A" THEN {Send("S", {}, "x"), Send("QC", {}, "y")} ELSE {}]
=============================================================================
