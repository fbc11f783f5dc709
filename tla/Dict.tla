-------------------------------- MODULE Dict --------------------------------
(***************************************************************************)
(* The associative array of the firmware (Dict.h), two vectors (Vector.h)  *)
(* kept side by side: the keys in order, and the values.  One action is    *)
(* one activation of the recursive indexOf(), which halves the range that  *)
(* is left to search and looks at a short range one by one.                *)
(*                                                                         *)
(* A key is its rank in the order of Buffer::compareTo.  Positions are     *)
(* those of the code and start at 0; a vector's elements are a sequence,   *)
(* whose ith element has position i - 1, and space is what is allocated.   *)
(***************************************************************************)
EXTENDS Integers, Sequences

CONSTANTS
    Keys,       \* ranks of the keys
    Values,     \* what is stored
    Default,    \* T(), a value made by the default constructor
    MaxLinear   \* 3: a range as long as this is searched one by one

ASSUME KeysAssumption == Keys \subseteq Int
ASSUME ValuesAssumption == Default \in Values
ASSUME LinearAssumption == MaxLinear \in Nat

VARIABLES
    keys,    \* _keys: [elem, space]
    values,  \* _values
    op,      \* the call under way: what it is, and the range still to search
    ret      \* what the last call gave: [flag, value]

vars == <<keys, values, op, ret>>

-----------------------------------------------------------------------------
(* Vector *)

EmptyVector == [elem |-> <<>>, space |-> 0]

Count(v) == Len(v.elem)

\* Mutant: room is made one element late.
Grown_Late(v) ==
    IF v.space = 0 THEN 4 ELSE IF Count(v) > v.space THEN 2 * v.space ELSE v.space

\* What is allocated after room was made for one more element (reserve).
Grown(v) ==
    IF v.space = 0 THEN 4 ELSE IF Count(v) = v.space THEN 2 * v.space ELSE v.space

\* insert(pos, x), and push_back(x) when pos is the end.
InsertIn(v, pos, x) ==
    [elem  |-> [i \in 1..(Count(v) + 1) |->
                  IF i <= pos THEN v.elem[i] ELSE IF i = pos + 1 THEN x ELSE v.elem[i - 1]],
     space |-> Grown(v)]

\* remov(pos)
RemovFrom(v, pos) ==
    [elem  |-> [i \in 1..(Count(v) - 1) |-> IF i <= pos THEN v.elem[i] ELSE v.elem[i + 1]],
     space |-> v.space]

Assign(v, pos, x) == [elem |-> [v.elem EXCEPT ![pos + 1] = x], space |-> v.space]

\* The copy allocates what it needs.
CopyOf(v) == [elem |-> v.elem, space |-> Count(v)]

-----------------------------------------------------------------------------
(* Dict *)

Kinds == {"has", "get", "put", "remove", "subscript"}
NoOp  == [at |-> "idle", kind |-> "none", key |-> 0, value |-> Default, from |-> 0, to |-> 0]

Init ==
    /\ keys = EmptyVector /\ values = EmptyVector
    /\ op = NoOp
    /\ ret = [flag |-> FALSE, value |-> Default]

Positions == 0..(Count(keys) - 1)
KeyAt(i)  == keys.elem[i + 1]
Present(k) == \E i \in Positions : KeyAt(i) = k

\* A method is called, and looks for its key in the whole of the array.  The
\* callers of get() check with has() before.  The exact searches that put() and
\* the subscript repeat with nothing changed in between are one.
Call(kind, k, v) ==
    /\ op.at = "idle"
    /\ kind = "get" => Present(k)
    /\ kind \notin {"put", "subscript"} => v = Default
    /\ op' = [at |-> "find", kind |-> kind, key |-> k, value |-> v, from |-> 0, to |-> Count(keys)]
    /\ UNCHANGED <<keys, values, ret>>

\* A copy of the array takes its place: operator=, or the copy constructor.
Copy ==
    /\ op.at = "idle"
    /\ keys' = CopyOf(keys) /\ values' = CopyOf(values)
    /\ UNCHANGED <<op, ret>>

\* find: the exact search for the key; place: the search for the place of a new
\* key; again: the exact search for a key that a subscript has just inserted.
Searching == op.at # "idle"
Exact     == op.at # "place"
Short     == op.to - op.from <= MaxLinear
Middle    == (op.from + op.to) \div 2

GoLeft ==
    /\ Searching /\ ~Short /\ KeyAt(Middle) > op.key
    /\ op' = [op EXCEPT !.to = Middle]
    /\ UNCHANGED <<keys, values, ret>>

GoRight ==
    /\ Searching /\ ~Short /\ KeyAt(Middle) < op.key
    /\ op' = [op EXCEPT !.from = Middle + 1]
    /\ UNCHANGED <<keys, values, ret>>

\* Mutant: a search for a place stops at a greater key only.
Stops_AtEnd(i) == KeyAt(i) = op.key

\* Where the search of a short range stops.
Stops(i) == KeyAt(i) = op.key \/ (~Exact /\ KeyAt(i) > op.key)

\* pos is what indexOf() returns.
Scans(pos) ==
    LET range == op.from..(op.to - 1) IN
    \/ pos \in range /\ Stops(pos) /\ \A j \in range : j < pos => ~Stops(j)
    \/ (\A j \in range : ~Stops(j)) /\ pos = IF Exact THEN -1 ELSE op.to

Search(at) == op' = [op EXCEPT !.at = at, !.from = 0, !.to = Count(keys')]

Return(flag, value) == ret' = [flag |-> flag, value |-> value] /\ op' = NoOp

EndHas(pos) ==
    /\ op.kind = "has"
    /\ Return(pos # -1, Default)
    /\ UNCHANGED <<keys, values>>

EndGet(pos) ==
    /\ op.kind = "get"
    /\ Return(TRUE, values.elem[pos + 1])
    /\ UNCHANGED <<keys, values>>

\* Mutant: the value stays.
EndRemove_KeyOnly(pos) ==
    /\ op.kind = "remove"
    /\ keys' = (IF pos < 0 THEN keys ELSE RemovFrom(keys, pos))
    /\ UNCHANGED values
    /\ Return(FALSE, Default)

EndRemove(pos) ==
    /\ op.kind = "remove"
    /\ IF pos < 0
       THEN UNCHANGED <<keys, values>>
       ELSE keys' = RemovFrom(keys, pos) /\ values' = RemovFrom(values, pos)
    /\ Return(FALSE, Default)

\* put() or a subscript finds the key: the value is replaced.
Replace(pos) ==
    /\ op.kind \in {"put", "subscript"} /\ pos # -1
    /\ values' = Assign(values, pos, op.value)
    /\ UNCHANGED keys
    /\ Return(FALSE, Default)

\* It does not: the place of the key is to be found.
Miss(pos) ==
    /\ op.kind \in {"put", "subscript"} /\ pos = -1
    /\ UNCHANGED <<keys, values, ret>>
    /\ Search("place")

\* Mutant: the values are kept in the order they came in.
Insert_ValueLast(pos) ==
    /\ keys' = InsertIn(keys, pos, op.key)
    /\ values' = InsertIn(values, Count(values), IF op.kind = "put" THEN op.value ELSE Default)
    /\ IF op.kind = "put"
       THEN Return(TRUE, Default)
       ELSE Search("again") /\ UNCHANGED ret

\* A new key; a subscript puts T() and searches again.
Insert(pos) ==
    /\ keys' = InsertIn(keys, pos, op.key)
    /\ values' = InsertIn(values, pos, IF op.kind = "put" THEN op.value ELSE Default)
    /\ IF op.kind = "put"
       THEN Return(TRUE, Default)
       ELSE Search("again") /\ UNCHANGED ret

\* The search gives pos.
Finish(pos) ==
    \/ op.at = "find" /\ (EndHas(pos) \/ EndGet(pos) \/ EndRemove(pos) \/ Replace(pos) \/ Miss(pos))
    \/ op.at = "place" /\ Insert(pos)
    \/ op.at = "again" /\ Replace(pos)

Hit == Searching /\ ~Short /\ KeyAt(Middle) = op.key /\ Finish(Middle)

Scan == Searching /\ Short /\ \E pos \in -1..Count(keys) : Scans(pos) /\ Finish(pos)

Step == GoLeft \/ GoRight \/ Hit \/ Scan

Next ==
    \/ \E kind \in Kinds, k \in Keys, v \in Values : Call(kind, k, v)
    \/ Copy
    \/ Step

Spec == Init /\ [][Next]_vars

-----------------------------------------------------------------------------
(* Properties *)

Vectors(S) == [elem : Seq(S), space : Nat]

TypeOK ==
    /\ keys \in Vectors(Keys) /\ values \in Vectors(Values)
    /\ Count(keys) = Count(values)
    /\ op = NoOp \/ op \in [at : {"find", "place", "again"}, kind : Kinds, key : Keys,
                            value : Values, from : Nat, to : Nat]
    /\ ret \in [flag : BOOLEAN, value : Values]

\* Each key is there once and the keys are in order, so that the halving search
\* is right and Params::serialized() writes the same parameters the same way,
\* whatever the order they were put in.
KeysSorted == \A i, j \in Positions : i < j => KeyAt(i) < KeyAt(j)

\* No vector holds more elements than it has allocated: Vector::insert and
\* push_back write behind the last element.
RoomIsEnough == Count(keys) <= keys.space /\ Count(values) <= values.space

\* The pairs, without one that a subscript inserted and will assign to.
Pairs(ks, vs) == {<<ks.elem[i], vs.elem[i]>> : i \in 1..Len(ks.elem)}
Entries == {e \in Pairs(keys, values) : op.at = "again" => e[1] # op.key}

Service == INSTANCE Assoc WITH
    entries <- Entries,
    call <- [kind |-> op.kind, key |-> op.key, value |-> op.value]

\* The two vectors and the searches are an associative array.
AssocService == Service!AssocSpec
=============================================================================
