------------------------------- MODULE Assoc --------------------------------
(* What an associative array promises: it holds at most one value for a    *)
(* key, and a call takes effect at once, between its start and its return. *)
EXTENDS Integers

CONSTANTS Keys, Values, Default

VARIABLES
    entries,  \* the pairs <<key, value>> it holds
    call,     \* the call under way: [kind, key, value], of kind "none" if none
    ret       \* what the last call gave: [flag, value]

NoCall == [kind |-> "none", key |-> 0, value |-> Default]

Holds(k)   == \E e \in entries : e[1] = k
Without(k) == {e \in entries : e[1] # k}

AssocInit == entries = {} /\ call = NoCall /\ ret = [flag |-> FALSE, value |-> Default]

\* A caller gets only what is there.
Invoke ==
    /\ call = NoCall
    /\ call' \in [kind : {"has", "get", "put", "remove", "subscript"}, key : Keys, value : Values]
    /\ call'.kind = "get" => Holds(call'.key)
    /\ UNCHANGED <<entries, ret>>

Done(flag, value) == ret' = [flag |-> flag, value |-> value] /\ call' = NoCall

ReturnHas ==
    /\ call.kind = "has"
    /\ Done(Holds(call.key), Default)
    /\ UNCHANGED entries

ReturnGet ==
    /\ call.kind = "get"
    /\ \E v \in Values : <<call.key, v>> \in entries /\ Done(TRUE, v)
    /\ UNCHANGED entries

ReturnRemove ==
    /\ call.kind = "remove"
    /\ Done(FALSE, Default)
    /\ entries' = Without(call.key)

\* put() tells whether the key is new; a subscript is assigned to.
ReturnPut ==
    /\ call.kind \in {"put", "subscript"}
    /\ Done(call.kind = "put" /\ ~Holds(call.key), Default)
    /\ entries' = Without(call.key) \cup {<<call.key, call.value>>}

Next == Invoke \/ ReturnHas \/ ReturnGet \/ ReturnRemove \/ ReturnPut

AssocSpec == AssocInit /\ [][Next]_<<entries, call, ret>>
=============================================================================
