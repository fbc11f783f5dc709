------------------------------- MODULE Switch -------------------------------
(***************************************************************************)
(* The switch protocol: Proto_Switch.cpp on the server, the client of      *)
(* test/lora_switch.py, and packets A, B, C and D between them.            *)
(*                                                                         *)
(* The packets travel as the mesh carries them (module Datagram): they are *)
(* lost, delayed and reordered.  net holds the packets of which copies are *)
(* under way: receiving one leaves others, until the last is gone.         *)
(*                                                                         *)
(* A transaction is a Switch object of the client.  Its random challenge   *)
(* is taken to be new, and so is the server's random response.             *)
(***************************************************************************)
EXTENDS Integers, FiniteSets

CONSTANTS
    Transactions,  \* the transactions that clients make, by their challenge
    Target,        \* Target[t]: the number of the switch
    Want,          \* Want[t]: the position to set, or Query
    Signed,        \* transactions of stations with a key (parameter H)
    SwCount,       \* sw_count
    MaxValue,      \* 65535
    Keep,          \* 120 SECONDS, in ticks
    Lossy,         \* whether the last copy of a packet may be gone: for safety
                   \* a packet that is not received (again) says as much
    MaxNow,        \* bound: the clock
    MaxBoots       \* bound: restarts of the server

Query   == -1      \* "?" in packet C
Invalid == -2      \* "?" in packet D

ASSUME SwitchAssumption ==
    /\ Signed \subseteq Transactions
    /\ SwCount \in Nat /\ MaxValue \in Nat /\ Keep \in Nat
    /\ Target \in [Transactions -> 1..MaxValue]
    /\ Want \in [Transactions -> 0..MaxValue \cup {Query}]
    /\ Lossy \in BOOLEAN /\ MaxNow \in Nat /\ MaxBoots \in Nat

VARIABLES
    now,       \* sys_timestamp() of the server, in ticks
    sw,        \* sw
    trans,     \* transactions of the server: [response, timeout, done]
    fresh,     \* the next random response
    client,    \* state of each transaction: [state, response, result]
    net,       \* packets under way
    boots,     \* restarts of the server
    given      \* history: values the server answered, by transaction

vars == <<now, sw, trans, fresh, client, net, boots, given>>

PacketA(t)       == [type |-> "A", t |-> t, response |-> 0, value |-> Invalid]
PacketB(t, r)    == [type |-> "B", t |-> t, response |-> r, value |-> Invalid]
PacketC(t, r)    == [type |-> "C", t |-> t, response |-> r, value |-> Want[t]]
PacketD(t, r, v) == [type |-> "D", t |-> t, response |-> r, value |-> v]

Init ==
    /\ now = 0 /\ boots = 0 /\ fresh = 1
    /\ sw = [k \in 1..SwCount |-> 0]
    /\ trans = [t \in {} |-> 0]
    /\ client = [t \in Transactions |-> [state |-> "new", response |-> 0, result |-> Invalid]]
    /\ net = {}
    /\ given = [t \in Transactions |-> {}]

-----------------------------------------------------------------------------
(* Server: Proto_Switch *)

\* parse() finds a target and a value it accepts.
Parses(p) ==
    p.type = "C" => Target[p.t] \in 1..MaxValue /\ (p.value = Query \/ p.value \in 1..MaxValue)

Opened(r) == [response |-> r, timeout |-> now + Keep, done |-> FALSE]

\* Mutant: packets that are not signed are heeded too.
Heeds_Unsigned(p) == Parses(p)

\* handle() demands parameter H before it parses the message.
Heeds(p) == p.t \in Signed /\ Parses(p)

Known(t) == t \in DOMAIN trans

SetTrans(t, x) == trans' = [u \in DOMAIN trans \cup {t} |-> IF u = t THEN x ELSE trans[u]]

\* Mutant: a challenge that is known is not answered again.
AnswersAgain_Never(t) == FALSE

\* A challenge that is known is answered again, unless its command was executed.
AnswersAgain(t) == ~trans[t].done

\* Packet A.
HandleA(p) ==
    /\ p.type = "A"
    /\ IF ~Known(p.t)
       THEN /\ SetTrans(p.t, Opened(fresh))
            /\ fresh' = fresh + 1
            /\ net' = net \cup {PacketB(p.t, fresh)}
       ELSE /\ net' = IF AnswersAgain(p.t) THEN net \cup {PacketB(p.t, trans[p.t].response)} ELSE net
            /\ UNCHANGED <<trans, fresh>>
    /\ UNCHANGED <<sw, given>>

\* A command moves the switch unless the transaction is done.
Moves(p) == Target[p.t] <= SwCount /\ p.value # Query /\ ~trans[p.t].done

\* Mutant: the switch need not be there.
Answer_NoSwitch(p) == IF p.value = Query THEN sw[Target[p.t]] ELSE p.value

\* The value that packet D gives.
Answer(p) ==
    IF Target[p.t] > SwCount THEN Invalid
    ELSE IF p.value = Query THEN sw[Target[p.t]] ELSE p.value

\* Mutant: the response is not compared.
Accepts_AnyResponse(p) == Known(p.t)

\* The transaction is known, and packet C has its response.
Accepts(p) == Known(p.t) /\ trans[p.t].response = p.response

\* Packet C.
HandleC(p) ==
    /\ p.type = "C" /\ Accepts(p)
    /\ sw' = IF Moves(p) THEN [sw EXCEPT ![Target[p.t]] = p.value] ELSE sw
    /\ SetTrans(p.t, [trans[p.t] EXCEPT !.done = TRUE, !.timeout = now + Keep])
    /\ net' = net \cup {PacketD(p.t, p.response, Answer(p))}
    /\ given' = [given EXCEPT ![p.t] = @ \cup {Answer(p)}]
    /\ UNCHANGED fresh

\* The server receives a copy of p.  A packet it refuses changes nothing.
ServerReceives(p) ==
    /\ p \in net /\ Heeds(p)
    /\ HandleA(p) \/ HandleC(p)
    /\ UNCHANGED <<now, client, boots>>

Expired == {t \in DOMAIN trans : trans[t].timeout < now}

\* process_timeouts(), every 30 seconds.
ProcessTimeouts ==
    /\ Expired # {}
    /\ trans' = [t \in DOMAIN trans \ Expired |-> trans[t]]
    /\ UNCHANGED <<now, sw, fresh, client, net, boots, given>>

\* The server loses its RAM.
Reboot ==
    /\ boots < MaxBoots
    /\ boots' = boots + 1
    /\ sw' = [k \in 1..SwCount |-> 0]
    /\ trans' = [t \in {} |-> 0]
    /\ UNCHANGED <<now, fresh, client, net, given>>

-----------------------------------------------------------------------------
(* Client: class Switch of test/lora_switch.py *)

\* The constructor: sendA().
Start(t) ==
    /\ client[t].state = "new"
    /\ client' = [client EXCEPT ![t].state = "A"]
    /\ net' = net \cup {PacketA(t)}
    /\ UNCHANGED <<now, sw, trans, fresh, boots, given>>

\* timeoutA(), timeoutC(): send the packet again, for ever.
Timeout(t) ==
    /\ \/ client[t].state = "A" /\ net' = net \cup {PacketA(t)}
       \/ client[t].state = "C" /\ net' = net \cup {PacketC(t, client[t].response)}
    /\ UNCHANGED <<now, sw, trans, fresh, client, boots, given>>

\* rxB(): the first response is answered with the command.
RxB(p) ==
    /\ p.type = "B" /\ client[p.t].state = "A"
    /\ client' = [client EXCEPT ![p.t].state = "C", ![p.t].response = p.response]
    /\ net' = net \cup {PacketC(p.t, p.response)}

\* Packet p ends transaction t: Switch.rx finds t by the challenge, rxD compares
\* the response.
Concludes(t, p) == t = p.t /\ client[t].state = "C" /\ client[t].response = p.response

RxD(p) ==
    /\ p.type = "D"
    /\ client' = [t \in Transactions |->
                    IF Concludes(t, p)
                    THEN [client[t] EXCEPT !.state = "E", !.result = p.value]
                    ELSE client[t]]
    /\ UNCHANGED net

ClientReceives(p) ==
    /\ p \in net
    /\ RxB(p) \/ RxD(p)
    /\ UNCHANGED <<now, sw, trans, fresh, boots, given>>

-----------------------------------------------------------------------------

\* No copy of p is left: received or lost.
Gone(p) ==
    /\ Lossy /\ p \in net
    /\ net' = net \ {p}
    /\ UNCHANGED <<now, sw, trans, fresh, client, boots, given>>

Tick ==
    /\ now < MaxNow
    /\ now' = now + 1
    /\ UNCHANGED <<sw, trans, fresh, client, net, boots, given>>

Next ==
    \/ \E t \in Transactions : Start(t) \/ Timeout(t)
    \/ \E p \in net : ServerReceives(p) \/ ClientReceives(p) \/ Gone(p)
    \/ ProcessTimeouts \/ Reboot \/ Tick

Spec == Init /\ [][Next]_vars

\* Packets of a kind: one that is sent again and again is received.
Receives(t, type) ==
    \E p \in net : p.t = t /\ p.type = type /\ (ServerReceives(p) \/ ClientReceives(p))

\* The client's timers run, and the mesh does not lose every copy.
Fairness == \A t \in Transactions :
    /\ WF_vars(Timeout(t))
    /\ \A type \in {"A", "B", "C", "D"} : SF_vars(Receives(t, type))

FairSpec == Spec /\ Fairness

-----------------------------------------------------------------------------
(* Properties *)

Packets == [type : {"A", "B", "C", "D"}, t : Transactions,
            response : 0..(fresh - 1), value : 0..MaxValue \cup {Query, Invalid}]

\* Type invariant.  The server only knows transactions of stations with a key.
TypeOK ==
    /\ now \in 0..MaxNow /\ boots \in 0..MaxBoots /\ fresh \in Nat \ {0}
    /\ sw \in [1..SwCount -> 0..MaxValue]
    /\ DOMAIN trans \subseteq Signed
    /\ trans \in [DOMAIN trans ->
                    [response : 1..(fresh - 1), timeout : 0..(now + Keep), done : BOOLEAN]]
    /\ client \in [Transactions -> [state : {"new", "A", "C", "E"}, response : 0..(fresh - 1),
                                    result : 0..MaxValue \cup {Invalid}]]
    /\ net \subseteq Packets
    /\ given \in [Transactions -> SUBSET (0..MaxValue \cup {Invalid})]

\* The state that the users of the protocol see.
Service == INSTANCE RemoteSwitch WITH
    status <- [t \in Transactions |->
                 IF client[t].state = "new" THEN "idle"
                 ELSE IF client[t].state = "E" THEN "ended" ELSE "asked"],
    result <- [t \in Transactions |-> client[t].result]

\* The protocol is a remote switch: commands are executed once in spite of
\* retransmissions, expiry and restarts, and results are true.
SwitchService == Service!SwitchSpec

\* The client holds a response that the server has forgotten, by timeout or
\* restart: the server refuses its command, and the client repeats it for ever.
Stranded(t) ==
    /\ client[t].state = "C"
    /\ ~(Known(t) /\ trans[t].response = client[t].response)

\* A transaction of a station with a key comes to its end, unless it is stranded.
TransactionsEnd ==
    \A t \in Signed : client[t].state = "A" ~> client[t].state = "E" \/ Stranded(t)

\* A command with a value that the protocol allows, 0 included, is executed when
\* the server knows the pair of challenge and response (Proto_Switch.cpp:49-55).
CommandsAreAccepted ==
    \A t \in Signed : client[t].state = "C" ~> given[t] # {} \/ Stranded(t)
=============================================================================
