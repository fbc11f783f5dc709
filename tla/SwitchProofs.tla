--------------------------- MODULE SwitchProofs ----------------------------
(* The switch protocol keeps its promise, for every set of transactions,   *)
(* every number of switches and restarts, and whatever is lost, delayed,   *)
(* reordered or sent again.                                                *)
EXTENDS Switch, TLAPS

-----------------------------------------------------------------------------
(* The inductive invariant.  TypeOK is not enough: that a command is        *)
(* executed once rests on what the client, the packets under way, the       *)
(* server's transactions and what it did have to do with each other.        *)

\* The client has chosen a response, and keeps it.
Committed(t) == client[t].state \in {"C", "E"}

\* Every copy of packet C has the response that the client has chosen.
CommandsHeld == \A p \in net : p.type = "C" =>
    Committed(p.t) /\ p.response = client[p.t].response /\ p.value = Want[p.t]

\* A transaction that was executed can be found again only as done: one that
\* the server opens anew has another response.
ExecutedIsDone == \A t \in Transactions : given[t] # {} =>
    /\ Committed(t)
    /\ Known(t) /\ trans[t].response = client[t].response => trans[t].done

\* What is done was executed, with the response of the client.
DoneIsExecuted == \A t \in DOMAIN trans : trans[t].done =>
    given[t] # {} /\ trans[t].response = client[t].response

\* A command always gives the value that it wants, a switch that is not there none.
GivenIsTrue == \A t \in Transactions :
    /\ Target[t] > SwCount => given[t] \subseteq {Invalid}
    /\ Target[t] <= SwCount /\ Want[t] # Query => given[t] \subseteq {Want[t]}

\* Packet D has a value that the server gave.
ResultsGiven == \A p \in net : p.type = "D" => p.value \in given[p.t]

SwInv ==
    /\ TypeOK /\ CommandsHeld /\ ExecutedIsDone
    /\ DoneIsExecuted /\ GivenIsTrue /\ ResultsGiven

-----------------------------------------------------------------------------
(* Types *)

ClientStates == [state : {"new", "A", "C", "E"}, response : 0..(fresh - 1),
                 result : 0..MaxValue \cup {Invalid}]
TransStates == [response : 1..(fresh - 1), timeout : 0..(now + Keep), done : BOOLEAN]

LEMMA ConstantsType ==
    /\ SwCount \in Nat /\ MaxValue \in Nat /\ Keep \in Nat /\ MaxNow \in Nat /\ MaxBoots \in Nat
    /\ \A t \in Transactions : /\ Target[t] \in 1..MaxValue
                               /\ Want[t] \in 0..MaxValue \cup {Query}
    /\ Query = -1 /\ Invalid = -2
BY SwitchAssumption DEF Query, Invalid

\* The parts of TypeOK in the words of the proofs.
LEMMA TypeParts ==
    ASSUME TypeOK
    PROVE  /\ now \in Nat /\ fresh \in Nat /\ fresh >= 1
           /\ \A t \in DOMAIN trans : t \in Signed /\ t \in Transactions /\ trans[t] \in TransStates
           /\ \A t \in Transactions : client[t] \in ClientStates
           /\ \A p \in net : p \in Packets /\ p.t \in Transactions
BY SwitchAssumption DEF TypeOK, ClientStates, TransStates, Packets

\* Later, and with more responses given out, the old types still hold.
LEMMA TypesGrow ==
    ASSUME NEW f \in Nat, NEW g \in Nat, f <= g, NEW m \in Nat, NEW n \in Nat, m <= n
    PROVE  0..(f - 1) \subseteq 0..(g - 1) /\ 1..(f - 1) \subseteq 1..(g - 1) /\ 0..m \subseteq 0..n
OBVIOUS

LEMMA InitInv == Init => SwInv
<1> SUFFICES ASSUME Init PROVE SwInv
  OBVIOUS
<1>1. TypeOK
  <2>1. now \in 0..MaxNow /\ boots \in 0..MaxBoots /\ fresh \in Nat \ {0}
    BY ConstantsType DEF Init
  <2>2. sw \in [1..SwCount -> 0..MaxValue]
    BY ConstantsType DEF Init
  <2>3. DOMAIN trans = {} /\ trans = [t \in {} |-> 0]
    BY DEF Init
  <2>4. trans \in [DOMAIN trans -> TransStates] /\ DOMAIN trans \subseteq Signed
    BY <2>3
  <2>5. client \in [Transactions -> ClientStates]
    BY DEF Init, ClientStates
  <2> QED
    BY <2>1, <2>2, <2>4, <2>5 DEF TypeOK, Init, ClientStates, TransStates
<1>2. DOMAIN trans = {} /\ net = {} /\ \A t \in Transactions : given[t] = {}
  BY DEF Init
<1> QED
  BY <1>1, <1>2
  DEF SwInv, CommandsHeld, ExecutedIsDone, DoneIsExecuted, GivenIsTrue, ResultsGiven

-----------------------------------------------------------------------------
(* Steps.  What an action has to show of the packets: those that were under *)
(* way are still right, and so is one that it adds.                         *)

PacketOK(p) ==
    /\ p \in Packets
    /\ p.type = "C" => /\ Committed(p.t)
                       /\ p.response = client[p.t].response /\ p.value = Want[p.t]
    /\ p.type = "D" => p.value \in given[p.t]

LEMMA NetIsOK ==
    TypeOK /\ CommandsHeld /\ ResultsGiven <=> TypeOK /\ \A p \in net : PacketOK(p)
BY DEF TypeOK, CommandsHeld, ResultsGiven, PacketOK

\* Packets stay packets when more responses are given out.
LEMMA PacketsGrow ==
    ASSUME NEW f \in Nat, NEW g \in Nat, f <= g,
           NEW p \in [type : {"A", "B", "C", "D"}, t : Transactions,
                      response : 0..(f - 1), value : 0..MaxValue \cup {Query, Invalid}]
    PROVE  p \in [type : {"A", "B", "C", "D"}, t : Transactions,
                  response : 0..(g - 1), value : 0..MaxValue \cup {Query, Invalid}]
BY TypesGrow

\* So do the states of the client and of the server, the clock running.
LEMMA StatesGrow ==
    ASSUME NEW f \in Nat, NEW g \in Nat, f <= g, NEW m \in Nat, NEW n \in Nat, m <= n
    PROVE  /\ [response : 1..(f - 1), timeout : 0..m, done : BOOLEAN]
              \subseteq [response : 1..(g - 1), timeout : 0..n, done : BOOLEAN]
           /\ [state : {"new", "A", "C", "E"}, response : 0..(f - 1),
               result : 0..MaxValue \cup {Invalid}]
              \subseteq [state : {"new", "A", "C", "E"}, response : 0..(g - 1),
                         result : 0..MaxValue \cup {Invalid}]
BY TypesGrow

LEMMA PacketType ==
    ASSUME NEW y \in {"A", "B", "C", "D"}, NEW t \in Transactions, NEW r \in 0..(fresh - 1),
           NEW v \in 0..MaxValue \cup {Query, Invalid}
    PROVE  [type |-> y, t |-> t, response |-> r, value |-> v] \in Packets
BY DEF Packets

LEMMA StartInv ==
    ASSUME SwInv, NEW t \in Transactions, Start(t)
    PROVE  SwInv'
<1>1. /\ client[t].state = "new" /\ client' = [client EXCEPT ![t].state = "A"]
      /\ net' = net \cup {PacketA(t)}
      /\ UNCHANGED <<now, sw, trans, fresh, boots, given>>
  BY DEF Start
<1>2. TypeOK
  BY DEF SwInv
<1>3. /\ client \in [Transactions -> ClientStates]
      /\ client' \in [Transactions -> ClientStates]
      /\ \A u \in Transactions : u # t => client'[u] = client[u]
      /\ client'[t].response = client[t].response
  BY <1>1, <1>2 DEF TypeOK, ClientStates
<1>4. PacketA(t) \in Packets /\ PacketA(t).type = "A"
  <2>1. 0 \in 0..(fresh - 1)
    BY <1>2, TypeParts
  <2> QED
    BY <2>1, PacketType DEF PacketA
<1>5. TypeOK'
  BY <1>1, <1>2, <1>3, <1>4 DEF TypeOK, Packets, ClientStates
<1>6. \A u \in Transactions : Committed(u) => u # t
  BY <1>1 DEF Committed
<1>7. CommandsHeld'
  <2> SUFFICES ASSUME NEW p \in net', p.type = "C"
               PROVE  /\ Committed(p.t)' /\ p.response = client'[p.t].response
                      /\ p.value = Want[p.t]
    BY DEF CommandsHeld
  <2>1. p \in net
    BY <1>1, <1>4
  <2>2. Committed(p.t) /\ p.response = client[p.t].response /\ p.value = Want[p.t]
    BY <2>1 DEF SwInv, CommandsHeld
  <2>3. p.t \in Transactions
    BY <1>2, <2>1, TypeParts
  <2> QED
    BY <1>3, <1>6, <2>2, <2>3 DEF Committed
<1>8. ExecutedIsDone' /\ DoneIsExecuted' /\ GivenIsTrue'
  <2>1. ExecutedIsDone'
    BY <1>1, <1>3, <1>6 DEF SwInv, ExecutedIsDone, Committed, Known
  <2>2. DoneIsExecuted'
    BY <1>1, <1>2, <1>3, TypeParts DEF SwInv, DoneIsExecuted
  <2>3. GivenIsTrue'
    BY <1>1 DEF SwInv, GivenIsTrue
  <2> QED
    BY <2>1, <2>2, <2>3
<1>9. ResultsGiven'
  BY <1>1, <1>4 DEF SwInv, ResultsGiven
<1> QED
  BY <1>5, <1>7, <1>8, <1>9 DEF SwInv


\* A step that only sends, or forgets, packets.
LEMMA NetStepInv ==
    ASSUME SwInv, UNCHANGED <<now, sw, trans, fresh, client, boots, given>>,
           \A p \in net' : p \in net \/ PacketOK(p)
    PROVE  SwInv'
<1>1. \A p \in net' : PacketOK(p)
  BY NetIsOK DEF SwInv
<1>2. TypeOK'
  BY <1>1 DEF SwInv, TypeOK, PacketOK, Packets
<1>3. CommandsHeld' /\ ResultsGiven'
  BY <1>1 DEF CommandsHeld, ResultsGiven, PacketOK, Committed
<1>4. ExecutedIsDone' /\ DoneIsExecuted' /\ GivenIsTrue'
  BY DEF SwInv, ExecutedIsDone, DoneIsExecuted, GivenIsTrue, Committed, Known
<1> QED
  BY <1>2, <1>3, <1>4 DEF SwInv

LEMMA TimeoutInv ==
    ASSUME SwInv, NEW t \in Transactions, Timeout(t)
    PROVE  SwInv'
<1>1. /\ fresh \in Nat /\ fresh >= 1
      /\ client[t].response \in 0..(fresh - 1)
      /\ Want[t] \in 0..MaxValue \cup {Query, Invalid}
  BY TypeParts, ConstantsType DEF SwInv, ClientStates
<1>2. PacketOK(PacketA(t))
  BY <1>1, PacketType DEF PacketA, PacketOK
<1>3. ASSUME client[t].state = "C" PROVE PacketOK(PacketC(t, client[t].response))
  BY <1>1, <1>3, PacketType DEF PacketC, PacketOK, Committed
<1>4. \A p \in net' : p \in net \/ PacketOK(p)
  BY <1>2, <1>3 DEF Timeout
<1> QED
  BY <1>4, NetStepInv DEF Timeout

LEMMA GoneInv ==
    ASSUME SwInv, NEW p \in net, Gone(p)
    PROVE  SwInv'
<1>1. \A q \in net' : q \in net
  BY DEF Gone
<1> QED
  BY <1>1, NetStepInv DEF Gone

LEMMA TickInv ==
    ASSUME SwInv, Tick
    PROVE  SwInv'
<1>1. now' = now + 1 /\ now < MaxNow /\ UNCHANGED <<sw, trans, fresh, client, net, boots, given>>
  BY DEF Tick
<1>2. now \in Nat /\ fresh \in Nat /\ now' \in 0..MaxNow
      /\ now + Keep \in Nat /\ now' + Keep \in Nat /\ now + Keep <= now' + Keep
  BY <1>1, ConstantsType, TypeParts DEF SwInv
<1>3. trans' \in [DOMAIN trans' -> TransStates']
  <2>1. TransStates \subseteq TransStates'
    BY <1>1, <1>2, StatesGrow DEF TransStates
  <2>2. trans \in [DOMAIN trans -> TransStates]
    BY DEF SwInv, TypeOK, TransStates
  <2> QED
    BY <1>1, <2>1, <2>2
<1>4. TypeOK'
  BY <1>1, <1>2, <1>3 DEF SwInv, TypeOK, TransStates, Packets
<1>5. /\ CommandsHeld' /\ ResultsGiven'
      /\ ExecutedIsDone' /\ DoneIsExecuted' /\ GivenIsTrue'
  BY <1>1 DEF SwInv, CommandsHeld, ResultsGiven, ExecutedIsDone, DoneIsExecuted, GivenIsTrue,
              Committed, Known
<1> QED
  BY <1>4, <1>5 DEF SwInv

\* The server forgets transactions: all of them, or some.
LEMMA ForgetsInv ==
    ASSUME SwInv, UNCHANGED <<now, fresh, client, net, given>>,
           sw' \in [1..SwCount -> 0..MaxValue], boots' \in 0..MaxBoots,
           NEW kept \in SUBSET DOMAIN trans, trans' = [t \in kept |-> trans[t]]
    PROVE  SwInv'
<1>1. /\ DOMAIN trans' = kept
      /\ \A t \in kept : t \in DOMAIN trans /\ trans'[t] = trans[t]
  OBVIOUS
<1>2. trans' \in [DOMAIN trans' -> TransStates] /\ DOMAIN trans' \subseteq Signed
  BY <1>1, TypeParts DEF SwInv
<1>3. TypeOK'
  BY <1>2 DEF SwInv, TypeOK, TransStates, Packets
<1>4. CommandsHeld' /\ ResultsGiven' /\ GivenIsTrue'
  BY DEF SwInv, CommandsHeld, ResultsGiven, GivenIsTrue, Committed
<1>5. ExecutedIsDone'
  BY <1>1 DEF SwInv, ExecutedIsDone, Committed, Known
<1>6. DoneIsExecuted'
  BY <1>1 DEF SwInv, DoneIsExecuted
<1> QED
  BY <1>3, <1>4, <1>5, <1>6 DEF SwInv

LEMMA ProcessTimeoutsInv ==
    ASSUME SwInv, ProcessTimeouts
    PROVE  SwInv'
<1>1. DOMAIN trans \ Expired \in SUBSET DOMAIN trans
  OBVIOUS
<1>2. sw' \in [1..SwCount -> 0..MaxValue] /\ boots' \in 0..MaxBoots
  BY DEF ProcessTimeouts, SwInv, TypeOK
<1> QED
  BY <1>1, <1>2, ForgetsInv DEF ProcessTimeouts

LEMMA RebootInv ==
    ASSUME SwInv, Reboot
    PROVE  SwInv'
<1>1. sw' \in [1..SwCount -> 0..MaxValue] /\ boots' \in 0..MaxBoots
  BY ConstantsType DEF Reboot, SwInv, TypeOK
<1>2. {} \in SUBSET DOMAIN trans /\ trans' = [t \in {} |-> trans[t]]
  BY DEF Reboot
<1> QED
  BY <1>1, <1>2, ForgetsInv DEF Reboot

\* The client takes the first response: nothing was executed before.
LEMMA RxBInv ==
    ASSUME SwInv, NEW p \in net, RxB(p), UNCHANGED <<now, sw, trans, fresh, boots, given>>
    PROVE  SwInv'
<1> DEFINE t == p.t
<1>1. /\ p.type = "B" /\ client[t].state = "A"
      /\ client' = [client EXCEPT ![t].state = "C", ![t].response = p.response]
      /\ net' = net \cup {PacketC(t, p.response)}
  BY DEF RxB
<1>2. t \in Transactions /\ p.response \in 0..(fresh - 1)
  BY TypeParts DEF SwInv, Packets
<1>3. /\ client' \in [Transactions -> ClientStates]
      /\ \A u \in Transactions : u # t => client'[u] = client[u]
      /\ client'[t].state = "C" /\ client'[t].response = p.response
  BY <1>1, <1>2 DEF SwInv, TypeOK, ClientStates
<1>4. /\ \A u \in Transactions : Committed(u) => u # t
      /\ given[t] = {}
      /\ \A u \in DOMAIN trans : trans[u].done => u # t
  BY <1>1, <1>2 DEF SwInv, Committed, ExecutedIsDone, DoneIsExecuted
<1>5. PacketC(t, p.response) \in Packets
  BY <1>2, PacketType, ConstantsType DEF PacketC
<1>6. TypeOK'
  BY <1>1, <1>3, <1>5 DEF SwInv, TypeOK, ClientStates, Packets
<1>7. CommandsHeld'
  <2> SUFFICES ASSUME NEW q \in net', q.type = "C"
               PROVE  /\ Committed(q.t)' /\ q.response = client'[q.t].response
                      /\ q.value = Want[q.t]
    BY DEF CommandsHeld
  <2>1. CASE q \in net
    <3>1. Committed(q.t) /\ q.response = client[q.t].response /\ q.value = Want[q.t]
      BY <2>1 DEF SwInv, CommandsHeld
    <3>2. q.t \in Transactions
      BY <2>1, TypeParts DEF SwInv
    <3> QED
      BY <1>3, <1>4, <3>1, <3>2 DEF Committed
  <2>2. CASE q = PacketC(t, p.response)
    BY <1>3, <2>2 DEF PacketC, Committed
  <2> QED
    BY <1>1, <2>1, <2>2
<1>8. ResultsGiven'
  BY <1>1 DEF SwInv, ResultsGiven, PacketC
<1>9. ExecutedIsDone'
  BY <1>2, <1>3, <1>4 DEF SwInv, ExecutedIsDone, Committed, Known
<1>10. DoneIsExecuted' /\ GivenIsTrue'
  BY <1>3, <1>4, TypeParts DEF SwInv, DoneIsExecuted, GivenIsTrue
<1> QED
  BY <1>6, <1>7, <1>8, <1>9, <1>10 DEF SwInv


LEMMA RxDInv ==
    ASSUME SwInv, NEW p \in net, RxD(p), UNCHANGED <<now, sw, trans, fresh, boots, given>>
    PROVE  SwInv'
<1> DEFINE t == p.t
<1>1. /\ p.type = "D" /\ net' = net
      /\ client' = [u \in Transactions |->
                      IF Concludes(u, p)
                      THEN [client[u] EXCEPT !.state = "E", !.result = p.value]
                      ELSE client[u]]
  BY DEF RxD
<1>2. t \in Transactions /\ p.value \in given[t] /\ p.value \in 0..MaxValue \cup {Invalid}
  BY <1>1, TypeParts DEF SwInv, TypeOK, ResultsGiven
<1>3. /\ client' \in [Transactions -> ClientStates]
      /\ \A u \in Transactions : /\ client'[u].response = client[u].response
                                 /\ Committed(u)' <=> Committed(u)
  BY <1>1, <1>2 DEF SwInv, TypeOK, ClientStates, Concludes, Committed
<1>4. TypeOK'
  BY <1>1, <1>3 DEF SwInv, TypeOK, ClientStates, Packets
<1>5. CommandsHeld' /\ ResultsGiven' /\ ExecutedIsDone' /\ DoneIsExecuted' /\ GivenIsTrue'
  <2>1. CommandsHeld'
    BY <1>1, <1>3, TypeParts DEF SwInv, CommandsHeld
  <2>2. ExecutedIsDone'
    BY <1>1, <1>3 DEF SwInv, ExecutedIsDone, Known
  <2>3. DoneIsExecuted'
    BY <1>1, <1>3, TypeParts DEF SwInv, DoneIsExecuted
  <2> QED
    BY <1>1, <2>1, <2>2, <2>3 DEF SwInv, ResultsGiven, GivenIsTrue
<1> QED
  BY <1>4, <1>5 DEF SwInv

\* SetTrans changes one transaction and leaves the others.
LEMMA SetTransSets ==
    ASSUME NEW t, NEW x, SetTrans(t, x)
    PROVE  /\ DOMAIN trans' = DOMAIN trans \cup {t}
           /\ trans'[t] = x
           /\ \A u \in DOMAIN trans : u # t => trans'[u] = trans[u]
BY DEF SetTrans

LEMMA HandleAInv ==
    ASSUME SwInv, NEW p \in net, p.t \in Signed, HandleA(p), UNCHANGED <<now, client, boots>>
    PROVE  SwInv'
<1> DEFINE t == p.t
<1>1. t \in Transactions /\ t \in Signed /\ fresh \in Nat /\ fresh >= 1 /\ now \in Nat
  BY TypeParts DEF SwInv
<1>2. CASE Known(t)
  <2>1. /\ UNCHANGED <<trans, fresh, sw, given>>
        /\ \A q \in net' : q \in net \/ q = PacketB(t, trans[t].response)
    BY <1>2 DEF HandleA
  <2>2. trans[t].response \in 0..(fresh - 1)
    <3>1. trans[t].response \in 1..(fresh - 1)
      BY <1>2, TypeParts DEF SwInv, Known, TransStates
    <3> QED
      BY <1>1, <3>1
  <2>3. PacketOK(PacketB(t, trans[t].response))
    BY <1>1, <2>2, PacketType DEF PacketB, PacketOK
  <2> QED
    BY <2>1, <2>3, NetStepInv
<1>3. CASE ~Known(t)
  <2>1. /\ SetTrans(t, Opened(fresh)) /\ fresh' = fresh + 1 /\ UNCHANGED <<sw, given>>
        /\ net' = net \cup {PacketB(t, fresh)}
    BY <1>3 DEF HandleA
  <2> DEFINE x == Opened(fresh)
  <2>2. /\ DOMAIN trans' = DOMAIN trans \cup {t} /\ trans'[t] = x
        /\ \A u \in DOMAIN trans : u # t /\ trans'[u] = trans[u]
    BY <1>3, <2>1, SetTransSets DEF Known
  <2>3. fresh' \in Nat \ {0} /\ fresh <= fresh' /\ now + Keep \in Nat /\ fresh \in 0..(fresh' - 1)
    BY <1>1, <2>1, ConstantsType
  <2>4. x \in TransStates' /\ x.response = fresh /\ ~x.done
    BY <1>1, <2>1, <2>3, ConstantsType DEF TransStates, Opened
  <2> HIDE DEF x
  <2>5. /\ TransStates \subseteq TransStates' /\ ClientStates \subseteq ClientStates'
    BY <1>1, <2>1, <2>3, StatesGrow DEF TransStates, ClientStates
  <2>6. Packets \subseteq Packets'
    BY <1>1, <2>3, PacketsGrow DEF Packets
  <2>7. PacketB(t, fresh) \in Packets'
    BY <1>1, <2>3 DEF PacketB, Packets
  <2>8. TypeOK'
    <3>1. trans' \in [DOMAIN trans' -> TransStates'] /\ DOMAIN trans' \subseteq Signed
      <4>1. \A u \in DOMAIN trans' : u \in Signed /\ trans'[u] \in TransStates'
        BY <1>1, <2>2, <2>4, <2>5, TypeParts DEF SwInv
      <4>2. trans' = [u \in DOMAIN trans' |-> trans'[u]]
        BY <2>1 DEF SetTrans
      <4> QED
        BY <4>1, <4>2
    <3>2. client' \in [Transactions -> ClientStates']
      BY <2>5 DEF SwInv, TypeOK, ClientStates
    <3>3. net' \subseteq Packets'
      BY <2>1, <2>6, <2>7 DEF SwInv, TypeOK
    <3> QED
      BY <2>1, <2>3, <3>1, <3>2, <3>3 DEF SwInv, TypeOK, TransStates, ClientStates
  <2>9. CommandsHeld' /\ ResultsGiven'
    BY <2>1 DEF SwInv, CommandsHeld, ResultsGiven, Committed, PacketB
  <2>10. ExecutedIsDone'
    <3>1. client[t].response # fresh
      BY <1>1, TypeParts DEF SwInv, ClientStates
    <3> QED
      BY <2>1, <2>2, <2>4, <3>1 DEF SwInv, ExecutedIsDone, Committed, Known
  <2>11. DoneIsExecuted'
    BY <2>1, <2>2, <2>4 DEF SwInv, DoneIsExecuted
  <2>12. GivenIsTrue'
    BY <2>1 DEF SwInv, GivenIsTrue
  <2> QED
    BY <2>8, <2>9, <2>10, <2>11, <2>12 DEF SwInv
<1> QED
  BY <1>2, <1>3

\* What packet C finds: it is of the client's response, and its transaction is
\* done if and only if it was executed.
LEMMA CommandFinds ==
    ASSUME SwInv, NEW p \in net, p.t \in Signed, p.type = "C", Parses(p), Accepts(p)
    PROVE  /\ p.t \in Transactions /\ p.t \in DOMAIN trans
           /\ trans[p.t] \in TransStates /\ trans[p.t].response = p.response
           /\ Committed(p.t) /\ client[p.t].response = p.response
           /\ p.value = Want[p.t]
           /\ trans[p.t].done <=> given[p.t] # {}
           /\ p.value # Query => p.value \in 1..MaxValue
           /\ Answer(p) \in 0..MaxValue \cup {Invalid}
           /\ Target[p.t] > SwCount => Answer(p) = Invalid
           /\ Target[p.t] <= SwCount /\ Want[p.t] # Query => Answer(p) = Want[p.t]
<1>1. p.t \in Transactions /\ p.t \in DOMAIN trans /\ trans[p.t] \in TransStates
      /\ trans[p.t].response = p.response
  BY TypeParts DEF SwInv, Accepts, Known
<1>2. Committed(p.t) /\ client[p.t].response = p.response /\ p.value = Want[p.t]
  BY DEF SwInv, CommandsHeld
<1>3. trans[p.t].done <=> given[p.t] # {}
  BY <1>1, <1>2 DEF SwInv, ExecutedIsDone, DoneIsExecuted, Known
<1>4. p.value # Query => p.value \in 1..MaxValue
  BY DEF Parses
<1>5. Target[p.t] <= SwCount => sw[Target[p.t]] \in 0..MaxValue
  BY <1>1, ConstantsType DEF SwInv, TypeOK
<1>6. Answer(p) \in 0..MaxValue \cup {Invalid}
  BY <1>1, <1>4, <1>5, ConstantsType DEF Answer
<1>7. Target[p.t] \in Nat /\ SwCount \in Nat
  BY <1>1, ConstantsType
<1>8. /\ Target[p.t] > SwCount => Answer(p) = Invalid
      /\ Target[p.t] <= SwCount /\ Want[p.t] # Query => Answer(p) = Want[p.t]
  BY <1>2, <1>7 DEF Answer
<1> QED
  BY <1>1, <1>2, <1>3, <1>4, <1>6, <1>8

LEMMA HandleCInv ==
    ASSUME SwInv, NEW p \in net, p.t \in Signed, Parses(p), HandleC(p),
           UNCHANGED <<now, client, boots>>
    PROVE  SwInv'
<1> DEFINE t == p.t
           a == Answer(p)
           x == [trans[t] EXCEPT !.done = TRUE, !.timeout = now + Keep]
<1>1. /\ p.type = "C" /\ Accepts(p) /\ SetTrans(t, x)
      /\ sw' = IF Moves(p) THEN [sw EXCEPT ![Target[t]] = p.value] ELSE sw
      /\ net' = net \cup {PacketD(t, p.response, a)}
      /\ given' = [given EXCEPT ![t] = @ \cup {a}]
      /\ fresh' = fresh
  BY DEF HandleC
<1>2. /\ t \in Transactions /\ t \in DOMAIN trans
      /\ trans[t] \in TransStates /\ trans[t].response = p.response
      /\ Committed(t) /\ client[t].response = p.response
      /\ p.value # Query => p.value \in 1..MaxValue
      /\ a \in 0..MaxValue \cup {Invalid}
      /\ Target[t] > SwCount => a = Invalid
      /\ Target[t] <= SwCount /\ Want[t] # Query => a = Want[t]
  BY <1>1, CommandFinds
<1>3. x \in TransStates /\ x.response = p.response /\ x.done
  <2>1. now + Keep \in 0..(now + Keep)
    BY TypeParts, ConstantsType DEF SwInv
  <2> QED
    BY <1>2, <2>1 DEF TransStates
<1> HIDE DEF x, a
<1>4. /\ DOMAIN trans' = DOMAIN trans /\ trans'[t] = x
      /\ \A u \in DOMAIN trans : u # t => trans'[u] = trans[u]
      /\ \A u \in DOMAIN trans : trans'[u] \in TransStates
      /\ trans' = [u \in DOMAIN trans' |-> trans'[u]]
  <2>1. trans' = [u \in DOMAIN trans' |-> trans'[u]]
    BY <1>1 DEF SetTrans
  <2>2. /\ DOMAIN trans' = DOMAIN trans \cup {t} /\ trans'[t] = x
        /\ \A u \in DOMAIN trans : u # t => trans'[u] = trans[u]
    BY <1>1, SetTransSets
  <2>3. \A u \in DOMAIN trans : trans[u] \in TransStates
    BY TypeParts DEF SwInv
  <2>4. DOMAIN trans' = DOMAIN trans
    BY <1>2, <2>2
  <2>5. \A u \in DOMAIN trans : trans'[u] \in TransStates
    BY <1>3, <2>2, <2>3
  <2> QED
    BY <2>1, <2>2, <2>4, <2>5
<1>5. /\ given' \in [Transactions -> SUBSET (0..MaxValue \cup {Invalid})]
      /\ given'[t] = given[t] \cup {a}
      /\ \A u \in Transactions : u # t => given'[u] = given[u]
  BY <1>1, <1>2 DEF SwInv, TypeOK
<1>6. sw' \in [1..SwCount -> 0..MaxValue]
  <2>1. Moves(p) => p.value \in 0..MaxValue
    BY <1>2 DEF Moves
  <2> QED
    BY <1>1, <2>1 DEF SwInv, TypeOK
<1>7. PacketD(t, p.response, a) \in Packets
  <2>1. p.response \in 0..(fresh - 1)
    BY TypeParts DEF SwInv, Packets
  <2> QED
    BY <1>2, <2>1, PacketType DEF PacketD
<1>8. TypeOK'
  BY <1>1, <1>4, <1>5, <1>6, <1>7 DEF SwInv, TypeOK, TransStates, Packets
<1>9. CommandsHeld'
  BY <1>1 DEF SwInv, CommandsHeld, Committed, PacketD
<1>10. ExecutedIsDone'
  BY <1>2, <1>3, <1>4, <1>5 DEF SwInv, ExecutedIsDone, Committed, Known
<1>11. DoneIsExecuted'
  BY <1>2, <1>3, <1>4, <1>5, TypeParts DEF SwInv, DoneIsExecuted
<1>12. GivenIsTrue'
  BY <1>2, <1>5 DEF SwInv, GivenIsTrue
<1>13. ResultsGiven'
  BY <1>1, <1>2, <1>5, TypeParts DEF SwInv, ResultsGiven, PacketD
<1> QED
  BY <1>8, <1>9, <1>10, <1>11, <1>12, <1>13 DEF SwInv

LEMMA NextInv == SwInv /\ [Next]_vars => SwInv'
<1> SUFFICES ASSUME SwInv, [Next]_vars PROVE SwInv'
  OBVIOUS
<1>1. ASSUME NEW t \in Transactions, Start(t) \/ Timeout(t) PROVE SwInv'
  BY <1>1, StartInv, TimeoutInv
<1>2. ASSUME NEW p \in net, ServerReceives(p) PROVE SwInv'
  BY <1>2, HandleAInv, HandleCInv DEF ServerReceives, Heeds
<1>3. ASSUME NEW p \in net, ClientReceives(p) PROVE SwInv'
  BY <1>3, RxBInv, RxDInv DEF ClientReceives
<1>4. ASSUME NEW p \in net, Gone(p) PROVE SwInv'
  BY <1>4, GoneInv
<1>5. CASE ProcessTimeouts \/ Reboot \/ Tick
  BY <1>5, ProcessTimeoutsInv, RebootInv, TickInv
<1>6. CASE UNCHANGED vars
  BY <1>6, NetStepInv DEF vars
<1> QED
  BY <1>1, <1>2, <1>3, <1>4, <1>5, <1>6 DEF Next

-----------------------------------------------------------------------------
(* Theorems *)

LEMMA AlwaysSwInv == Spec => []SwInv
BY InitInv, NextInv, PTL DEF Spec

\* Types: in particular the server opens transactions only for stations with a
\* key (Proto_Switch.cpp, handle()), and the results that clients are given are
\* positions or none.
THEOREM SwitchTypeCorrect == Spec => []TypeOK
<1>1. SwInv => TypeOK
  BY DEF SwInv
<1> QED
  BY <1>1, AlwaysSwInv, PTL


-----------------------------------------------------------------------------
(* The refinement.  What the users of the protocol see of its state.        *)

StatusBar == [t \in Transactions |->
                IF client[t].state = "new" THEN "idle"
                ELSE IF client[t].state = "E" THEN "ended" ELSE "asked"]
ResultBar == [t \in Transactions |-> client[t].result]

\* A step that the users do not see.
Unseen == sw' = sw /\ given' = given /\ StatusBar' = StatusBar /\ ResultBar' = ResultBar

LEMMA UnseenIsStutter ==
    ASSUME Unseen
    PROVE  UNCHANGED Service!svars
BY DEF Unseen, Service!svars, StatusBar, ResultBar

LEMMA SameClient ==
    ASSUME client' = client
    PROVE  StatusBar' = StatusBar /\ ResultBar' = ResultBar
BY DEF StatusBar, ResultBar

LEMMA StartAsks ==
    ASSUME SwInv, NEW t \in Transactions, Start(t)
    PROVE  Service!Ask(t)
<1>1. /\ client[t].state = "new" /\ client' = [client EXCEPT ![t].state = "A"]
      /\ UNCHANGED <<sw, given>>
  BY DEF Start
<1>2. client \in [Transactions -> ClientStates]
  BY DEF SwInv, TypeOK, ClientStates
<1>3. /\ \A u \in Transactions : /\ client'[u].result = client[u].result
                                 /\ u # t => client'[u] = client[u]
      /\ client'[t].state = "A"
  BY <1>1, <1>2 DEF ClientStates
<1>4. ResultBar' = ResultBar
  BY <1>3 DEF ResultBar
<1>5. StatusBar[t] = "idle" /\ StatusBar' = [StatusBar EXCEPT ![t] = "asked"]
  BY <1>1, <1>3 DEF StatusBar
<1> QED
  BY <1>1, <1>4, <1>5 DEF Service!Ask, StatusBar, ResultBar

\* The client's step from packet A to packet C is its own affair.
LEMMA RxBUnseen ==
    ASSUME SwInv, NEW p \in net, RxB(p), UNCHANGED <<sw, given>>
    PROVE  Unseen
<1> DEFINE t == p.t
<1>1. /\ client[t].state = "A"
      /\ client' = [client EXCEPT ![t].state = "C", ![t].response = p.response]
  BY DEF RxB
<1>2. client \in [Transactions -> ClientStates] /\ t \in Transactions
  BY TypeParts DEF SwInv, TypeOK, ClientStates
<1>3. /\ \A u \in Transactions : /\ client'[u].result = client[u].result
                                 /\ u # t => client'[u] = client[u]
      /\ client'[t].state = "C"
  BY <1>1, <1>2 DEF ClientStates
<1>4. StatusBar' = StatusBar /\ ResultBar' = ResultBar
  BY <1>1, <1>3 DEF StatusBar, ResultBar
<1> QED
  BY <1>4 DEF Unseen

\* Packet D ends the transaction with a value that the server gave, or says
\* nothing new.
LEMMA RxDEnds ==
    ASSUME SwInv, NEW p \in net, RxD(p), UNCHANGED <<sw, given>>
    PROVE  Service!End(p.t) \/ Unseen
<1> DEFINE t == p.t
<1>1. /\ p.type = "D"
      /\ client' = [u \in Transactions |->
                      IF Concludes(u, p)
                      THEN [client[u] EXCEPT !.state = "E", !.result = p.value]
                      ELSE client[u]]
  BY DEF RxD
<1>2. t \in Transactions /\ p.value \in given[t] /\ client[t] \in ClientStates
  BY <1>1, TypeParts DEF SwInv, ResultsGiven
<1>3. CASE Concludes(t, p)
  <2>1. /\ client'[t].state = "E" /\ client'[t].result = p.value
        /\ \A u \in Transactions : u # t => client'[u] = client[u]
        /\ client[t].state = "C"
    BY <1>1, <1>2, <1>3 DEF Concludes, ClientStates
  <2>2. StatusBar[t] = "asked" /\ StatusBar' = [StatusBar EXCEPT ![t] = "ended"]
    BY <1>2, <2>1 DEF StatusBar
  <2>3. ResultBar' = [ResultBar EXCEPT ![t] = p.value]
    BY <1>2, <2>1 DEF ResultBar
  <2> QED
    BY <1>2, <2>2, <2>3 DEF Service!End, StatusBar, ResultBar
<1>4. CASE ~Concludes(t, p)
  <2>1. \A u \in Transactions : client'[u] = client[u]
    BY <1>1, <1>4 DEF Concludes
  <2> QED
    BY <2>1 DEF Unseen, StatusBar, ResultBar
<1> QED
  BY <1>3, <1>4

\* Packet C is an execution: the first of a command, one more of a query or of
\* a refusal; a command that comes again is answered only.
LEMMA HandleCExecutes ==
    ASSUME SwInv, NEW p \in net, p.t \in Signed, Parses(p), HandleC(p), client' = client
    PROVE  Service!Read(p.t) \/ Service!Move(p.t) \/ Service!Refuse(p.t) \/ Unseen
<1> DEFINE t == p.t
           a == Answer(p)
<1>1. /\ p.type = "C" /\ Accepts(p)
      /\ sw' = IF Moves(p) THEN [sw EXCEPT ![Target[t]] = p.value] ELSE sw
      /\ given' = [given EXCEPT ![t] = @ \cup {a}]
  BY DEF HandleC
<1>2. /\ t \in Transactions /\ t \in DOMAIN trans /\ Committed(t) /\ p.value = Want[t]
      /\ trans[t].done <=> given[t] # {}
      /\ Target[t] > SwCount => a = Invalid
      /\ Target[t] <= SwCount /\ Want[t] # Query => a = Want[t]
  BY <1>1, CommandFinds
<1>3. /\ StatusBar' = StatusBar /\ ResultBar' = ResultBar /\ StatusBar[t] # "idle"
  BY <1>2, SameClient DEF StatusBar, Committed
<1>4. given \in [Transactions -> SUBSET (0..MaxValue \cup {Invalid})]
  BY DEF SwInv, TypeOK
<1>5. CASE Target[t] > SwCount
  <2>1. ~(Target[t] <= SwCount)
    BY <1>2, <1>5, ConstantsType
  <2>2. sw' = sw
    BY <1>1, <2>1 DEF Moves
  <2>3. given[t] \cup {a} = {Invalid}
    BY <1>2, <1>5 DEF SwInv, GivenIsTrue
  <2>4. given' = [given EXCEPT ![t] = {Invalid}]
    BY <1>1, <2>3
  <2>5. Service!Refuse(t)
    BY <1>3, <1>5, <2>2, <2>4 DEF Service!Refuse, StatusBar, ResultBar
  <2> QED
    BY <2>5
<1>6. CASE ~(Target[t] > SwCount) /\ Want[t] = Query
  <2>1. sw' = sw /\ a = sw[Target[t]]
    BY <1>1, <1>2, <1>6 DEF Moves, Answer
  <2>2. Target[t] <= SwCount
    BY <1>2, <1>6, ConstantsType
  <2>3. Service!Read(t)
    BY <1>1, <1>3, <1>6, <2>1, <2>2 DEF Service!Read, StatusBar, ResultBar
  <2> QED
    BY <2>3
<1>7. CASE ~(Target[t] > SwCount) /\ Want[t] # Query
  <2>1. Target[t] <= SwCount
    BY <1>2, <1>7, ConstantsType
  <2>2. a = Want[t] /\ given[t] \subseteq {Want[t]}
    BY <1>2, <1>7, <2>1 DEF SwInv, GivenIsTrue
  <2> HIDE DEF a
  <2>3. CASE trans[t].done
    <3>1. given[t] \cup {a} = given[t]
      BY <1>2, <2>2, <2>3
    <3>2. given' = given
      BY <1>1, <1>4, <3>1
    <3>3. sw' = sw
      BY <1>1, <2>3 DEF Moves
    <3> QED
      BY <1>3, <3>2, <3>3 DEF Unseen
  <2>4. CASE ~trans[t].done
    <3>1. given[t] = {} /\ Moves(p)
      BY <1>2, <1>7, <2>1, <2>4 DEF Moves
    <3>2. sw' = [sw EXCEPT ![Target[t]] = Want[t]]
      BY <1>1, <1>2, <3>1
    <3>3. given' = [given EXCEPT ![t] = {Want[t]}]
      BY <1>1, <2>2, <3>1
    <3>4. Service!Move(t)
      BY <1>3, <1>7, <2>1, <3>1, <3>2, <3>3 DEF Service!Move, StatusBar, ResultBar
    <3> QED
      BY <3>4
  <2> QED
    BY <2>3, <2>4
<1> QED
  BY <1>5, <1>6, <1>7

LEMMA StepIsService == SwInv /\ [Next]_vars => [Service!SwitchNext]_(Service!svars)
<1> SUFFICES ASSUME SwInv, [Next]_vars
             PROVE  Service!SwitchNext \/ UNCHANGED Service!svars
  OBVIOUS
<1>1. ASSUME NEW t \in Transactions, Start(t)
      PROVE  Service!SwitchNext
  BY <1>1, StartAsks DEF Service!SwitchNext
<1>2. ASSUME client' = client, sw' = sw, given' = given
      PROVE  UNCHANGED Service!svars
  BY <1>2, SameClient, UnseenIsStutter DEF Unseen
<1>3. ASSUME NEW t \in Transactions, Timeout(t)
      PROVE  UNCHANGED Service!svars
  BY <1>2, <1>3 DEF Timeout
<1>4. ASSUME NEW p \in net, ServerReceives(p)
      PROVE  Service!SwitchNext \/ UNCHANGED Service!svars
  <2>1. p.t \in Signed /\ Parses(p) /\ client' = client /\ p.t \in Transactions
    BY <1>4, TypeParts DEF ServerReceives, Heeds, SwInv
  <2>2. CASE HandleA(p)
    BY <1>2, <2>1, <2>2 DEF HandleA
  <2>3. CASE HandleC(p)
    <3>1. CASE Unseen
      BY <3>1, UnseenIsStutter
    <3>2. CASE Service!Read(p.t) \/ Service!Move(p.t) \/ Service!Refuse(p.t)
      BY <2>1, <3>2 DEF Service!SwitchNext
    <3> QED
      BY <2>1, <2>3, <3>1, <3>2, HandleCExecutes
  <2> QED
    BY <1>4, <2>2, <2>3 DEF ServerReceives
<1>5. ASSUME NEW p \in net, ClientReceives(p)
      PROVE  Service!SwitchNext \/ UNCHANGED Service!svars
  <2>1. UNCHANGED <<sw, given>> /\ p.t \in Transactions
    BY <1>5, TypeParts DEF ClientReceives, SwInv
  <2>2. CASE RxB(p)
    BY <2>1, <2>2, RxBUnseen, UnseenIsStutter
  <2>3. CASE RxD(p)
    BY <2>1, <2>3, RxDEnds, UnseenIsStutter DEF Service!SwitchNext
  <2> QED
    BY <1>5, <2>2, <2>3 DEF ClientReceives
<1>6. ASSUME NEW p \in net, Gone(p)
      PROVE  UNCHANGED Service!svars
  BY <1>2, <1>6 DEF Gone
<1>7. CASE ProcessTimeouts \/ Tick \/ UNCHANGED vars
  BY <1>2, <1>7 DEF ProcessTimeouts, Tick, vars
<1>8. CASE Reboot
  <2>1. StatusBar' = StatusBar /\ ResultBar' = ResultBar
    BY <1>8, SameClient DEF Reboot
  <2>2. Service!Restart
    BY <1>8, <2>1 DEF Reboot, Service!Restart, Service!Off, StatusBar, ResultBar
  <2> QED
    BY <2>2 DEF Service!SwitchNext
<1> QED
  BY <1>1, <1>3, <1>4, <1>5, <1>6, <1>7, <1>8 DEF Next

LEMMA InitIsService == Init => Service!SwitchInit
<1> SUFFICES ASSUME Init PROVE Service!SwitchInit
  OBVIOUS
<1>1. /\ StatusBar = [t \in Transactions |-> "idle"]
      /\ ResultBar = [t \in Transactions |-> Invalid]
  BY DEF Init, StatusBar, ResultBar
<1> QED
  BY <1>1 DEF Init, Service!SwitchInit, Service!Off, StatusBar, ResultBar

\* The protocol is a remote switch: in spite of retransmissions, copies that
\* come late, expiry and restarts of the server, a command is executed at most
\* once (Proto_Switch.cpp, "done"), and a transaction ends with a value that its
\* execution gave.
THEOREM ImplementsSwitch == Spec => SwitchService
BY AlwaysSwInv, InitIsService, StepIsService, PTL DEF Spec, SwitchService, Service!SwitchSpec

=============================================================================
