--------------------------- MODULE MeshRadioProofs --------------------------
(* What radio packets carry with them from station to station, and what it *)
(* makes of the table of neighbours.                                       *)
EXTENDS MeshProofs

\* A PacketFwd task of s holds a packet s made, or one it heard; in the latter
\* case without R it was heard from its source, with that RSSI.
FwdDirect(s, t) ==
    IF t.origin THEN t.pkt.from = s
    ELSE "R" \notin t.pkt.params =>
            <<t.pkt.from, s>> \in Hears /\ t.pkt.rssi = Rssi[<<t.pkt.from, s>>]

\* What s transmits without R it made itself.
TxDirect(s, e) == "R" \notin e.pkt.params => e.pkt.from = s

FwdqDirect == \A s \in Stations : \A i \in 1..Len(fwdq[s]) : FwdDirect(s, fwdq[s][i])
TxqDirect  == \A s \in Stations : \A e \in txq[s] : TxDirect(s, e)

-----------------------------------------------------------------------------
(* How the queues change *)

\* s puts e among its PacketTx tasks, others keep theirs.
Enqueue(s, e) == txq' = [txq EXCEPT ![s] = @ \cup {e}]

Transmit(s, e, R) ==
    /\ txq' = [txq EXCEPT ![s] = @ \ {e}]
    /\ fwdq' = [r \in Stations |->
                  IF r \in R
                  THEN Append(fwdq[r], [pkt    |-> Decode(e.pkt, Rssi[<<s, r>>]),
                                        origin |-> FALSE])
                  ELSE fwdq[r]]

\* Inside a station, PacketFwd tasks come from send() only; by radio, from Tx.
LEMMA FwdqSteps ==
    ASSUME TypeOK, [Next]_vars
    PROVE  \/ UNCHANGED fwdq
           \/ \E s \in Stations : QueueStep(s) \/ Reboot(s)
           \/ \E s \in Stations : \E e \in txq[s], R \in SUBSET Hearers(s) : Transmit(s, e, R)
<1>1. ASSUME NEW s \in Stations, AppSend(s) PROVE QueueStep(s)
  <2>1. PICK a \in Requests[s] : SendAll(s, <<a>>, fwdq[s])
    BY <1>1 DEF AppSend
  <2>2. a \in Requestables
    BY <2>1, RequestsAssumption
  <2> QED
    BY <1>1, <2>1, <2>2, AppStep DEF AppSend
<1>2. ASSUME NEW s \in Stations, Beacon(s) PROVE QueueStep(s)
  BY <1>2, AppStep, BeaconRequestType DEF Beacon
<1>3. ASSUME NEW s \in Stations, Route(s) PROVE QueueStep(s)
  BY <1>3, RouteType
<1>4. ASSUME NEW s \in Stations, Tx(s)
      PROVE  \E e \in txq[s], R \in SUBSET Hearers(s) : Transmit(s, e, R)
  BY <1>4 DEF Tx, Transmit
<1>5. ASSUME NEW s \in Stations, CleanRecvLog(s) \/ CleanNeigh(s) PROVE UNCHANGED fwdq
  BY <1>5 DEF CleanRecvLog, CleanNeigh
<1>6. Tick \/ UNCHANGED vars => UNCHANGED fwdq
  BY DEF Tick, vars
<1> QED
  BY <1>1, <1>2, <1>3, <1>4, <1>5, <1>6 DEF Next

\* A PacketTx task is made for a packet of the station, or for one it modified.
LEMMA TxqSteps ==
    ASSUME TypeOK, [Next]_vars
    PROVE  \/ UNCHANGED txq
           \/ \E s \in Stations : \E e \in txq[s] : txq' = [txq EXCEPT ![s] = @ \ {e}]
           \/ \E s \in Stations : txq' = [txq EXCEPT ![s] = {}]
           \/ \E s \in Stations :
                LET p == Head(fwdq[s]).pkt IN
                /\ fwdq[s] # <<>>
                /\ \/ Head(fwdq[s]).origin /\ Schedule(s, p)
                   \/ ~Head(fwdq[s]).origin /\ Schedule(s, Modified(s, p))
<1>1. ASSUME NEW s \in Stations, Route(s)
      PROVE  \/ UNCHANGED txq
             \/ LET p == Head(fwdq[s]).pkt IN
                /\ fwdq[s] # <<>>
                /\ \/ Head(fwdq[s]).origin /\ Schedule(s, p)
                   \/ ~Head(fwdq[s]).origin /\ Schedule(s, Modified(s, p))
  BY <1>1 DEF Route, RouteLocal, RouteOrigin, RouteDuplicate, RouteDestination, RouteDiffusion
<1>2. ASSUME NEW s \in Stations, Tx(s)
      PROVE  \E e \in txq[s] : txq' = [txq EXCEPT ![s] = @ \ {e}]
  BY <1>2 DEF Tx
<1>3. ASSUME NEW s \in Stations, Reboot(s) PROVE txq' = [txq EXCEPT ![s] = {}]
  BY <1>3 DEF Reboot
<1>4. ASSUME NEW s \in Stations, AppSend(s) \/ Beacon(s) \/ CleanRecvLog(s) \/ CleanNeigh(s)
      PROVE  UNCHANGED txq
  BY <1>4 DEF AppSend, Beacon, CleanRecvLog, CleanNeigh
<1>5. Tick \/ UNCHANGED vars => UNCHANGED txq
  BY DEF Tick, vars
<1> QED
  BY <1>1, <1>2, <1>3, <1>4, <1>5 DEF Next

-----------------------------------------------------------------------------
(* A neighbour is heard directly *)

\* A task appended by the radio: the packet was transmitted by the station it is
\* from, or has R.
LEMMA TransmitDirect ==
    ASSUME TypeOK, FwdqDirect, TxqDirect,
           NEW s \in Stations, NEW e \in txq[s], NEW R \in SUBSET Hearers(s),
           Transmit(s, e, R)
    PROVE  FwdqDirect'
<1>1. ASSUME NEW r \in Stations, NEW i \in 1..Len(fwdq'[r])
      PROVE  FwdDirect(r, fwdq'[r][i])
  <2>1. fwdq[r] \in Seq(FwdTasks) /\ e.pkt \in PacketType /\ TxDirect(s, e)
    BY DEF TypeOK, TxTasks, TxqDirect
  <2>2. CASE r \notin R
    <3>1. fwdq'[r] = fwdq[r]
      BY <2>2 DEF Transmit
    <3> QED
      BY <3>1, <1>1 DEF FwdqDirect
  <2>3. CASE r \in R
    <3> DEFINE t == [pkt |-> Decode(e.pkt, Rssi[<<s, r>>]), origin |-> FALSE]
    <3>1. fwdq'[r] = Append(fwdq[r], t)
      BY <2>3 DEF Transmit
    <3>2. /\ t.pkt.params = e.pkt.params /\ t.pkt.from = e.pkt.from
          /\ t.pkt.rssi = Rssi[<<s, r>>] /\ ~t.origin
      BY <2>1 DEF Decode, PacketType
    <3>3. FwdDirect(r, t)
      BY <2>1, <2>3, <3>2 DEF FwdDirect, TxDirect, Hearers
    <3> HIDE DEF t
    <3>4. fwdq'[r][i] = t \/ (i \in 1..Len(fwdq[r]) /\ fwdq'[r][i] = fwdq[r][i])
      BY <2>1, <3>1, <1>1, AppendProperties
    <3> QED
      BY <3>3, <3>4 DEF FwdqDirect
  <2> QED
    BY <2>2, <2>3
<1> QED
  BY <1>1 DEF FwdqDirect

LEMMA FwdqDirectStep ==
    ASSUME TypeOK, FwdqDirect, TxqDirect, [Next]_vars
    PROVE  FwdqDirect'
<1>1. CASE UNCHANGED fwdq
  BY <1>1 DEF FwdqDirect
<1>2. ASSUME NEW s \in Stations, QueueStep(s) PROVE FwdqDirect'
  <2>1. ASSUME NEW i \in 1..Len(fwdq'[s]) PROVE FwdDirect(s, fwdq'[s][i])
    BY <1>2, <2>1 DEF QueueStep, FwdqDirect, FwdDirect
  <2> QED
    BY <1>2, <2>1 DEF QueueStep, FwdqDirect
<1>3. ASSUME NEW s \in Stations, Reboot(s) PROVE FwdqDirect'
  BY <1>3 DEF Reboot, FwdqDirect, TypeOK
<1> QED
  BY <1>1, <1>2, <1>3, FwdqSteps, TransmitDirect

\* What a station transmits without R it made: it puts R in what it relays.
LEMMA ScheduleDirect ==
    ASSUME TypeOK, TxqDirect, NEW s \in Stations, NEW p \in PacketType,
           "R" \notin p.params => p.from = s, Schedule(s, p)
    PROVE  TxqDirect'
<1>1. TxDirect(s, [pkt |-> Encode(p), at |-> now])
  <2>1. Encode(p).params = p.params /\ Encode(p).from = p.from
    BY EncodeType DEF PacketType
  <2> QED
    BY <2>1 DEF TxDirect
<1> QED
  BY <1>1 DEF Schedule, TxqDirect, TypeOK

LEMMA TxqDirectStep ==
    ASSUME TypeOK, FwdqDirect, TxqDirect, [Next]_vars
    PROVE  TxqDirect'
<1>1. CASE UNCHANGED txq
  BY <1>1 DEF TxqDirect
<1>2. ASSUME NEW s \in Stations, NEW e \in txq[s], txq' = [txq EXCEPT ![s] = @ \ {e}]
      PROVE  TxqDirect'
  BY <1>2 DEF TxqDirect, TypeOK
<1>3. ASSUME NEW s \in Stations, txq' = [txq EXCEPT ![s] = {}] PROVE TxqDirect'
  BY <1>3 DEF TxqDirect, TypeOK
<1>4. ASSUME NEW s \in Stations, fwdq[s] # <<>>,
             Head(fwdq[s]).origin, Schedule(s, Head(fwdq[s]).pkt)
      PROVE  TxqDirect'
  <2>1. Head(fwdq[s]).pkt.from = s
    BY <1>4, HeadTask DEF FwdqDirect, FwdDirect
  <2> QED
    BY <1>4, <2>1, HeadTask, ScheduleDirect
<1>5. ASSUME NEW s \in Stations, fwdq[s] # <<>>, Schedule(s, Modified(s, Head(fwdq[s]).pkt))
      PROVE  TxqDirect'
  BY <1>5, HeadTask, ModifiedType, ScheduleDirect
<1> QED
  BY <1>1, <1>2, <1>3, <1>4, <1>5, TxqSteps

LEMMA NeighDirectStep ==
    ASSUME TypeOK, FwdqDirect, NeighIsDirect, [Next]_vars
    PROVE  NeighIsDirect'
<1>1. CASE UNCHANGED tables
  BY <1>1 DEF tables, NeighIsDirect
<1>2. ASSUME NEW s \in Stations, fwdq[s] # <<>>, ~Head(fwdq[s]).origin,
             UpdatePeerlist(s, Head(fwdq[s]).pkt)
      PROVE  NeighIsDirect'
  <2> DEFINE p == Head(fwdq[s]).pkt
             v == [rssi |-> p.rssi, ts |-> now]
  <2>1. "R" \notin p.params => <<p.from, s>> \in Hears /\ p.rssi = Rssi[<<p.from, s>>]
    BY <1>2, HeadTask DEF FwdqDirect, FwdDirect
  <2>2. /\ neigh'[s] = IF "R" \in p.params THEN neigh[s] ELSE Set(neigh[s], p.from, v)
        /\ \A r \in Stations \ {s} : neigh'[r] = neigh[r]
    BY <1>2 DEF UpdatePeerlist, TypeOK
  <2>3. v.rssi = p.rssi
    OBVIOUS
  <2> HIDE DEF p, v
  <2>4. ASSUME NEW x \in DOMAIN neigh'[s]
        PROVE  <<x, s>> \in Hears /\ neigh'[s][x].rssi = Rssi[<<x, s>>]
    BY <2>1, <2>2, <2>3, <2>4 DEF NeighIsDirect, Set
  <2> QED
    BY <2>2, <2>4 DEF NeighIsDirect
<1>3. ASSUME NEW s \in Stations, CleanNeigh(s) PROVE NeighIsDirect'
  <2>1. /\ neigh'[s] = Fresh(neigh[s], NeighPersist)
        /\ \A r \in Stations \ {s} : neigh'[r] = neigh[r]
    BY <1>3 DEF CleanNeigh, TypeOK
  <2>2. /\ DOMAIN neigh'[s] \subseteq DOMAIN neigh[s]
        /\ \A x \in DOMAIN neigh'[s] : neigh'[s][x] = neigh[s][x]
    BY <2>1 DEF Fresh
  <2> QED
    BY <2>1, <2>2 DEF NeighIsDirect
<1>4. ASSUME NEW s \in Stations, Reboot(s) PROVE NeighIsDirect'
  BY <1>4 DEF Reboot, NeighIsDirect, Empty, TypeOK
<1> QED
  BY <1>1, <1>2, <1>3, <1>4, TableSteps

LEMMA AlwaysDirect == Spec => [](FwdqDirect /\ TxqDirect)
<1> DEFINE Inv == FwdqDirect /\ TxqDirect
<1>1. Init => Inv
  BY DEF Init, FwdqDirect, TxqDirect
<1>2. TypeOK /\ Inv /\ [Next]_vars => Inv'
  BY FwdqDirectStep, TxqDirectStep
<1> QED
  BY <1>1, <1>2, TypeCorrect, PTL DEF Spec

\* Whatever the topology, the losses and the reboots, every neighbour is a
\* station heard without a repeater in between, with the RSSI of its own
\* transmitter (update_peerlist, Network.cpp:381-404).
THEOREM NeighboursAreDirect == Spec => []NeighIsDirect
<1>1. Init => NeighIsDirect
  BY DEF Init, NeighIsDirect, Empty
<1>2. TypeOK /\ FwdqDirect /\ TxqDirect /\ NeighIsDirect /\ [Next]_vars => NeighIsDirect'
  BY NeighDirectStep
<1> QED
  BY <1>1, <1>2, TypeCorrect, AlwaysDirect, PTL DEF Spec

-----------------------------------------------------------------------------
(* Packet ids *)

\* i is the id of the nth packet of a station whose first id is f.
IsId(f, n, i) == \E k \in Nat : i + k * MaxId = f + n

\* m and n are so close that an id cannot come twice between them.
Near(m, n) == m - n < MaxId /\ n - m < MaxId

\* Two multiples of w that differ by less than w are the same.
LEMMA CloseMultiples ==
    ASSUME NEW w \in Nat \ {0}, NEW j \in Nat, NEW k \in Nat, NEW d \in Int,
           j * w = k * w + d, d < w, -d < w
    PROVE  j = k
<1>1. CASE j > k
  <2>1. PICK x \in Nat : j = k + 1 + x
    <3>1. j - k - 1 \in Nat /\ j = k + 1 + (j - k - 1)
      BY <1>1
    <3> QED
      BY <3>1
  <2>2. (k + 1 + x) * w = k * w + w + x * w /\ x * w \in Nat
    OBVIOUS
  <2> DEFINE a == k * w
             b == x * w
  <2>3. a + w + b = a + d /\ b \in Nat /\ a \in Nat
    BY <2>1, <2>2
  <2> HIDE DEF a, b
  <2> QED
    BY <2>3
<1>2. CASE j < k
  <2>1. PICK x \in Nat : k = j + 1 + x
    <3>1. k - j - 1 \in Nat /\ k = j + 1 + (k - j - 1)
      BY <1>2
    <3> QED
      BY <3>1
  <2>2. (j + 1 + x) * w = j * w + w + x * w /\ x * w \in Nat
    OBVIOUS
  <2> DEFINE a == j * w
             b == x * w
  <2>3. a = a + w + b + d /\ b \in Nat /\ a \in Nat
    BY <2>1, <2>2
  <2> HIDE DEF a, b
  <2> QED
    BY <2>3
<1> QED
  BY <1>1, <1>2

LEMMA IdStart ==
    ASSUME NEW f \in Nat
    PROVE  IsId(f, 0, f)
<1>1. f + 0 * MaxId = f + 0 /\ 0 \in Nat
  BY SizesAssumption
<1> QED
  BY <1>1 DEF IsId

\* The next id, wrap included.
LEMMA IdNext ==
    ASSUME NEW f \in Nat, NEW n \in Nat, NEW i \in 1..MaxId, IsId(f, n, i)
    PROVE  IsId(f, n + 1, NextId(i))
<1>1. PICK k \in Nat : i + k * MaxId = f + n
  BY DEF IsId
<1>2. CASE i + 1 > MaxId
  <2>1. NextId(i) = 1 /\ i = MaxId
    BY <1>2, SizesAssumption DEF NextId
  <2>2. (k + 1) * MaxId = k * MaxId + MaxId /\ k * MaxId \in Nat
    BY SizesAssumption
  <2> DEFINE a == k * MaxId
             b == (k + 1) * MaxId
  <2>3. MaxId + a = f + n /\ b = a + MaxId /\ a \in Nat
    BY <1>1, <2>1, <2>2
  <2> HIDE DEF a, b
  <2>4. 1 + b = f + (n + 1) /\ k + 1 \in Nat
    BY <2>3, SizesAssumption
  <2> QED
    BY <2>1, <2>4 DEF IsId, b
<1>3. CASE ~(i + 1 > MaxId)
  <2>1. NextId(i) = i + 1
    BY <1>3 DEF NextId
  <2> DEFINE a == k * MaxId
  <2>2. i + a = f + n /\ a \in Nat
    BY <1>1, SizesAssumption
  <2> HIDE DEF a
  <2>3. (i + 1) + a = f + (n + 1)
    BY <2>2
  <2> QED
    BY <2>1, <2>3 DEF IsId, a
<1> QED
  BY <1>2, <1>3

\* A packet has one id.
LEMMA IdUnique ==
    ASSUME NEW f \in Nat, NEW n \in Nat, NEW i \in 1..MaxId, NEW j \in 1..MaxId,
           IsId(f, n, i), IsId(f, n, j)
    PROVE  i = j
<1>1. PICK k \in Nat : i + k * MaxId = f + n
  BY DEF IsId
<1>2. PICK l \in Nat : j + l * MaxId = f + n
  BY DEF IsId
<1> DEFINE a == k * MaxId
           b == l * MaxId
<1>3. i + a = f + n /\ j + b = f + n /\ a \in Nat /\ b \in Nat
  BY <1>1, <1>2, SizesAssumption
<1> HIDE DEF a, b
<1>4. a = b + (j - i) /\ j - i \in Int /\ j - i < MaxId /\ -(j - i) < MaxId
  BY <1>3, SizesAssumption
<1>5. k = l
  BY <1>4, CloseMultiples, SizesAssumption DEF a, b
<1> QED
  BY <1>3, <1>5 DEF a, b

\* An id comes again after MaxId packets, not before.
LEMMA IdInjective ==
    ASSUME NEW f \in Nat, NEW m \in Nat, NEW n \in Nat, NEW i \in 1..MaxId,
           IsId(f, m, i), IsId(f, n, i), Near(m, n)
    PROVE  m = n
<1>1. PICK k \in Nat : i + k * MaxId = f + m
  BY DEF IsId
<1>2. PICK l \in Nat : i + l * MaxId = f + n
  BY DEF IsId
<1> DEFINE a == k * MaxId
           b == l * MaxId
<1>3. i + a = f + m /\ i + b = f + n /\ a \in Nat /\ b \in Nat
  BY <1>1, <1>2, SizesAssumption
<1> HIDE DEF a, b
<1>4. a = b + (m - n) /\ m - n \in Int /\ m - n < MaxId /\ -(m - n) < MaxId
  BY <1>3, SizesAssumption DEF Near
<1>5. k = l
  BY <1>4, CloseMultiples, SizesAssumption DEF a, b
<1> QED
  BY <1>3, <1>5 DEF a, b

-----------------------------------------------------------------------------
(* What a packet tells of the request it was made of *)

\* In these, h is what was sent, before a step or after it.
HasUid(h, u) == u \in Stations \X (Nat \ {0}) /\ u[2] <= Len(h[u[1]])

\* A packet with this request has room for the whole message, mac and R included.
Fits(a) == Cardinality(a.params) + 2 + Len(a.msg) <= MaxPayload

\* The mac, if there is one, is a hash of the request as it was sent.
MacTraced(p, a) ==
    \/ p.mac = <<>>
    \/ \E key : p.mac = <<[key |-> key, to |-> a.to, from |-> p.from, id |-> p.id, msg |-> a.msg]>>

\* p was made of request a of its source, and is what it was but for the marks
\* of repeaters and for the tail of the message.
MadeOf(p, a) ==
    /\ p.to = a.to
    /\ p.params \ {"R"} = a.params
    /\ MacTraced(p, a)
    /\ ~RouteQuery(p) /\ Fits(a) => p.msg = a.msg

Traced(h, p) ==
    /\ p.uid[1] = p.from
    /\ HasUid(h, p.uid)
    /\ IsId(FirstId[p.from], p.uid[2], p.id)
    /\ MadeOf(p, h[p.from][p.uid[2]])

Numbered ==
    \A s \in Stations : nvId[s] = lastId[s] /\ IsId(FirstId[s], Len(sent[s]), lastId[s])

FwdqTraced == \A s \in Stations : \A i \in 1..Len(fwdq[s]) : Traced(sent, fwdq[s][i].pkt)
TxqTraced  == \A s \in Stations : \A e \in txq[s] : Traced(sent, e.pkt)

\* A station delivers what is meant for it and passes the test of its key.
InboxTraced ==
    \A s \in Stations : \A i \in 1..Len(inbox[s]) :
        LET p == inbox[s][i].pkt IN
        /\ Traced(sent, p)
        /\ ~HmacRejects(s, p)
        /\ p.to \in {s, Localhost} \cup Broadcasts

\* The receive log notes packets under their own signatures.
EntryTraced(h, g, u) == u[1] = g[1] /\ HasUid(h, u) /\ IsId(FirstId[g[1]], u[2], g[2])
LogTraced ==
    \A s \in Stations : \A g \in DOMAIN recvLog[s] : EntryTraced(sent, g, recvLog[s][g].uid)

TracedInv == Numbered /\ FwdqTraced /\ TxqTraced /\ InboxTraced /\ LogTraced

\* History is only added to.
SentGrows ==
    \A s \in Stations :
        /\ Len(sent[s]) <= Len(sent'[s])
        /\ \A n \in 1..Len(sent[s]) : sent'[s][n] = sent[s][n]

LEMMA StillHasUid ==
    ASSUME TypeOK, TypeOK', SentGrows, NEW u, HasUid(sent, u)
    PROVE  HasUid(sent', u)
<1>1. u[1] \in Stations /\ u[2] \in Nat /\ u[2] <= Len(sent[u[1]])
  BY DEF HasUid
<1>2. Len(sent[u[1]]) \in Nat /\ Len(sent'[u[1]]) \in Nat /\ Len(sent[u[1]]) <= Len(sent'[u[1]])
  BY <1>1, LenProperties DEF TypeOK, SentGrows
<1>3. u[2] <= Len(sent'[u[1]])
  BY <1>1, <1>2
<1> QED
  BY <1>3 DEF HasUid

LEMMA StillTraced ==
    ASSUME TypeOK, TypeOK', SentGrows, NEW p, Traced(sent, p)
    PROVE  Traced(sent', p)
<1>1. p.uid[1] = p.from /\ HasUid(sent, p.uid)
  BY DEF Traced
<1>2. p.from \in Stations /\ p.uid[2] \in 1..Len(sent[p.from])
  BY <1>1, LenProperties DEF HasUid, TypeOK
<1>3. sent'[p.from][p.uid[2]] = sent[p.from][p.uid[2]]
  BY <1>2 DEF SentGrows
<1>4. HasUid(sent', p.uid)
  BY <1>1, StillHasUid
<1> QED
  BY <1>3, <1>4 DEF Traced

\* A repeater's marks, the cut and the RSSI leave a packet traced.
LEMMA ModifiedTraced ==
    ASSUME NEW s \in Stations, NEW p \in PacketType, Traced(sent, p)
    PROVE  Traced(sent, Modified(s, p))
<1> DEFINE q == Modified(s, p)
<1>1. /\ q.params = p.params \cup {"R"} /\ q.to = p.to /\ q.from = p.from /\ q.id = p.id
      /\ q.mac = p.mac /\ q.uid = p.uid /\ (~RouteQuery(p) => q.msg = p.msg)
  BY ModifiedType
<1> HIDE DEF q
<1>2. RouteQuery(q) <=> RouteQuery(p)
  BY <1>1 DEF RouteQuery
<1>3. q.params \ {"R"} = p.params \ {"R"}
  BY <1>1
<1>4. ASSUME NEW a, MadeOf(p, a) PROVE MadeOf(q, a)
  BY <1>1, <1>2, <1>3, <1>4 DEF MadeOf, MacTraced
<1>5. Traced(sent, q)
  BY <1>1, <1>4 DEF Traced
<1> QED
  BY <1>5 DEF q

LEMMA DecodeTraced ==
    ASSUME NEW p \in PacketType, NEW rssi \in Int, Traced(sent, p)
    PROVE  Traced(sent, Decode(p, rssi))
<1> DEFINE q == Decode(p, rssi)
<1>1. /\ q.params = p.params /\ q.to = p.to /\ q.from = p.from /\ q.id = p.id
      /\ q.mac = p.mac /\ q.uid = p.uid /\ q.msg = p.msg
  BY DEF Decode, PacketType
<1> HIDE DEF q
<1>2. ASSUME NEW a, MadeOf(p, a) PROVE MadeOf(q, a)
  BY <1>1, <1>2 DEF MadeOf, MacTraced, RouteQuery
<1>3. Traced(sent, q)
  BY <1>1, <1>2 DEF Traced
<1> QED
  BY <1>3 DEF q

\* One more element, and the room it takes.
LEMMA OneMore ==
    ASSUME NEW S, IsFiniteSet(S), NEW x
    PROVE  IsFiniteSet(S \cup {x}) /\ Cardinality(S \cup {x}) <= Cardinality(S) + 1
<1>1. Cardinality(S) \in Nat
  BY FS_CardinalityType
<1>2. /\ IsFiniteSet(S \cup {x})
      /\ Cardinality(S \cup {x}) = IF x \in S THEN Cardinality(S) ELSE Cardinality(S) + 1
  BY FS_AddElement
<1> QED
  BY <1>1, <1>2

LEMMA RoomLeft ==
    ASSUME NEW max \in Nat, NEW c \in Nat, NEW d \in Nat, NEW h \in Nat, NEW l \in Nat,
           c + 2 + l <= max, d <= c + 1, h <= 1
    PROVE  l <= max - (d + h)
OBVIOUS

LEMMA EncodeTraced ==
    ASSUME TypeOK, NEW p \in PacketType, Traced(sent, p)
    PROVE  Traced(sent, Encode(p))
<1> DEFINE q == Encode(p)
           a == sent[p.from][p.uid[2]]
<1>1. /\ q.params = p.params /\ q.to = p.to /\ q.from = p.from /\ q.id = p.id
      /\ q.mac = p.mac /\ q.uid = p.uid
  BY EncodeType DEF PacketType
<1>2. Len(p.msg) <= Room(p) => q.msg = p.msg
  BY EncodeType
<1>3. MadeOf(p, a) /\ a \in Requestables
  BY ElementOfSeq DEF Traced, TypeOK, HasUid
<1>4. ASSUME ~RouteQuery(p), Fits(a) PROVE q.msg = a.msg
  <2>1. p.msg = a.msg /\ p.params \ {"R"} = a.params
    BY <1>3, <1>4 DEF MadeOf
  <2>2. Len(p.mac) <= 1 /\ Len(p.mac) \in Nat
    BY <1>3, LenProperties DEF MadeOf, MacTraced, PacketType
  <2>3. IsFiniteSet(a.params) /\ Cardinality(a.params) \in Nat
    BY <1>3, FS_Subset, FS_CardinalityType, ParamNamesFinite DEF Requestables
  <2>4. /\ IsFiniteSet(a.params \cup {"R"})
        /\ Cardinality(a.params \cup {"R"}) <= Cardinality(a.params) + 1
    BY <2>3, OneMore
  <2>5. p.params \in SUBSET (a.params \cup {"R"})
    BY <2>1
  <2>6. Cardinality(p.params) <= Cardinality(a.params \cup {"R"})
    BY <2>4, <2>5, FS_Subset
  <2>7. Cardinality(p.params) \in Nat /\ Cardinality(a.params \cup {"R"}) \in Nat
    BY <2>4, <2>5, FS_Subset, FS_CardinalityType
  <2>8. Len(a.msg) \in Nat
    BY <1>3, LenProperties DEF Requestables, Messages
  <2>9. Cardinality(a.params) + 2 + Len(a.msg) <= MaxPayload
    BY <1>4 DEF Fits
  <2>10. Cardinality(p.params) <= Cardinality(a.params) + 1
    BY <2>3, <2>4, <2>6, <2>7
  <2>11. Len(a.msg) <= MaxPayload - (Cardinality(p.params) + Len(p.mac))
    BY <2>2, <2>3, <2>7, <2>8, <2>9, <2>10, SizesAssumption, RoomLeft
  <2>12. Len(p.msg) <= Room(p)
    BY <2>1, <2>11 DEF Room, HeaderSize
  <2> QED
    BY <1>2, <2>1, <2>12
<1> HIDE DEF q, a
<1>5. MadeOf(q, a)
  BY <1>1, <1>3, <1>4 DEF MadeOf, MacTraced, RouteQuery
<1>6. Traced(sent, q)
  BY <1>1, <1>5 DEF Traced, a
<1> QED
  BY <1>6 DEF q

-----------------------------------------------------------------------------
(* Sending *)

SendsType(s, reqs, queue) ==
    /\ reqs \in Seq(Requestables) /\ Len(reqs) \in 0..2
    /\ queue \in Seq(FwdTasks)
    /\ SendAll(s, reqs, queue)

\* To drop the head of the queue is to send nothing.
LEMMA SkipSends ==
    ASSUME TypeOK, NEW s \in Stations, fwdq[s] # <<>>, Skip(s)
    PROVE  SendsType(s, <<>>, Tail(fwdq[s])) /\ inbox' = inbox
<1> DEFINE new == [n \in 1..Len(<<>>) |->
                     [pkt |-> Originate(s, n, <<>>[n]), origin |-> TRUE]]
<1>1. new = <<>>
  OBVIOUS
<1>2. Tail(fwdq[s]) \in Seq(FwdTasks)
  BY HeadTask
<1> HIDE DEF new
<1>3. Tail(fwdq[s]) \o new = Tail(fwdq[s])
  BY <1>1, <1>2, ConcatEmptySeq
<1>4. sent[s] \o <<>> = sent[s]
  BY ConcatEmptySeq DEF TypeOK
<1>5. fwdq' = [fwdq EXCEPT ![s] = Tail(fwdq[s]) \o new]
  BY <1>3 DEF Skip
<1>6. sent' = [sent EXCEPT ![s] = sent[s] \o <<>>]
  BY <1>4 DEF Skip, TypeOK
<1>7. NthId(lastId[s], Len(<<>>)) = lastId[s]
  BY DEF NthId
<1>8. lastId' = [lastId EXCEPT ![s] = NthId(lastId[s], Len(<<>>))]
  BY <1>7 DEF Skip, TypeOK
<1>9. nvId' = [nvId EXCEPT ![s] = nvId[s]]
  BY DEF Skip, TypeOK
<1>10. SendAll(s, <<>>, Tail(fwdq[s]))
  BY <1>5, <1>6, <1>8, <1>9 DEF SendAll, new
<1>11. <<>> \in Seq(Requestables) /\ Len(<<>>) \in 0..2
  OBVIOUS
<1> QED
  BY <1>2, <1>10, <1>11 DEF SendsType, Skip

\* s gives p to its application and answers it with reqs.
Delivers(s, p, reqs) ==
    /\ ~HmacRejects(s, p)
    /\ reqs = Answers(s, p)
    /\ inbox' = [inbox EXCEPT ![s] = Append(@, [pkt |-> p, boot |-> boot[s]])]

LEMMA RecvSends ==
    ASSUME TypeOK, NEW s \in Stations, fwdq[s] # <<>>, NEW p \in PacketType, Recv(s, p)
    PROVE  \E reqs \in Seq(Requestables) :
              /\ SendsType(s, reqs, Tail(fwdq[s]))
              /\ (reqs = <<>> /\ inbox' = inbox) \/ Delivers(s, p, reqs)
<1>1. CASE HmacRejects(s, p)
  <2>1. Skip(s)
    BY <1>1 DEF Recv, Skip
  <2>2. SendsType(s, <<>>, Tail(fwdq[s])) /\ inbox' = inbox
    BY <2>1, SkipSends
  <2>3. <<>> \in Seq(Requestables)
    OBVIOUS
  <2> QED
    BY <2>2, <2>3
<1>2. CASE ~HmacRejects(s, p)
  <2>1. /\ SendAll(s, Answers(s, p), Tail(fwdq[s]))
        /\ Delivers(s, p, Answers(s, p))
    BY <1>2 DEF Recv, Delivers
  <2>2. Answers(s, p) \in Seq(Requestables) /\ Len(Answers(s, p)) \in 0..2
    BY AnswersType
  <2>3. Tail(fwdq[s]) \in Seq(FwdTasks)
    BY HeadTask
  <2> QED
    BY <2>1, <2>2, <2>3 DEF SendsType
<1> QED
  BY <1>1, <1>2

\* The ways a PacketFwd task can go.
Ignored(s) == UNCHANGED <<txq, recvLog, tables>> /\ inbox' = inbox

HandledLocally(s, p) == IsLocal(s, p) /\ UNCHANGED <<txq, recvLog, tables>>

PutOnQueue(s, p) ==
    /\ ~IsLocal(s, p)
    /\ Annotate(s, p) /\ Schedule(s, p)
    /\ inbox' = inbox /\ UNCHANGED tables

\* s is the destination, or one of many, or relays p.
HandledFromRadio(s, p) ==
    /\ ~IsDuplicate(s, p)
    /\ Annotate(s, p)
    /\ inbox' = inbox \/ p.to \in {s} \cup Broadcasts
    /\ UNCHANGED txq \/ (s \in Repeaters /\ p.to # s /\ Schedule(s, Modified(s, p)))

RouteKind(s, t, reqs) ==
    \/ t.origin /\ HandledLocally(s, t.pkt) /\ (inbox' = inbox \/ Delivers(s, t.pkt, reqs))
    \/ t.origin /\ PutOnQueue(s, t.pkt) /\ reqs = <<>>
    \/ ~t.origin /\ IsDuplicate(s, t.pkt) /\ Ignored(s) /\ reqs = <<>>
    \/ ~t.origin /\ HandledFromRadio(s, t.pkt) /\ (inbox' = inbox \/ Delivers(s, t.pkt, reqs))

\* A PacketFwd task: the head leaves the queue, and what it makes the station
\* send is appended.
LEMMA RouteSends ==
    ASSUME TypeOK, NEW s \in Stations, Route(s)
    PROVE  /\ fwdq[s] # <<>>
           /\ UNCHANGED <<now, boot, aired>>
           /\ \E reqs \in Seq(Requestables) :
                /\ SendsType(s, reqs, Tail(fwdq[s]))
                /\ inbox' = inbox => reqs = <<>>
                /\ RouteKind(s, Head(fwdq[s]), reqs)
<1> DEFINE t == Head(fwdq[s])
           p == t.pkt
<1>1. fwdq[s] # <<>> /\ UNCHANGED <<now, boot, aired>>
      /\ IF t.origin THEN RouteLocal(s, p) \/ RouteOrigin(s, p)
         ELSE RouteDuplicate(s, p) \/ RouteDestination(s, p) \/ RouteDiffusion(s, p)
  BY DEF Route
<1>2. p \in PacketType /\ t.origin \in BOOLEAN
  BY <1>1, HeadTask
<1>3. ASSUME NEW reqs, Delivers(s, p, reqs) PROVE inbox' # inbox
  <2>1. inbox[s] \in Seq([pkt : PacketType, boot : Nat])
        /\ inbox'[s] = Append(inbox[s], [pkt |-> p, boot |-> boot[s]])
    BY <1>3 DEF Delivers, TypeOK
  <2> DEFINE Entry == [pkt : PacketType, boot : Nat]
             x == [pkt |-> p, boot |-> boot[s]]
  <2>2. x \in Entry
    BY <1>2 DEF TypeOK
  <2>3. inbox[s] \in Seq(Entry) /\ inbox'[s] = Append(inbox[s], x)
    BY <2>1
  <2> HIDE DEF Entry, x
  <2>4. Len(inbox'[s]) = Len(inbox[s]) + 1 /\ Len(inbox[s]) \in Nat
    BY <2>2, <2>3, AppendProperties, LenProperties
  <2> QED
    BY <2>4
<1> HIDE DEF t
<1>4. ASSUME Recv(s, p)
      PROVE  \E reqs \in Seq(Requestables) :
                /\ SendsType(s, reqs, Tail(fwdq[s]))
                /\ inbox' = inbox => reqs = <<>>
                /\ inbox' = inbox \/ Delivers(s, p, reqs)
  <2>1. PICK reqs \in Seq(Requestables) :
              /\ SendsType(s, reqs, Tail(fwdq[s]))
              /\ (reqs = <<>> /\ inbox' = inbox) \/ Delivers(s, p, reqs)
    BY <1>1, <1>2, <1>4, RecvSends
  <2> QED
    BY <1>3, <2>1
<1>5. Skip(s) => /\ SendsType(s, <<>>, Tail(fwdq[s])) /\ inbox' = inbox
                 /\ <<>> \in Seq(Requestables)
  BY <1>1, SkipSends
<1>6. CASE t.origin /\ RouteLocal(s, p)
  <2>1. HandledLocally(s, p) /\ Recv(s, p)
    BY <1>6 DEF RouteLocal, HandledLocally
  <2> QED
    BY <1>1, <1>4, <1>6, <2>1 DEF RouteKind, t
<1>7. CASE t.origin /\ RouteOrigin(s, p)
  <2>1. PutOnQueue(s, p) /\ Skip(s)
    BY <1>5, <1>7 DEF RouteOrigin, PutOnQueue
  <2>2. RouteKind(s, t, <<>>)
    BY <1>7, <2>1 DEF RouteKind
  <2> QED
    BY <1>1, <1>5, <2>1, <2>2 DEF t
<1>8. CASE ~t.origin /\ RouteDuplicate(s, p)
  <2>1. IsDuplicate(s, p) /\ Ignored(s) /\ Skip(s)
    BY <1>5, <1>8 DEF RouteDuplicate, Ignored
  <2>2. RouteKind(s, t, <<>>)
    BY <1>8, <2>1 DEF RouteKind
  <2> QED
    BY <1>1, <1>5, <2>1, <2>2 DEF t
<1>9. CASE ~t.origin /\ RouteDestination(s, p)
  <2>1. HandledFromRadio(s, p) /\ Recv(s, p)
    BY <1>9 DEF RouteDestination, HandledFromRadio
  <2> QED
    BY <1>1, <1>4, <1>9, <2>1 DEF RouteKind, t
<1>10. CASE ~t.origin /\ RouteDiffusion(s, p)
  <2>1. CASE p.to \in Broadcasts
    <3>1. HandledFromRadio(s, p) /\ Recv(s, p)
      BY <1>10, <2>1 DEF RouteDiffusion, HandledFromRadio
    <3> QED
      BY <1>1, <1>4, <1>10, <3>1 DEF RouteKind, t
  <2>2. CASE p.to \notin Broadcasts
    <3>1. HandledFromRadio(s, p) /\ Skip(s)
      BY <1>5, <1>10, <2>2 DEF RouteDiffusion, HandledFromRadio
    <3>2. RouteKind(s, t, <<>>)
      BY <1>5, <1>10, <3>1 DEF RouteKind
    <3> QED
      BY <1>1, <1>5, <3>1, <3>2 DEF t
  <2> QED
    BY <2>1, <2>2
<1> QED
  BY <1>1, <1>2, <1>6, <1>7, <1>8, <1>9, <1>10

\* The id of the nth packet that s makes in a step.
LEMMA NthIsId ==
    ASSUME TypeOK, Numbered, NEW s \in Stations, NEW n \in 0..2
    PROVE  IsId(FirstId[s], Len(sent[s]) + n, NthId(lastId[s], n))
<1> DEFINE f == FirstId[s]
           l == Len(sent[s])
           i == lastId[s]
<1>1. f \in Nat /\ l \in Nat /\ i \in 1..MaxId /\ IsId(f, l, i)
  BY BoundsAssumption, SizesAssumption, LenProperties DEF TypeOK, Numbered
<1> HIDE DEF f, l, i
<1>2. NextId(i) \in 1..MaxId
  BY <1>1, SizesAssumption DEF NextId
<1>3. IsId(f, l + 1, NextId(i))
  BY <1>1, IdNext
<1>4. IsId(f, l + 1 + 1, NextId(NextId(i)))
  <2>1. l + 1 \in Nat
    BY <1>1
  <2> QED
    BY <1>1, <1>2, <1>3, <2>1, IdNext
<1>5. l + 0 = l /\ l + 1 + 1 = l + 2
  BY <1>1
<1>6. IsId(f, l + n, NthId(i, n))
  <2>1. CASE n = 0
    BY <1>1, <1>5, <2>1 DEF NthId
  <2>2. CASE n = 1
    BY <1>3, <2>2 DEF NthId
  <2>3. CASE n = 2
    BY <1>4, <1>5, <2>3 DEF NthId
  <2> QED
    BY <2>1, <2>2, <2>3
<1> QED
  BY <1>6 DEF f, l, i

\* sent after a step that sends reqs.
LEMMA SentAfter ==
    ASSUME TypeOK, NEW s \in Stations, NEW reqs, NEW queue, SendsType(s, reqs, queue)
    PROVE  /\ SentGrows
           /\ Len(sent'[s]) = Len(sent[s]) + Len(reqs)
           /\ Len(reqs) \in Nat /\ Len(sent[s]) \in Nat
           /\ \A n \in 1..Len(reqs) : reqs[n] \in Requestables /\ n \in 1..2
           /\ \A n \in 1..Len(reqs) : sent'[s][Len(sent[s]) + n] = reqs[n]
           /\ \A r \in Stations \ {s} : sent'[r] = sent[r]
<1>1. reqs \in Seq(Requestables) /\ sent[s] \in Seq(Requestables)
      /\ \A r \in Stations : Len(sent[r]) \in Nat
  BY LenProperties DEF SendsType, TypeOK
<1>2. sent'[s] = sent[s] \o reqs /\ \A r \in Stations \ {s} : sent'[r] = sent[r]
  BY DEF SendsType, SendAll, TypeOK
<1>3. /\ Len(sent[s] \o reqs) = Len(sent[s]) + Len(reqs)
      /\ \A i \in 1..(Len(sent[s]) + Len(reqs)) :
            (sent[s] \o reqs)[i] = IF i <= Len(sent[s]) THEN sent[s][i] ELSE reqs[i - Len(sent[s])]
  BY <1>1, ConcatProperties
<1>4. Len(reqs) \in Nat /\ Len(sent[s]) \in Nat
  BY <1>1, LenProperties
<1>5. \A n \in 1..Len(reqs) : reqs[n] \in Requestables
  BY <1>1, ElementOfSeq
<1>6. \A n \in 1..Len(reqs) : n \in 1..2
  <2>1. \A k \in 0..2 : k \in Nat /\ k <= 2
    OBVIOUS
  <2>2. Len(reqs) <= 2
    BY <2>1 DEF SendsType
  <2> QED
    BY <1>4, <2>2
<1>7. \A n \in 1..Len(reqs) : sent'[s][Len(sent[s]) + n] = reqs[n]
  <2>1. TAKE n \in 1..Len(reqs)
  <2>2. /\ Len(sent[s]) + n \in 1..(Len(sent[s]) + Len(reqs))
        /\ ~(Len(sent[s]) + n <= Len(sent[s]))
        /\ Len(sent[s]) + n - Len(sent[s]) = n
    BY <1>4
  <2> QED
    BY <1>2, <1>3, <2>2
<1>8. \A n \in 1..Len(sent[s]) : sent'[s][n] = sent[s][n]
  <2>1. TAKE n \in 1..Len(sent[s])
  <2>2. n \in 1..(Len(sent[s]) + Len(reqs)) /\ n <= Len(sent[s])
    BY <1>4
  <2> QED
    BY <1>2, <1>3, <2>2
<1>9. Len(sent[s]) <= Len(sent'[s]) /\ \A r \in Stations : Len(sent[r]) <= Len(sent[r])
  BY <1>1, <1>2, <1>3, <1>4
<1>10. SentGrows
  BY <1>2, <1>8, <1>9 DEF SentGrows
<1> QED
  BY <1>2, <1>3, <1>4, <1>5, <1>6, <1>7, <1>10

\* A packet is traced as soon as it is made.
LEMMA NewTraced ==
    ASSUME TypeOK, TypeOK', Numbered, NEW s \in Stations, NEW reqs, NEW queue,
           SendsType(s, reqs, queue),
           NEW n \in 1..Len(reqs), NEW q, q = Originate(s, n, reqs[n])
    PROVE  Traced(sent', q)
<1> DEFINE a == reqs[n]
           l == Len(sent[s])
<1>1. a \in Requestables /\ n \in 1..2 /\ sent'[s][l + n] = a
      /\ Len(sent'[s]) = l + Len(reqs) /\ l \in Nat /\ Len(reqs) \in Nat
  BY SentAfter
<1>2. /\ q.from = s /\ q.params = a.params /\ q.to = a.to /\ q.msg = a.msg
      /\ q.uid = <<s, l + n>> /\ q.id = NthId(lastId[s], n)
      /\ q.mac = <<>> \/ \E key : q.mac = Digest(key, q)
  BY <1>1, OriginateType
<1>3. IsId(FirstId[s], l + n, NthId(lastId[s], n))
  <2>1. n \in 0..2
    BY <1>1
  <2> QED
    BY <2>1, NthIsId
<1> HIDE DEF a, l
<1>4. l + n \in Nat \ {0} /\ l + n <= Len(sent'[s])
  BY <1>1
<1>5. HasUid(sent', q.uid)
  BY <1>2, <1>4 DEF HasUid
<1>6. q.params \ {"R"} = a.params
  BY <1>1, <1>2 DEF Requestables
<1>7. MacTraced(q, a)
  BY <1>2 DEF MacTraced, Digest
<1>8. MadeOf(q, a)
  BY <1>2, <1>6, <1>7 DEF MadeOf
<1> QED
  BY <1>1, <1>2, <1>3, <1>5, <1>8 DEF Traced

\* What is sent is numbered, and the queue stays traced.
LEMMA SendsTraced ==
    ASSUME TypeOK, TypeOK', Numbered, FwdqTraced, NEW s \in Stations, NEW reqs, NEW queue,
           SendsType(s, reqs, queue),
           \A i \in 1..Len(queue) : \E j \in 1..Len(fwdq[s]) : queue[i] = fwdq[s][j]
    PROVE  Numbered' /\ FwdqTraced'
<1>1. SentGrows
  BY SentAfter
<1>2. /\ \A r \in Stations \ {s} : fwdq'[r] = fwdq[r]
      /\ \A i \in 1..Len(fwdq'[s]) :
            \/ i \in 1..Len(queue) /\ fwdq'[s][i] = queue[i]
            \/ \E n \in 1..Len(reqs) :
                 /\ i = Len(queue) + n
                 /\ fwdq'[s][i] = [pkt |-> Originate(s, n, reqs[n]), origin |-> TRUE]
  BY SendAllType DEF SendsType
<1>3. ASSUME NEW i \in 1..Len(fwdq'[s]) PROVE Traced(sent', fwdq'[s][i].pkt)
  <2>1. CASE i \in 1..Len(queue) /\ fwdq'[s][i] = queue[i]
    <3>1. PICK j \in 1..Len(fwdq[s]) : fwdq'[s][i] = fwdq[s][j]
      BY <2>1
    <3>2. PICK p : p = fwdq[s][j].pkt
      OBVIOUS
    <3>3. Traced(sent, p)
      BY <3>2 DEF FwdqTraced
    <3>4. Traced(sent', p)
      BY <1>1, <3>3, StillTraced
    <3> QED
      BY <3>1, <3>2, <3>4
  <2>2. CASE \E n \in 1..Len(reqs) :
               fwdq'[s][i] = [pkt |-> Originate(s, n, reqs[n]), origin |-> TRUE]
    <3>1. PICK n \in 1..Len(reqs) :
                 fwdq'[s][i] = [pkt |-> Originate(s, n, reqs[n]), origin |-> TRUE]
      BY <2>2
    <3>2. PICK q : q = Originate(s, n, reqs[n])
      OBVIOUS
    <3>3. Traced(sent', q)
      BY <3>2, NewTraced
    <3> QED
      BY <3>1, <3>2, <3>3
  <2> QED
    BY <1>2, <2>1, <2>2
<1>4. ASSUME NEW r \in Stations \ {s}, NEW i \in 1..Len(fwdq[r]) PROVE Traced(sent', fwdq[r][i].pkt)
  <2>1. PICK p : p = fwdq[r][i].pkt
    OBVIOUS
  <2>2. Traced(sent', p)
    BY <1>1, <2>1, StillTraced DEF FwdqTraced
  <2> QED
    BY <1>2, <2>1, <2>2
<1>5. FwdqTraced'
  BY <1>2, <1>3, <1>4 DEF FwdqTraced
<1>6. ASSUME NEW r \in Stations
      PROVE  nvId'[r] = lastId'[r] /\ IsId(FirstId[r], Len(sent'[r]), lastId'[r])
  <2>1. CASE r # s
    BY <2>1, SentAfter DEF SendsType, SendAll, TypeOK, Numbered
  <2>2. CASE r = s
    <3>1. Len(sent'[s]) = Len(sent[s]) + Len(reqs) /\ Len(reqs) \in 0..2
      BY SentAfter DEF SendsType
    <3>2. lastId'[s] = NthId(lastId[s], Len(reqs))
      BY DEF SendsType, SendAll, TypeOK
    <3>3. nvId'[s] = NthId(lastId[s], Len(reqs))
      <4>1. nvId[s] = lastId[s]
        BY DEF Numbered
      <4>2. reqs = <<>> => NthId(lastId[s], Len(reqs)) = lastId[s]
        BY DEF NthId
      <4> QED
        BY <4>1, <4>2 DEF SendsType, SendAll, TypeOK
    <3> QED
      BY <2>2, <3>1, <3>2, <3>3, NthIsId
  <2> QED
    BY <2>1, <2>2
<1>7. Numbered'
  BY <1>6 DEF Numbered, IsId
<1> QED
  BY <1>5, <1>7

-----------------------------------------------------------------------------
(* TracedInv is inductive *)

\* What is left alone stays traced.
LEMMA OthersTraced ==
    ASSUME TypeOK, TypeOK', SentGrows, TracedInv
    PROVE  /\ UNCHANGED txq => TxqTraced'
           /\ UNCHANGED inbox => InboxTraced'
           /\ UNCHANGED recvLog => LogTraced'
<1>1. \A p : Traced(sent, p) => Traced(sent', p)
  BY StillTraced
<1>2. \A g, u : EntryTraced(sent, g, u) => EntryTraced(sent', g, u)
  BY StillHasUid DEF EntryTraced
<1>3. ASSUME UNCHANGED txq PROVE TxqTraced'
  BY <1>1, <1>3 DEF TxqTraced, TracedInv
<1>4. ASSUME UNCHANGED inbox PROVE InboxTraced'
  BY <1>1, <1>4 DEF InboxTraced, TracedInv
<1>5. ASSUME UNCHANGED recvLog PROVE LogTraced'
  BY <1>2, <1>5 DEF LogTraced, TracedInv
<1> QED
  BY <1>3, <1>4, <1>5

LEMMA AppTraced ==
    ASSUME TypeOK, TypeOK', TracedInv, NEW s \in Stations, NEW a \in Requestables,
           SendAll(s, <<a>>, fwdq[s]), UNCHANGED <<txq, recvLog, inbox>>
    PROVE  TracedInv'
<1>1. SendsType(s, <<a>>, fwdq[s])
  <2>1. <<a>> \in Seq(Requestables) /\ Len(<<a>>) \in 0..2
    OBVIOUS
  <2> QED
    BY <2>1 DEF SendsType, TypeOK
<1>2. SentGrows
  BY <1>1, SentAfter
<1>3. Numbered' /\ FwdqTraced'
  BY <1>1, SendsTraced DEF TracedInv
<1>4. TxqTraced' /\ InboxTraced' /\ LogTraced'
  BY <1>2, OthersTraced
<1> QED
  BY <1>3, <1>4 DEF TracedInv

LEMMA ScheduleTraced ==
    ASSUME TypeOK, TypeOK', SentGrows, TracedInv, NEW s \in Stations, NEW p \in PacketType,
           Traced(sent, p), Schedule(s, p)
    PROVE  TxqTraced'
<1> DEFINE e == [pkt |-> Encode(p), at |-> now]
<1>1. Traced(sent', e.pkt)
  BY EncodeTraced, StillTraced
<1>2. txq'[s] = txq[s] \cup {e} /\ \A r \in Stations \ {s} : txq'[r] = txq[r]
  BY DEF Schedule, TypeOK
<1>3. \A r \in Stations : \A x \in txq[r] : Traced(sent', x.pkt)
  BY StillTraced DEF TxqTraced, TracedInv
<1> HIDE DEF e
<1> QED
  BY <1>1, <1>2, <1>3 DEF TxqTraced

LEMMA AnnotateTraced ==
    ASSUME TypeOK, TypeOK', SentGrows, TracedInv, NEW s \in Stations, NEW p \in PacketType,
           Traced(sent, p), Annotate(s, p)
    PROVE  LogTraced'
<1> DEFINE v == [ts |-> now, uid |-> p.uid]
<1>1. recvLog'[s] = Set(recvLog[s], Signature(p), v) /\ v.uid = p.uid
      /\ \A r \in Stations \ {s} : recvLog'[r] = recvLog[r]
  BY DEF Annotate, TypeOK
<1>2. EntryTraced(sent', Signature(p), p.uid)
  <2>1. EntryTraced(sent, Signature(p), p.uid)
    BY DEF EntryTraced, Signature, Traced
  <2> QED
    BY <2>1, StillHasUid DEF EntryTraced
<1>3. \A r \in Stations : \A g \in DOMAIN recvLog[r] : EntryTraced(sent', g, recvLog[r][g].uid)
  BY StillHasUid DEF EntryTraced, LogTraced, TracedInv
<1> HIDE DEF v
<1>4. ASSUME NEW g \in DOMAIN recvLog'[s] PROVE EntryTraced(sent', g, recvLog'[s][g].uid)
  BY <1>1, <1>2, <1>3, <1>4 DEF Set
<1> QED
  BY <1>1, <1>3, <1>4 DEF LogTraced

LEMMA DeliversTraced ==
    ASSUME TypeOK, TypeOK', SentGrows, TracedInv, NEW s \in Stations, NEW p \in PacketType,
           NEW reqs, Traced(sent, p), p.to \in {s, Localhost} \cup Broadcasts, Delivers(s, p, reqs)
    PROVE  InboxTraced'
<1> DEFINE x == [pkt |-> p, boot |-> boot[s]]
           Entry == [pkt : PacketType, boot : Nat]
<1>1. x.pkt = p /\ x \in Entry /\ inbox[s] \in Seq(Entry)
      /\ inbox'[s] = Append(inbox[s], x)
      /\ \A r \in Stations \ {s} : inbox'[r] = inbox[r]
  BY DEF Delivers, TypeOK
<1>2. Traced(sent', p) /\ ~HmacRejects(s, p)
  BY StillTraced DEF Delivers
<1>3. \A r \in Stations : \A i \in 1..Len(inbox[r]) :
         /\ Traced(sent', inbox[r][i].pkt) /\ ~HmacRejects(r, inbox[r][i].pkt)
         /\ inbox[r][i].pkt.to \in {r, Localhost} \cup Broadcasts
  BY StillTraced DEF InboxTraced, TracedInv
<1> HIDE DEF x, Entry
<1>4. \A i \in 1..Len(inbox'[s]) :
         inbox'[s][i] = x \/ (i \in 1..Len(inbox[s]) /\ inbox'[s][i] = inbox[s][i])
  BY <1>1, AppendProperties, LenProperties
<1> QED
  BY <1>1, <1>2, <1>3, <1>4 DEF InboxTraced

LEMMA RouteTraced ==
    ASSUME TypeOK, TypeOK', TracedInv, NEW s \in Stations, Route(s)
    PROVE  TracedInv'
<1> DEFINE t == Head(fwdq[s])
           p == t.pkt
<1>1. PICK reqs \in Seq(Requestables) :
          /\ SendsType(s, reqs, Tail(fwdq[s]))
          /\ RouteKind(s, t, reqs)
  BY RouteSends
<1>2. fwdq[s] # <<>> /\ UNCHANGED <<now, boot, aired>>
  BY RouteSends
<1>3. SentGrows
  BY <1>1, SentAfter
<1>4. Numbered' /\ FwdqTraced'
  <2>1. \A i \in 1..Len(Tail(fwdq[s])) : \E j \in 1..Len(fwdq[s]) : Tail(fwdq[s])[i] = fwdq[s][j]
    BY <1>2, HeadTask
  <2> QED
    BY <1>1, <2>1, SendsTraced DEF TracedInv
<1>5. p \in PacketType /\ Traced(sent, p)
  BY <1>2, HeadTask DEF TracedInv, FwdqTraced
<1>6. UNCHANGED txq \/ Schedule(s, p) \/ Schedule(s, Modified(s, p))
  BY <1>1 DEF RouteKind, HandledLocally, PutOnQueue, Ignored, HandledFromRadio
<1>7. UNCHANGED recvLog \/ Annotate(s, p)
  BY <1>1 DEF RouteKind, HandledLocally, PutOnQueue, Ignored, HandledFromRadio
<1>8. UNCHANGED inbox \/ (Delivers(s, p, reqs) /\ p.to \in {s, Localhost} \cup Broadcasts)
  BY <1>1 DEF RouteKind, HandledLocally, PutOnQueue, Ignored, HandledFromRadio, IsLocal, Delivers
<1> HIDE DEF p
<1>9. Modified(s, p) \in PacketType /\ Traced(sent, Modified(s, p))
  BY <1>5, ModifiedType, ModifiedTraced
<1>10. TxqTraced'
  BY <1>3, <1>5, <1>6, <1>9, OthersTraced, ScheduleTraced
<1>11. LogTraced'
  BY <1>3, <1>5, <1>7, OthersTraced, AnnotateTraced
<1>12. InboxTraced'
  BY <1>3, <1>5, <1>8, OthersTraced, DeliversTraced
<1> QED
  BY <1>4, <1>10, <1>11, <1>12 DEF TracedInv

\* By radio: the packets heard are traced as the one transmitted.
LEMMA TransmitTraced ==
    ASSUME TypeOK, FwdqTraced, TxqTraced, NEW s \in Stations, NEW e \in txq[s],
           NEW R \in SUBSET Hearers(s), Transmit(s, e, R), UNCHANGED sent
    PROVE  FwdqTraced' /\ TxqTraced'
<1>1. e.pkt \in PacketType /\ Traced(sent, e.pkt)
  BY DEF TypeOK, TxTasks, TxqTraced
<1>2. ASSUME NEW r \in Stations, NEW i \in 1..Len(fwdq'[r])
      PROVE  Traced(sent, fwdq'[r][i].pkt)
  <2>1. CASE r \notin R
    BY <1>2, <2>1 DEF Transmit, FwdqTraced
  <2>2. CASE r \in R
    <3> DEFINE t == [pkt |-> Decode(e.pkt, Rssi[<<s, r>>]), origin |-> FALSE]
    <3>1. fwdq'[r] = Append(fwdq[r], t) /\ fwdq[r] \in Seq(FwdTasks)
      BY <2>2 DEF Transmit, TypeOK
    <3>2. Rssi[<<s, r>>] \in Int
      BY <2>2, TopologyAssumption DEF Hearers
    <3>3. Traced(sent, t.pkt)
      BY <1>1, <3>2, DecodeTraced
    <3> HIDE DEF t
    <3>4. fwdq'[r][i] = t \/ (i \in 1..Len(fwdq[r]) /\ fwdq'[r][i] = fwdq[r][i])
      BY <1>2, <3>1, AppendProperties
    <3> QED
      BY <3>3, <3>4 DEF FwdqTraced
  <2> QED
    BY <2>1, <2>2
<1>3. \A r \in Stations : \A x \in txq'[r] : Traced(sent, x.pkt)
  BY DEF Transmit, TxqTraced, TypeOK
<1> QED
  BY <1>2, <1>3 DEF FwdqTraced, TxqTraced

LEMMA NextTraced ==
    ASSUME TypeOK, TracedInv, [Next]_vars
    PROVE  TracedInv'
<1>1. TypeOK'
  BY NextType
<1>2. ASSUME NEW s \in Stations, AppSend(s) PROVE TracedInv'
  <2>1. PICK a \in Requests[s] : SendAll(s, <<a>>, fwdq[s])
    BY <1>2 DEF AppSend
  <2>2. a \in Requestables
    BY <2>1, RequestsAssumption
  <2> QED
    BY <1>1, <1>2, <2>1, <2>2, AppTraced DEF AppSend
<1>3. ASSUME NEW s \in Stations, Beacon(s) PROVE TracedInv'
  BY <1>1, <1>3, AppTraced, BeaconRequestType DEF Beacon
<1>4. ASSUME NEW s \in Stations, Route(s) PROVE TracedInv'
  BY <1>1, <1>4, RouteTraced
<1>5. ASSUME UNCHANGED sent PROVE SentGrows
  BY <1>5, LenProperties DEF SentGrows, TypeOK
<1>6. ASSUME NEW s \in Stations, Tx(s) PROVE TracedInv'
  <2>1. PICK e \in txq[s], R \in SUBSET Hearers(s) : Transmit(s, e, R)
    BY <1>6 DEF Tx, Transmit
  <2>2. UNCHANGED <<sent, lastId, nvId, recvLog, inbox>>
    BY <1>6 DEF Tx
  <2>3. FwdqTraced' /\ TxqTraced'
    BY <2>1, <2>2, TransmitTraced DEF TracedInv
  <2>4. Numbered'
    BY <2>2 DEF Numbered, TracedInv
  <2> QED
    BY <1>1, <1>5, <2>2, <2>3, <2>4, OthersTraced DEF TracedInv
<1>7. ASSUME NEW s \in Stations, CleanRecvLog(s) PROVE TracedInv'
  <2>1. recvLog'[s] = Fresh(recvLog[s], RecvLogPersist)
        /\ \A r \in Stations \ {s} : recvLog'[r] = recvLog[r]
    BY <1>7 DEF CleanRecvLog, TypeOK
  <2>2. /\ DOMAIN recvLog'[s] \subseteq DOMAIN recvLog[s]
        /\ \A g \in DOMAIN recvLog'[s] : recvLog'[s][g] = recvLog[s][g]
    BY <2>1 DEF Fresh
  <2>3. LogTraced'
    BY <1>7, <2>1, <2>2 DEF LogTraced, TracedInv, CleanRecvLog
  <2>4. UNCHANGED <<sent, lastId, nvId, inbox, fwdq, txq>>
    BY <1>7 DEF CleanRecvLog
  <2> QED
    BY <2>3, <2>4 DEF TracedInv, Numbered, FwdqTraced, TxqTraced, InboxTraced
<1>8. ASSUME NEW s \in Stations, CleanNeigh(s) PROVE TracedInv'
  BY <1>8 DEF CleanNeigh, TracedInv, Numbered, FwdqTraced, TxqTraced, InboxTraced, LogTraced
<1>9. ASSUME NEW s \in Stations, Reboot(s) PROVE TracedInv'
  <2>1. /\ fwdq'[s] = <<>> /\ txq'[s] = {} /\ recvLog'[s] = Empty /\ lastId'[s] = nvId[s]
        /\ \A r \in Stations \ {s} :
              fwdq'[r] = fwdq[r] /\ txq'[r] = txq[r] /\ recvLog'[r] = recvLog[r]
              /\ lastId'[r] = lastId[r]
        /\ UNCHANGED <<sent, nvId, inbox>>
    BY <1>9 DEF Reboot, TypeOK
  <2>2. Numbered'
    BY <2>1 DEF TracedInv, Numbered
  <2>3. FwdqTraced' /\ TxqTraced' /\ InboxTraced'
    BY <2>1 DEF TracedInv, FwdqTraced, TxqTraced, InboxTraced
  <2>4. LogTraced'
    BY <2>1, EmptyTable DEF TracedInv, LogTraced
  <2> QED
    BY <2>2, <2>3, <2>4 DEF TracedInv
<1>10. ASSUME Tick \/ UNCHANGED vars PROVE TracedInv'
  BY <1>10 DEF Tick, vars, TracedInv, Numbered, FwdqTraced, TxqTraced, InboxTraced, LogTraced
<1> QED
  BY <1>2, <1>3, <1>4, <1>6, <1>7, <1>8, <1>9, <1>10 DEF Next

LEMMA InitTraced == Init => TracedInv
<1> SUFFICES ASSUME Init PROVE TracedInv
  OBVIOUS
<1>1. \A s \in Stations : FirstId[s] \in Nat
  BY BoundsAssumption, SizesAssumption
<1>2. Numbered
  BY <1>1, IdStart DEF Init, Numbered
<1>3. FwdqTraced /\ TxqTraced /\ InboxTraced /\ LogTraced
  BY EmptyTable DEF Init, FwdqTraced, TxqTraced, InboxTraced, LogTraced
<1> QED
  BY <1>2, <1>3 DEF TracedInv

LEMMA AlwaysTraced == Spec => []TracedInv
<1>1. TypeOK /\ TracedInv /\ [Next]_vars => TracedInv'
  BY NextTraced
<1> QED
  BY <1>1, InitTraced, TypeCorrect, PTL DEF Spec

-----------------------------------------------------------------------------
(* What is delivered is what was sent *)

\* A key is worth its name: a packet that passes the test of the key says what
\* its source sent, whatever repeaters did to it (Proto_HMAC, and encode_l3,
\* which cuts the message and leaves the H parameter, Packet.cpp:201).
THEOREM SignedIsIntact == Spec => []IntactWhenSigned
<1>1. InboxTraced => IntactWhenSigned
  <2> SUFFICES ASSUME InboxTraced, NEW s \in Stations, NEW i \in 1..Len(inbox[s]),
                      NEW p, p = inbox[s][i].pkt, Key[s] # NoKey, ~RouteQuery(p)
               PROVE  p.to = sent[p.uid[1]][p.uid[2]].to /\ p.msg = sent[p.uid[1]][p.uid[2]].msg
    BY DEF IntactWhenSigned
  <2>1. Traced(sent, p) /\ ~HmacRejects(s, p)
    BY DEF InboxTraced
  <2>2. PICK a : a = sent[p.from][p.uid[2]]
    OBVIOUS
  <2>3. p.uid[1] = p.from /\ p.to = a.to /\ MacTraced(p, a)
    BY <2>1, <2>2 DEF Traced, MadeOf
  <2>4. p.mac = <<[key |-> Key[s], to |-> p.to, from |-> p.from, id |-> p.id, msg |-> p.msg]>>
    BY <2>1 DEF HmacRejects, Digest
  <2>5. PICK key : p.mac = <<[key |-> key, to |-> a.to, from |-> p.from, id |-> p.id,
                              msg |-> a.msg]>>
    <3>1. p.mac # <<>>
      BY <2>4
    <3> QED
      BY <2>3, <3>1 DEF MacTraced
  <2>6. p.mac[1].msg = p.msg /\ p.mac[1].msg = a.msg
    <3>1. p.mac[1].msg = p.msg
      BY <2>4
    <3>2. p.mac[1].msg = a.msg
      BY <2>5
    <3> QED
      BY <3>1, <3>2
  <2> QED
    BY <2>2, <2>3, <2>6
<1>2. TracedInv => IntactWhenSigned
  BY <1>1 DEF TracedInv
<1> QED
  BY <1>2, AlwaysTraced, PTL

\* What a station remembers of a source, and what reaches it from there, is less
\* than MAX_PACKET_ID packets apart.
RecentIds ==
    \A s \in Stations : \A i \in 1..Len(fwdq[s]) : \A g \in DOMAIN recvLog[s] :
        LET u == fwdq[s][i].pkt.uid
            v == recvLog[s][g].uid IN
        u[1] = v[1] => Near(u[2], v[2])

\* No id is reused too early, reboots included: it takes MAX_PACKET_ID packets
\* of one source within what a receive log remembers before a station takes a
\* packet for another one (get_next_pkt_id, Network.cpp:199-208).
THEOREM DuplicatesAreDuplicates == Spec => [](RecentIds => NoFalseDuplicate)
<1>1. TypeOK /\ TracedInv /\ RecentIds => NoFalseDuplicate
  <2> SUFFICES ASSUME TypeOK, TracedInv, RecentIds,
                      NEW s \in Stations, NEW i \in 1..Len(fwdq[s]),
                      NEW p, p = fwdq[s][i].pkt, Signature(p) \in DOMAIN recvLog[s]
               PROVE  recvLog[s][Signature(p)].uid = p.uid
    BY DEF NoFalseDuplicate
  <2>1. PICK g : g = Signature(p)
    OBVIOUS
  <2>2. PICK v : v = recvLog[s][g].uid
    OBVIOUS
  <2>3. Traced(sent, p) /\ EntryTraced(sent, g, v)
    BY <2>1, <2>2 DEF TracedInv, FwdqTraced, LogTraced
  <2>4. p \in PacketType
    <3>1. fwdq[s] \in Seq(FwdTasks)
      BY DEF TypeOK
    <3>2. fwdq[s][i] \in FwdTasks
      BY <3>1, ElementOfSeq
    <3> QED
      BY <3>2 DEF FwdTasks
  <2>5. g[1] = p.from /\ g[2] = p.id
    BY <2>1 DEF Signature
  <2>6. /\ p.uid = <<p.from, p.uid[2]>> /\ v = <<p.from, v[2]>> /\ p.uid[1] = v[1]
        /\ p.uid[2] \in Nat /\ v[2] \in Nat
        /\ IsId(FirstId[p.from], p.uid[2], p.id) /\ IsId(FirstId[p.from], v[2], p.id)
    <3>1. p.uid[1] = p.from /\ v[1] = p.from
      BY <2>3, <2>5 DEF Traced, EntryTraced
    <3>2. p.uid \in Stations \X (Nat \ {0}) /\ v \in Stations \X (Nat \ {0})
      BY <2>3 DEF Traced, EntryTraced, HasUid
    <3>3. IsId(FirstId[p.from], p.uid[2], p.id) /\ IsId(FirstId[p.from], v[2], p.id)
      BY <2>3, <2>5 DEF Traced, EntryTraced
    <3> QED
      BY <3>1, <3>2, <3>3
  <2>7. Near(p.uid[2], v[2])
    <3>1. g \in DOMAIN recvLog[s]
      BY <2>1
    <3>2. p.uid[1] = v[1] => Near(p.uid[2], v[2])
      BY <2>2, <3>1 DEF RecentIds
    <3> QED
      BY <2>6, <3>2
  <2>8. p.id \in 1..MaxId /\ FirstId[p.from] \in Nat
    <3>1. p.id \in 1..MaxId /\ p.from \in Stations
      BY <2>4 DEF PacketType
    <3> QED
      BY <3>1, BoundsAssumption, SizesAssumption
  <2>9. p.uid[2] = v[2]
    BY <2>6, <2>7, <2>8, IdInjective
  <2> QED
    BY <2>1, <2>2, <2>6, <2>9
<1> QED
  BY <1>1, TypeCorrect, AlwaysTraced, PTL

-----------------------------------------------------------------------------
(* Confirmations *)

\* Applications leave CO to Proto_C.
NoForgedConfirms == \A s \in Stations : \A a \in Requests[s] : "CO" \notin a.params

ConfirmTraced(box, a) ==
    "CO" \in a.params =>
        /\ a.params = {"CO"}
        /\ \E j \in 1..Len(box) : LET p == box[j].pkt IN
              p.from = a.to /\ a.msg = <<Confirm(p.id)>>

\* Each confirmation was sent for a packet in the inbox.
ConfirmsTraced ==
    \A s \in Stations : \A n \in 1..Len(sent[s]) : ConfirmTraced(inbox[s], sent[s][n])

\* The kinds of steps there are for what is sent, queued, logged and delivered.
\* What s sends of its own accord.
Asks(s) == Requests[s] \cup (IF s \in Beaconers THEN {BeaconRequest(s)} ELSE {})

Sending(s, a) ==
    /\ SendsType(s, <<a>>, fwdq[s])
    /\ UNCHANGED <<now, txq, recvLog, boot, inbox, aired>>

Routing(s, reqs) ==
    /\ fwdq[s] # <<>>
    /\ SendsType(s, reqs, Tail(fwdq[s]))
    /\ inbox' = inbox => reqs = <<>>
    /\ RouteKind(s, Head(fwdq[s]), reqs)
    /\ UNCHANGED <<now, boot, aired>>

Airing(s, e, R) ==
    /\ Transmit(s, e, R)
    /\ aired' = [aired EXCEPT ![s] = @ \cup {<<e.pkt.uid, boot[s]>>}]
    /\ UNCHANGED <<now, recvLog, boot, sent, inbox>>

LEMMA Steps ==
    ASSUME TypeOK, [Next]_vars
    PROVE  \/ UNCHANGED <<now, fwdq, txq, recvLog, boot, sent, inbox, aired>>
           \/ \E s \in Stations : \E a \in Asks(s) : Sending(s, a)
           \/ \E s \in Stations : \E reqs \in Seq(Requestables) : Routing(s, reqs)
           \/ \E s \in Stations : \E e \in txq[s], R \in SUBSET Hearers(s) : Airing(s, e, R)
           \/ \E s \in Stations : CleanRecvLog(s) \/ Reboot(s)
           \/ Tick
<1>1. ASSUME NEW s \in Stations, NEW a \in Requestables, SendAll(s, <<a>>, fwdq[s])
      PROVE  SendsType(s, <<a>>, fwdq[s])
  <2>1. <<a>> \in Seq(Requestables) /\ Len(<<a>>) \in 0..2
    OBVIOUS
  <2> QED
    BY <1>1, <2>1 DEF SendsType, TypeOK
<1>2. ASSUME NEW s \in Stations, AppSend(s) PROVE \E a \in Asks(s) : Sending(s, a)
  <2>1. PICK a \in Requests[s] : SendAll(s, <<a>>, fwdq[s])
    BY <1>2 DEF AppSend
  <2>2. UNCHANGED <<now, txq, recvLog, boot, inbox, aired>>
    BY <1>2 DEF AppSend
  <2> QED
    BY <1>1, <2>1, <2>2, RequestsAssumption DEF Sending, Asks
<1>3. ASSUME NEW s \in Stations, Beacon(s) PROVE \E a \in Asks(s) : Sending(s, a)
  <2>1. Sending(s, BeaconRequest(s))
    BY <1>1, <1>3, BeaconRequestType DEF Beacon, Sending
  <2>2. BeaconRequest(s) \in Asks(s)
    BY <1>3 DEF Beacon, Asks
  <2> QED
    BY <2>1, <2>2
<1>4. ASSUME NEW s \in Stations, Route(s)
      PROVE  \E reqs \in Seq(Requestables) : Routing(s, reqs)
  BY <1>4, RouteSends DEF Routing
<1>5. ASSUME NEW s \in Stations, Tx(s)
      PROVE  \E e \in txq[s], R \in SUBSET Hearers(s) : Airing(s, e, R)
  BY <1>5 DEF Tx, Airing, Transmit
<1>6. ASSUME NEW s \in Stations, CleanNeigh(s)
      PROVE  UNCHANGED <<now, fwdq, txq, recvLog, boot, sent, inbox, aired>>
  BY <1>6 DEF CleanNeigh
<1>7. UNCHANGED vars => UNCHANGED <<now, fwdq, txq, recvLog, boot, sent, inbox, aired>>
  BY DEF vars
<1> QED
  BY <1>2, <1>3, <1>4, <1>5, <1>6, <1>7 DEF Next

\* Elements of sent after a step.
LEMMA SentElements ==
    ASSUME TypeOK, NEW s \in Stations, NEW reqs, NEW queue, SendsType(s, reqs, queue),
           NEW n \in 1..Len(sent'[s])
    PROVE  \/ n \in 1..Len(sent[s]) /\ sent'[s][n] = sent[s][n]
           \/ \E m \in 1..Len(reqs) : n = Len(sent[s]) + m /\ sent'[s][n] = reqs[m]
<1>1. /\ Len(sent'[s]) = Len(sent[s]) + Len(reqs) /\ Len(reqs) \in Nat /\ Len(sent[s]) \in Nat
      /\ \A m \in 1..Len(reqs) : sent'[s][Len(sent[s]) + m] = reqs[m]
      /\ \A m \in 1..Len(sent[s]) : sent'[s][m] = sent[s][m]
  BY SentAfter DEF SentGrows
<1>2. CASE n <= Len(sent[s])
  BY <1>1, <1>2
<1>3. CASE ~(n <= Len(sent[s]))
  <2>1. PICK m : m = n - Len(sent[s])
    OBVIOUS
  <2>2. m \in 1..Len(reqs) /\ n = Len(sent[s]) + m
    BY <1>1, <1>3, <2>1
  <2> QED
    BY <1>1, <2>2
<1> QED
  BY <1>2, <1>3

\* The inbox after a delivery.
LEMMA InboxAfter ==
    ASSUME TypeOK, NEW s \in Stations, NEW p \in PacketType, NEW reqs, Delivers(s, p, reqs)
    PROVE  /\ Len(inbox[s]) \in Nat /\ Len(inbox'[s]) = Len(inbox[s]) + 1
           /\ inbox'[s][Len(inbox[s]) + 1] = [pkt |-> p, boot |-> boot[s]]
           /\ \A i \in 1..Len(inbox[s]) : i \in 1..Len(inbox'[s]) /\ inbox'[s][i] = inbox[s][i]
           /\ \A r \in Stations \ {s} : inbox'[r] = inbox[r]
<1> DEFINE x == [pkt |-> p, boot |-> boot[s]]
           Entry == [pkt : PacketType, boot : Nat]
<1>1. x \in Entry /\ inbox[s] \in Seq(Entry) /\ inbox'[s] = Append(inbox[s], x)
      /\ \A r \in Stations \ {s} : inbox'[r] = inbox[r]
  BY DEF Delivers, TypeOK
<1> HIDE DEF Entry
<1>2. /\ Len(Append(inbox[s], x)) = Len(inbox[s]) + 1 /\ Len(inbox[s]) \in Nat
      /\ Append(inbox[s], x)[Len(inbox[s]) + 1] = x
      /\ \A i \in 1..Len(inbox[s]) : Append(inbox[s], x)[i] = inbox[s][i]
  <2> HIDE DEF x
  <2> QED
    BY <1>1, AppendProperties, LenProperties
<1> QED
  BY <1>1, <1>2

LEMMA ConfirmsStep ==
    ASSUME TypeOK, NoForgedConfirms, ConfirmsTraced, [Next]_vars
    PROVE  ConfirmsTraced'
<1>1. CASE UNCHANGED <<sent, inbox>>
  BY <1>1 DEF ConfirmsTraced
<1>2. ASSUME NEW s \in Stations, NEW a \in Asks(s), Sending(s, a)
      PROVE  ConfirmsTraced'
  <2>0. SendsType(s, <<a>>, fwdq[s]) /\ UNCHANGED inbox
    BY <1>2 DEF Sending
  <2>1. "CO" \notin a.params
    BY <1>2 DEF NoForgedConfirms, BeaconRequest, Asks
  <2>2. \A m \in 1..Len(<<a>>) : <<a>>[m] = a
    OBVIOUS
  <2>3. ASSUME NEW n \in 1..Len(sent'[s]) PROVE ConfirmTraced(inbox[s], sent'[s][n])
    <3>1. PICK reqs : reqs = <<a>> /\ \A m \in 1..Len(reqs) : reqs[m] = a
      BY <2>2
    <3>2. \/ n \in 1..Len(sent[s]) /\ sent'[s][n] = sent[s][n]
          \/ sent'[s][n] = a
      <4>1. SendsType(s, reqs, fwdq[s])
        BY <2>0, <3>1
      <4>2. \/ n \in 1..Len(sent[s]) /\ sent'[s][n] = sent[s][n]
            \/ \E m \in 1..Len(reqs) : n = Len(sent[s]) + m /\ sent'[s][n] = reqs[m]
        BY <4>1, SentElements
      <4> QED
        BY <3>1, <4>2
    <3>3. ConfirmTraced(inbox[s], a)
      BY <2>1 DEF ConfirmTraced
    <3> QED
      BY <3>2, <3>3 DEF ConfirmsTraced
  <2>4. \A r \in Stations \ {s} : sent'[r] = sent[r]
    BY <2>0, SentAfter
  <2> QED
    BY <2>0, <2>3, <2>4 DEF ConfirmsTraced
<1>3. ASSUME NEW s \in Stations, NEW reqs \in Seq(Requestables), Routing(s, reqs)
      PROVE  ConfirmsTraced'
  <2>0. /\ fwdq[s] # <<>> /\ SendsType(s, reqs, Tail(fwdq[s]))
        /\ inbox' = inbox => reqs = <<>>
        /\ RouteKind(s, Head(fwdq[s]), reqs)
    BY <1>3 DEF Routing
  <2>1. PICK p \in PacketType : p = Head(fwdq[s]).pkt
    BY <2>0, HeadTask
  <2>2. \A r \in Stations \ {s} : sent'[r] = sent[r]
    BY <2>0, SentAfter
  <2>3. CASE reqs = <<>> /\ inbox' = inbox
    <3>1. ASSUME NEW n \in 1..Len(sent'[s]) PROVE ConfirmTraced(inbox[s], sent'[s][n])
      BY <2>0, <2>3, SentElements DEF ConfirmsTraced
    <3> QED
      BY <2>2, <2>3, <3>1 DEF ConfirmsTraced
  <2>4. CASE Delivers(s, p, reqs)
    <3>1. /\ Len(inbox[s]) \in Nat /\ Len(inbox'[s]) = Len(inbox[s]) + 1
          /\ inbox'[s][Len(inbox[s]) + 1].pkt = p
          /\ \A i \in 1..Len(inbox[s]) : i \in 1..Len(inbox'[s]) /\ inbox'[s][i] = inbox[s][i]
          /\ \A r \in Stations \ {s} : inbox'[r] = inbox[r]
      <4> DEFINE x == [pkt |-> p, boot |-> boot[s]]
      <4>1. x.pkt = p
        OBVIOUS
      <4>2. /\ Len(inbox[s]) \in Nat /\ Len(inbox'[s]) = Len(inbox[s]) + 1
            /\ inbox'[s][Len(inbox[s]) + 1] = x
            /\ \A i \in 1..Len(inbox[s]) : i \in 1..Len(inbox'[s]) /\ inbox'[s][i] = inbox[s][i]
            /\ \A r \in Stations \ {s} : inbox'[r] = inbox[r]
        BY <2>4, InboxAfter
      <4> HIDE DEF x
      <4> QED
        BY <4>1, <4>2
    <3>2. ASSUME NEW a, ConfirmTraced(inbox[s], a) PROVE ConfirmTraced(inbox'[s], a)
      BY <3>1, <3>2 DEF ConfirmTraced
    <3>3. ASSUME NEW m \in 1..Len(reqs) PROVE ConfirmTraced(inbox'[s], reqs[m])
      <4>1. reqs = Answers(s, p)
        BY <2>4 DEF Delivers
      <4>2. /\ reqs[m].to = p.from
            /\ \/ reqs[m].params = {"CO"} /\ reqs[m].msg = <<Confirm(p.id)>>
               \/ reqs[m].params = {"PONG"}
               \/ reqs[m].params = {"RRSP"}
        <5>1. AnswerKind(p, reqs[m])
          BY <1>3, <2>1, <3>3, <4>1, AnswersKind
        <5> QED
          BY <5>1 DEF AnswerKind
      <4>3. Len(inbox[s]) + 1 \in 1..Len(inbox'[s])
        BY <3>1
      <4> QED
        BY <3>1, <4>2, <4>3 DEF ConfirmTraced
    <3>4. ASSUME NEW n \in 1..Len(sent'[s]) PROVE ConfirmTraced(inbox'[s], sent'[s][n])
      BY <2>0, <3>2, <3>3, SentElements DEF ConfirmsTraced
    <3> QED
      BY <2>2, <3>1, <3>4 DEF ConfirmsTraced
  <2> QED
    BY <2>0, <2>1, <2>3, <2>4 DEF RouteKind, Ignored, PutOnQueue
<1>4. ASSUME NEW s \in Stations, CleanRecvLog(s) \/ Reboot(s) PROVE UNCHANGED <<sent, inbox>>
  BY <1>4 DEF CleanRecvLog, Reboot
<1>5. ASSUME NEW s \in Stations, NEW e, NEW R, Airing(s, e, R) PROVE UNCHANGED <<sent, inbox>>
  BY <1>5 DEF Airing
<1>6. Tick => UNCHANGED <<sent, inbox>>
  BY DEF Tick
<1> QED
  BY <1>1, <1>2, <1>3, <1>4, <1>5, <1>6, Steps

\* A confirmation means that the application of the station it comes from has
\* the packet: with room for the four items of a relayed, signed confirmation
\* it is never cut, and neither losses nor reboots make one up.
THEOREM ConfirmedIsDelivered ==
    ASSUME NoForgedConfirms, MaxPayload >= 4
    PROVE  Spec => []ConfirmMeansDelivered
<1>1. Init => ConfirmsTraced
  BY DEF Init, ConfirmsTraced
<1>2. TypeOK /\ ConfirmsTraced /\ [Next]_vars => ConfirmsTraced'
  BY ConfirmsStep
<1>3. TypeOK /\ TracedInv /\ ConfirmsTraced => ConfirmMeansDelivered
  <2> SUFFICES ASSUME TypeOK, TracedInv, ConfirmsTraced,
                      NEW s \in Stations, NEW i \in 1..Len(inbox[s]),
                      "CO" \in inbox[s][i].pkt.params
               PROVE  \E j \in 1..Len(inbox[inbox[s][i].pkt.from]) :
                         /\ inbox[inbox[s][i].pkt.from][j].pkt.from = s
                         /\ <<Confirm(inbox[inbox[s][i].pkt.from][j].pkt.id)>>
                              = inbox[s][i].pkt.msg
    BY DEF ConfirmMeansDelivered
  <2> DEFINE co == inbox[s][i].pkt
  <2>1. Traced(sent, co) /\ co.to \in {s, Localhost} \cup Broadcasts
    BY DEF TracedInv, InboxTraced
  <2>2. PICK a : a = sent[co.from][co.uid[2]]
    OBVIOUS
  <2>3. MadeOf(co, a) /\ co.from \in Stations /\ co.uid[2] \in 1..Len(sent[co.from])
    <3>1. co.uid[1] = co.from /\ co.uid[1] \in Stations /\ co.uid[2] \in Nat \ {0}
          /\ co.uid[2] <= Len(sent[co.uid[1]])
      BY <2>1 DEF Traced, HasUid
    <3>2. Len(sent[co.from]) \in Nat
      BY <3>1, LenProperties DEF TypeOK
    <3>3. co.uid[2] \in 1..Len(sent[co.from])
      BY <3>1, <3>2
    <3> QED
      BY <2>1, <2>2, <3>1, <3>3 DEF Traced
  <2>4. ConfirmTraced(inbox[co.from], a) /\ a \in Requestables
    BY <2>2, <2>3, ElementOfSeq DEF ConfirmsTraced, TypeOK
  <2>5. "CO" \in a.params
    BY <2>3 DEF MadeOf
  <2>6. PICK j \in 1..Len(inbox[co.from]) :
               inbox[co.from][j].pkt.from = a.to /\ a.msg = <<Confirm(inbox[co.from][j].pkt.id)>>
    BY <2>4, <2>5 DEF ConfirmTraced
  <2>7. a.params = {"CO"}
    BY <2>4, <2>5 DEF ConfirmTraced
  <2>8. inbox[co.from][j].pkt.from \in Stations
    <3> DEFINE Entry == [pkt : PacketType, boot : Nat]
    <3>1. inbox[co.from] \in Seq(Entry)
      BY <2>3 DEF TypeOK
    <3> HIDE DEF Entry
    <3>2. inbox[co.from][j] \in Entry
      BY <3>1, ElementOfSeq
    <3> QED
      BY <3>2 DEF Entry, PacketType
  <2>9. a.to = s
    BY <2>1, <2>3, <2>6, <2>8, StationsAssumption DEF MadeOf
  <2>10. ~RouteQuery(co)
    BY <2>3, <2>7 DEF MadeOf, RouteQuery
  <2>11. Fits(a)
    <3>1. Len(a.msg) = 1
      BY <2>6
    <3>2. Cardinality(a.params) = 1
      BY <2>7, FS_Singleton
    <3> QED
      BY <3>1, <3>2, SizesAssumption DEF Fits
  <2>12. co.msg = a.msg
    BY <2>3, <2>10, <2>11 DEF MadeOf
  <2> QED
    BY <2>6, <2>9, <2>12
<1> QED
  BY <1>1, <1>2, <1>3, TypeCorrect, AlwaysTraced, PTL DEF Spec

=============================================================================
