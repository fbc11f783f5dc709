----------------------------- MODULE MeshProofs -----------------------------
(* Invariants of Mesh for every topology, every bound and every size. *)
EXTENDS Mesh, TLAPS, SequenceTheorems, FiniteSetTheorems

-----------------------------------------------------------------------------
(* What the operators of Packets return and preserve, for every packet. *)

\* A function from 1..n is a sequence of length n.
LEMMA FunctionIsSeq ==
    ASSUME NEW S, NEW n \in Nat, NEW f \in [1..n -> S]
    PROVE  f \in Seq(S) /\ Len(f) = n
OBVIOUS

LEMMA ParamNamesFinite == IsFiniteSet(ParamNames)
<1>1. \A x, y : IsFiniteSet({x, y})
  <2>1. TAKE x, y
  <2>2. {x, y} = {x} \cup {y}
    OBVIOUS
  <2>3. IsFiniteSet({x} \cup {y})
    BY FS_Singleton, FS_AddElement
  <2> QED
    BY <2>2, <2>3
<1>2. ParamNames = (({"C", "CO"} \cup {"PING", "PONG"}) \cup {"RREQ", "RRSP"}) \cup {"R"}
  BY DEF ParamNames
<1>3. IsFiniteSet({"R"})
  BY FS_Singleton
<1> QED
  BY <1>1, <1>2, <1>3, FS_Union

\* The room for the message is a number: a packet has finitely many parameters.
LEMMA RoomType ==
    ASSUME NEW p \in PacketType
    PROVE  Room(p) \in Int
<1>2. Cardinality(p.params) \in Nat
  BY ParamNamesFinite, FS_Subset, FS_CardinalityType DEF PacketType
<1>3. Len(p.mac) \in Nat
  BY LenProperties DEF PacketType
<1> QED
  BY <1>2, <1>3, SizesAssumption DEF Room, HeaderSize

\* Encoding changes nothing but the message, and that only if there is no room.
LEMMA EncodeType ==
    ASSUME NEW p \in PacketType
    PROVE  /\ Encode(p) \in PacketType
           /\ Encode(p) = [p EXCEPT !.msg = Encode(p).msg]
           /\ Len(p.msg) <= Room(p) => Encode(p).msg = p.msg
<1> DEFINE n == IF Len(p.msg) <= Room(p) THEN Len(p.msg) ELSE Room(p)
<1>1. p.msg \in Seq(Items)
  BY DEF PacketType, Messages
<1>2. n \in Int /\ n <= Len(p.msg)
  BY <1>1, RoomType, LenProperties
<1>3. SubSeq(p.msg, 1, n) \in Seq(Items)
  <2>1. \A i \in 1..n : p.msg[i] \in Items
    BY <1>1, <1>2, ElementOfSeq, LenProperties
  <2> QED
    BY <1>2, <2>1, SubSeqProperties
<1>4. Encode(p) = [p EXCEPT !.msg = SubSeq(p.msg, 1, n)]
  BY DEF Encode, PacketType
<1>5. SubSeq(p.msg, 1, Len(p.msg)) = p.msg
  BY <1>1
<1> QED
  BY <1>3, <1>4, <1>5 DEF PacketType, Messages

\* Signing a packet touches its mac only.
LEMMA HmacTxType ==
    ASSUME NEW s \in Stations, NEW p \in PacketType
    PROVE  /\ HmacTx(s, p) \in PacketType
           /\ HmacTx(s, p) = [p EXCEPT !.mac = HmacTx(s, p).mac]
<1>1. [key |-> Key[s], to |-> p.to, from |-> p.from, id |-> p.id, msg |-> p.msg] \in Digests
  BY DEF Digests, PacketType
<1>2. Digest(Key[s], p) \in Seq(Digests)
  BY <1>1 DEF Digest
<1> QED
  BY <1>2 DEF HmacTx, PacketType

\* A handled packet is answered with at most two requests.
LEMMA AnswersType ==
    ASSUME NEW s \in Stations, NEW p \in PacketType
    PROVE  /\ Answers(s, p) \in Seq(Requestables) /\ Len(Answers(s, p)) \in 0..2
           /\ ConfirmAnswer(p) \in Seq(Requestables) /\ L7Answer(s, p) \in Seq(Requestables)
<1>1. p.from \in Callsigns /\ p.msg \in Messages /\ p.rssi \in Int /\ p.id \in Int
  BY SizesAssumption DEF PacketType, Callsigns
<1>2. <<Confirm(p.id)>> \in Messages /\ Append(p.msg, Dest(s, p.rssi)) \in Messages
  <2>1. Confirm(p.id) \in Items /\ Dest(s, p.rssi) \in Items
    BY <1>1 DEF Items, Confirm, Dest
  <2> QED
    BY <1>1, <2>1 DEF Messages
<1>3. ConfirmAnswer(p) \in Seq(Requestables) /\ Len(ConfirmAnswer(p)) \in 0..1
  <2>1. [to |-> p.from, params |-> {"CO"}, msg |-> <<Confirm(p.id)>>] \in Requestables
    BY <1>1, <1>2 DEF Requestables, ParamNames
  <2> QED
    BY <2>1 DEF ConfirmAnswer
<1>4. L7Answer(s, p) \in Seq(Requestables) /\ Len(L7Answer(s, p)) \in 0..1
  <2>1. PingAnswer(p) \in Seq(Requestables) /\ Len(PingAnswer(p)) \in 0..1
    <3>1. [to |-> p.from, params |-> {"PONG"}, msg |-> p.msg] \in Requestables
      BY <1>1 DEF Requestables, ParamNames
    <3> QED
      BY <3>1 DEF PingAnswer
  <2>2. RreqAnswer(s, p) \in Seq(Requestables) /\ Len(RreqAnswer(s, p)) \in 0..1
    <3>1. [to |-> p.from, params |-> {"RRSP"}, msg |-> Append(p.msg, Dest(s, p.rssi))]
            \in Requestables
      BY <1>1, <1>2 DEF Requestables, ParamNames
    <3> QED
      BY <3>1 DEF RreqAnswer
  <2> QED
    BY <2>1, <2>2 DEF L7Answer
<1> QED
  BY <1>3, <1>4, ConcatProperties DEF Answers

\* An answer goes to the source of a unicast packet, and its flag tells which
\* request of the packet it is for.
AnswerKind(p, a) ==
    /\ a.to = p.from /\ Unicast(p)
    /\ \/ /\ a.params = {"CO"} /\ a.msg = <<Confirm(p.id)>>
          /\ "C" \in p.params /\ "CO" \notin p.params
       \/ a.params = {"PONG"} /\ "PING" \in p.params
       \/ a.params = {"RRSP"} /\ "RREQ" \in p.params

LEMMA AnswersKind ==
    ASSUME NEW s \in Stations, NEW p \in PacketType
    PROVE  \A n \in 1..Len(Answers(s, p)) : AnswerKind(p, Answers(s, p)[n])
<1> SUFFICES ASSUME NEW n \in 1..Len(Answers(s, p)), NEW a, a = Answers(s, p)[n]
             PROVE  AnswerKind(p, a)
  OBVIOUS
<1> DEFINE c == ConfirmAnswer(p)
           d == L7Answer(s, p)
           co == [to |-> p.from, params |-> {"CO"}, msg |-> <<Confirm(p.id)>>]
           pong == [to |-> p.from, params |-> {"PONG"}, msg |-> p.msg]
           rrsp == [to |-> p.from, params |-> {"RRSP"}, msg |-> Append(p.msg, Dest(s, p.rssi))]
<1>1. \/ c = <<>>
      \/ c = <<co>> /\ Unicast(p) /\ "C" \in p.params /\ "CO" \notin p.params
  BY DEF ConfirmAnswer
<1>2. \/ d = <<>>
      \/ d = <<pong>> /\ Unicast(p) /\ "PING" \in p.params
      \/ d = <<rrsp>> /\ Unicast(p) /\ "RREQ" \in p.params
  BY DEF L7Answer, PingAnswer, RreqAnswer
<1>3. a = (c \o d)[n] /\ n \in 1..Len(c \o d)
  BY DEF Answers
<1>4. /\ co.to = p.from /\ co.params = {"CO"} /\ co.msg = <<Confirm(p.id)>>
      /\ pong.to = p.from /\ pong.params = {"PONG"}
      /\ rrsp.to = p.from /\ rrsp.params = {"RRSP"}
  OBVIOUS
<1> HIDE DEF c, d, co, pong, rrsp
<1>5. CASE c = <<>> /\ d = <<>>
  BY <1>3, <1>5 DEF AnswerKind
<1>6. CASE c = <<>> /\ d # <<>>
  BY <1>2, <1>3, <1>4, <1>6 DEF AnswerKind
<1>7. CASE c # <<>> /\ d = <<>>
  BY <1>1, <1>3, <1>4, <1>7 DEF AnswerKind
<1>8. CASE c # <<>> /\ d # <<>>
  BY <1>1, <1>2, <1>3, <1>4, <1>8 DEF AnswerKind
<1> QED
  BY <1>5, <1>6, <1>7, <1>8

\* What a repeater does to a packet: it marks it with R, and may lengthen the
\* message of a route query; the rest stays.
LEMMA ModifiedType ==
    ASSUME NEW s \in Stations, NEW p \in PacketType
    PROVE  /\ Modified(s, p) \in PacketType
           /\ Modified(s, p).params = p.params \cup {"R"}
           /\ Modified(s, p).to = p.to
           /\ Modified(s, p).from = p.from
           /\ Modified(s, p).id = p.id
           /\ Modified(s, p).mac = p.mac
           /\ Modified(s, p).uid = p.uid
           /\ ~RouteQuery(p) => Modified(s, p).msg = p.msg
<1> DEFINE q == ModfR(p)
<1>1. q = [p EXCEPT !.params = p.params \cup {"R"}, !.rssi = 0]
  BY DEF ModfR, ChangeParams, DefaultRssi
<1>2. q \in PacketType /\ q.params = p.params \cup {"R"} /\ q.msg = p.msg /\ q.mac = p.mac
      /\ q.uid = p.uid /\ q.rssi = 0 /\ q.to = p.to /\ q.from = p.from /\ q.id = p.id
  <2>1. p.params \cup {"R"} \in SUBSET ParamNames /\ 0 \in Int
    BY DEF PacketType, ParamNames
  <2>2. p = [to |-> p.to, from |-> p.from, id |-> p.id, params |-> p.params, mac |-> p.mac,
             msg |-> p.msg, rssi |-> p.rssi, uid |-> p.uid]
    BY DEF PacketType
  <2>3. q = [to |-> p.to, from |-> p.from, id |-> p.id, params |-> p.params \cup {"R"},
             mac |-> p.mac, msg |-> p.msg, rssi |-> 0, uid |-> p.uid]
    BY <1>1, <2>2
  <2> HIDE DEF q
  <2>4. q \in PacketType
    BY <2>1, <2>3 DEF PacketType
  <2> QED
    BY <2>3, <2>4
<1> HIDE DEF q
<1>3. Append(q.msg, Hop(s, q.rssi)) \in Messages
  <2>1. Hop(s, q.rssi) \in Items
    BY <1>2, 0 \in Int DEF Items, Hop
  <2> QED
    BY <1>2, <2>1 DEF PacketType, Messages
<1>4. RouteQuery(q) <=> RouteQuery(p)
  BY <1>2 DEF RouteQuery
<1>5. Modified(s, p) = ModfRreq(s, q)
  BY DEF Modified, q
<1>6. CASE q.to \in Stations /\ RouteQuery(q)
  <2>1. Modified(s, p) = [q EXCEPT !.msg = Append(q.msg, Hop(s, q.rssi)), !.rssi = 0]
    BY <1>5, <1>6 DEF ModfRreq, ChangeMsg, DefaultRssi
  <2> QED
    BY <1>2, <1>3, <1>4, <1>6, <2>1 DEF PacketType
<1>7. CASE ~(q.to \in Stations /\ RouteQuery(q))
  BY <1>2, <1>5, <1>7 DEF ModfRreq
<1> QED
  BY <1>6, <1>7

-----------------------------------------------------------------------------
(* Packets that send() makes *)

\* The packet counter stays in range, wrap included.
LEMMA NthIdType ==
    ASSUME NEW i \in 1..MaxId, NEW n \in 0..2
    PROVE  NthId(i, n) \in 1..MaxId
BY SizesAssumption DEF NthId, NextId

LEMMA OriginateType ==
    ASSUME TypeOK, NEW s \in Stations, NEW n \in 1..2, NEW a \in Requestables
    PROVE  /\ Originate(s, n, a) \in PacketType
           /\ Originate(s, n, a).from = s
           /\ Originate(s, n, a).params = a.params
           /\ Originate(s, n, a).to = a.to
           /\ Originate(s, n, a).msg = a.msg
           /\ Originate(s, n, a).uid = <<s, Len(sent[s]) + n>>
           /\ Originate(s, n, a).id = NthId(lastId[s], n)
           /\ \/ Originate(s, n, a).mac = <<>>
              \/ \E key : Originate(s, n, a).mac = Digest(key, Originate(s, n, a))
<1> DEFINE p == [to     |-> a.to,
                 from   |-> s,
                 id     |-> NthId(lastId[s], n),
                 params |-> a.params,
                 mac    |-> <<>>,
                 msg    |-> a.msg,
                 rssi   |-> DefaultRssi,
                 uid    |-> <<s, Len(sent[s]) + n>>]
<1>1. NthId(lastId[s], n) \in 1..MaxId
  <2>1. lastId[s] \in 1..MaxId /\ n \in 0..2
    BY DEF TypeOK
  <2> QED
    BY <2>1, NthIdType
<1>2. Len(sent[s]) + n \in Nat \ {0}
  BY LenProperties DEF TypeOK
<1>3. a.to \in Callsigns /\ a.params \in SUBSET ParamNames /\ a.msg \in Messages
  BY DEF Requestables
<1>4. DefaultRssi \in Int /\ <<>> \in Seq(Digests)
  BY DEF DefaultRssi
<1>5. p \in PacketType
  BY <1>1, <1>2, <1>3, <1>4 DEF PacketType
<1>6. Originate(s, n, a) = HmacTx(s, p)
  BY DEF Originate
<1>7. p.from = s /\ p.params = a.params /\ p.to = a.to /\ p.msg = a.msg
      /\ p.uid = <<s, Len(sent[s]) + n>> /\ p.id = NthId(lastId[s], n) /\ p.mac = <<>>
  OBVIOUS
<1> HIDE DEF p
<1>8. /\ HmacTx(s, p).from = p.from /\ HmacTx(s, p).params = p.params /\ HmacTx(s, p).to = p.to
      /\ HmacTx(s, p).msg = p.msg /\ HmacTx(s, p).uid = p.uid /\ HmacTx(s, p).id = p.id
  BY <1>5, HmacTxType DEF PacketType
<1>9. HmacTx(s, p).mac = <<>> \/ HmacTx(s, p).mac = Digest(Key[s], p)
  BY <1>5, <1>7 DEF HmacTx, PacketType
<1>10. Digest(Key[s], HmacTx(s, p)) = Digest(Key[s], p)
  BY <1>8 DEF Digest
<1> QED
  BY <1>5, <1>6, <1>7, <1>8, <1>9, <1>10, HmacTxType

\* The effect of send() on the variables it writes.
LEMMA SendAllType ==
    ASSUME TypeOK, NEW s \in Stations,
           NEW reqs \in Seq(Requestables), Len(reqs) \in 0..2,
           NEW queue \in Seq(FwdTasks),
           SendAll(s, reqs, queue)
    PROVE  /\ lastId' \in [Stations -> 1..MaxId]
           /\ nvId' \in [Stations -> 1..MaxId]
           /\ sent' \in [Stations -> Seq(Requestables)]
           /\ fwdq' \in [Stations -> Seq(FwdTasks)]
           /\ \A r \in Stations \ {s} : fwdq'[r] = fwdq[r] /\ sent'[r] = sent[r]
           /\ sent'[s] = sent[s] \o reqs
           /\ \A i \in 1..Len(fwdq'[s]) :
                \/ i \in 1..Len(queue) /\ fwdq'[s][i] = queue[i]
                \/ \E n \in 1..Len(reqs) :
                     /\ i = Len(queue) + n
                     /\ fwdq'[s][i] = [pkt |-> Originate(s, n, reqs[n]), origin |-> TRUE]
<1> DEFINE new == [n \in 1..Len(reqs) |-> [pkt |-> Originate(s, n, reqs[n]), origin |-> TRUE]]
<1>0. Len(reqs) \in Nat /\ Len(reqs) <= 2
  <2>1. \A k \in 0..2 : k \in Nat /\ k <= 2
    OBVIOUS
  <2> QED
    BY <2>1
<1>1. lastId' \in [Stations -> 1..MaxId] /\ nvId' \in [Stations -> 1..MaxId]
  BY NthIdType DEF SendAll, TypeOK
<1>2. sent[s] \o reqs \in Seq(Requestables)
  BY ConcatProperties DEF TypeOK
<1>3. \A n \in 1..Len(reqs) : [pkt |-> Originate(s, n, reqs[n]), origin |-> TRUE] \in FwdTasks
  <2>1. TAKE n \in 1..Len(reqs)
  <2>2. n \in 1..2 /\ reqs[n] \in Requestables
    <3>1. n \in 1..2
      BY <1>0
    <3>2. reqs[n] \in Requestables
      BY ElementOfSeq
    <3> QED
      BY <3>1, <3>2
  <2>3. Originate(s, n, reqs[n]) \in PacketType
    BY <2>2, OriginateType
  <2> QED
    BY <2>3 DEF FwdTasks
<1>4. new \in Seq(FwdTasks) /\ Len(new) = Len(reqs)
  <2>1. new \in [1..Len(reqs) -> FwdTasks]
    BY <1>3
  <2>2. Len(reqs) \in Nat
    OBVIOUS
  <2> HIDE DEF new
  <2> QED
    BY <2>1, <2>2, FunctionIsSeq
<1>5. \A n \in 1..Len(reqs) : new[n] = [pkt |-> Originate(s, n, reqs[n]), origin |-> TRUE]
  OBVIOUS
<1>6. fwdq' = [fwdq EXCEPT ![s] = queue \o new] /\ sent' = [sent EXCEPT ![s] = sent[s] \o reqs]
  BY DEF SendAll
<1> HIDE DEF new
<1>7. /\ queue \o new \in Seq(FwdTasks)
      /\ Len(queue \o new) = Len(queue) + Len(reqs)
      /\ \A i \in 1..Len(queue) + Len(reqs) :
            (queue \o new)[i] = IF i <= Len(queue) THEN queue[i] ELSE new[i - Len(queue)]
  <2>1. /\ queue \o new \in Seq(FwdTasks)
        /\ Len(queue \o new) = Len(queue) + Len(new)
        /\ \A i \in 1..Len(queue) + Len(new) :
              (queue \o new)[i] = IF i <= Len(queue) THEN queue[i] ELSE new[i - Len(queue)]
    BY <1>4, ConcatProperties, Zenon
  <2> QED
    BY <1>4, <2>1, Zenon
<1>8. fwdq'[s] = queue \o new /\ sent'[s] = sent[s] \o reqs
      /\ \A r \in Stations \ {s} : fwdq'[r] = fwdq[r] /\ sent'[r] = sent[r]
  BY <1>6 DEF TypeOK
<1>9. ASSUME NEW i \in 1..Len(fwdq'[s])
      PROVE  \/ i \in 1..Len(queue) /\ fwdq'[s][i] = queue[i]
             \/ \E n \in 1..Len(reqs) :
                  /\ i = Len(queue) + n
                  /\ fwdq'[s][i] = [pkt |-> Originate(s, n, reqs[n]), origin |-> TRUE]
  <2>0. Len(queue) \in Nat /\ Len(reqs) \in Nat
    BY LenProperties
  <2>1. i \in 1..Len(queue) + Len(reqs)
    BY <1>7, <1>8
  <2>2. CASE i <= Len(queue)
    <3>1. i \in 1..Len(queue)
      BY <2>0, <2>1, <2>2
    <3>2. fwdq'[s][i] = queue[i]
      BY <1>7, <1>8, <2>1, <2>2
    <3> QED
      BY <3>1, <3>2
  <2>3. CASE i > Len(queue)
    <3>1. i - Len(queue) \in 1..Len(reqs) /\ i = Len(queue) + (i - Len(queue))
      BY <2>0, <2>1, <2>3
    <3>2. fwdq'[s][i] = new[i - Len(queue)]
      BY <1>7, <1>8, <2>0, <2>1, <2>3
    <3> QED
      BY <1>5, <3>1, <3>2
  <2>4. i <= Len(queue) \/ i > Len(queue)
    BY <2>0, <2>1
  <2> QED
    BY <2>2, <2>3, <2>4
<1>10. fwdq' \in [Stations -> Seq(FwdTasks)] /\ sent' \in [Stations -> Seq(Requestables)]
  BY <1>2, <1>6, <1>7 DEF TypeOK
<1> QED
  BY <1>1, <1>8, <1>9, <1>10

-----------------------------------------------------------------------------
(* Queues *)

SendTypes ==
    /\ lastId \in [Stations -> 1..MaxId]
    /\ nvId \in [Stations -> 1..MaxId]
    /\ sent \in [Stations -> Seq(Requestables)]
    /\ fwdq \in [Stations -> Seq(FwdTasks)]
    /\ inbox \in [Stations -> Seq([pkt : PacketType, boot : Nat])]

\* In a step of s, its fwdq gains nothing but packets that s originates.
QueueStep(s) ==
    /\ \A r \in Stations \ {s} : fwdq'[r] = fwdq[r]
    /\ \A i \in 1..Len(fwdq'[s]) :
         \/ \E j \in 1..Len(fwdq[s]) : fwdq'[s][i] = fwdq[s][j]
         \/ fwdq'[s][i].origin /\ fwdq'[s][i].pkt.from = s

LEMMA HeadTask ==
    ASSUME TypeOK, NEW s \in Stations, fwdq[s] # <<>>
    PROVE  /\ Head(fwdq[s]).pkt \in PacketType
           /\ Head(fwdq[s]).origin \in BOOLEAN
           /\ Head(fwdq[s]) = fwdq[s][1] /\ 1 \in 1..Len(fwdq[s])
           /\ Tail(fwdq[s]) \in Seq(FwdTasks)
           /\ \A i \in 1..Len(Tail(fwdq[s])) :
                i + 1 \in 1..Len(fwdq[s]) /\ Tail(fwdq[s])[i] = fwdq[s][i + 1]
<1>1. fwdq[s] \in Seq(FwdTasks)
  BY DEF TypeOK
<1>2. Head(fwdq[s]) \in FwdTasks /\ Head(fwdq[s]) = fwdq[s][1]
  BY <1>1, HeadTailProperties
<1>3. Len(fwdq[s]) \in Nat \ {0}
  BY <1>1, EmptySeq
<1>4. /\ Tail(fwdq[s]) \in Seq(FwdTasks)
      /\ Len(Tail(fwdq[s])) = Len(fwdq[s]) - 1
      /\ \A i \in 1..Len(Tail(fwdq[s])) : Tail(fwdq[s])[i] = fwdq[s][i + 1]
  BY <1>1, HeadTailProperties
<1>5. \A i \in 1..Len(Tail(fwdq[s])) : i + 1 \in 1..Len(fwdq[s])
  BY <1>3, <1>4
<1> QED
  BY <1>2, <1>3, <1>4, <1>5 DEF FwdTasks

LEMMA SkipStep ==
    ASSUME TypeOK, NEW s \in Stations, fwdq[s] # <<>>, Skip(s)
    PROVE  SendTypes' /\ QueueStep(s)
<1>1. fwdq' = [fwdq EXCEPT ![s] = Tail(fwdq[s])]
  BY DEF Skip
<1>2. fwdq' \in [Stations -> Seq(FwdTasks)] /\ fwdq'[s] = Tail(fwdq[s])
      /\ \A r \in Stations \ {s} : fwdq'[r] = fwdq[r]
  BY <1>1, HeadTask DEF TypeOK
<1>3. QueueStep(s)
  BY <1>2, HeadTask DEF QueueStep
<1> QED
  BY <1>2, <1>3 DEF Skip, SendTypes, TypeOK

\* send() called for reqs, when the queue holds the tail of fwdq[s] or all of it.
LEMMA SendStep ==
    ASSUME TypeOK, NEW s \in Stations,
           NEW reqs \in Seq(Requestables), Len(reqs) \in 0..2,
           NEW queue \in Seq(FwdTasks),
           \A i \in 1..Len(queue) : \E j \in 1..Len(fwdq[s]) : queue[i] = fwdq[s][j],
           SendAll(s, reqs, queue)
    PROVE  QueueStep(s)
<1>1. ASSUME NEW i \in 1..Len(fwdq'[s])
      PROVE  \/ \E j \in 1..Len(fwdq[s]) : fwdq'[s][i] = fwdq[s][j]
             \/ fwdq'[s][i].origin /\ fwdq'[s][i].pkt.from = s
  <2>1. CASE i \in 1..Len(queue) /\ fwdq'[s][i] = queue[i]
    BY <2>1
  <2>2. CASE \E n \in 1..Len(reqs) :
               /\ i = Len(queue) + n
               /\ fwdq'[s][i] = [pkt |-> Originate(s, n, reqs[n]), origin |-> TRUE]
    <3>1. PICK n \in 1..Len(reqs) :
                 fwdq'[s][i] = [pkt |-> Originate(s, n, reqs[n]), origin |-> TRUE]
      BY <2>2
    <3>2. n \in 1..2 /\ reqs[n] \in Requestables
      <4>1. Len(reqs) \in Nat /\ Len(reqs) <= 2
        <5>1. \A k \in 0..2 : k \in Nat /\ k <= 2
          OBVIOUS
        <5> QED
          BY <5>1
      <4> QED
        BY <4>1, ElementOfSeq
    <3>3. Originate(s, n, reqs[n]).from = s
      BY <3>2, OriginateType
    <3> QED
      BY <3>1, <3>3
  <2>3. \/ i \in 1..Len(queue) /\ fwdq'[s][i] = queue[i]
        \/ \E n \in 1..Len(reqs) :
             /\ i = Len(queue) + n
             /\ fwdq'[s][i] = [pkt |-> Originate(s, n, reqs[n]), origin |-> TRUE]
    BY SendAllType
  <2> QED
    BY <2>1, <2>2, <2>3, Zenon
<1>2. \A r \in Stations \ {s} : fwdq'[r] = fwdq[r]
  BY SendAllType
<1> QED
  BY <1>1, <1>2 DEF QueueStep

LEMMA RecvStep ==
    ASSUME TypeOK, NEW s \in Stations, fwdq[s] # <<>>,
           NEW p \in PacketType, Recv(s, p)
    PROVE  SendTypes' /\ QueueStep(s)
<1>1. CASE HmacRejects(s, p)
  <2>1. Skip(s)
    BY <1>1 DEF Recv, Skip
  <2> QED
    BY <2>1, SkipStep
<1>2. CASE ~HmacRejects(s, p)
  <2>1. SendAll(s, Answers(s, p), Tail(fwdq[s]))
        /\ inbox' = [inbox EXCEPT ![s] = Append(@, [pkt |-> p, boot |-> boot[s]])]
    BY <1>2 DEF Recv
  <2>2. Answers(s, p) \in Seq(Requestables) /\ Len(Answers(s, p)) \in 0..2
    BY AnswersType
  <2>3. Tail(fwdq[s]) \in Seq(FwdTasks)
        /\ \A i \in 1..Len(Tail(fwdq[s])) :
             \E j \in 1..Len(fwdq[s]) : Tail(fwdq[s])[i] = fwdq[s][j]
    BY HeadTask
  <2>4. QueueStep(s)
    BY <2>1, <2>2, <2>3, SendStep
  <2>5. inbox' \in [Stations -> Seq([pkt : PacketType, boot : Nat])]
    <3> DEFINE Entry == [pkt : PacketType, boot : Nat]
               e == [pkt |-> p, boot |-> boot[s]]
    <3>1. e \in Entry /\ inbox \in [Stations -> Seq(Entry)]
          /\ inbox' = [inbox EXCEPT ![s] = Append(inbox[s], e)]
      BY <2>1 DEF TypeOK
    <3> HIDE DEF Entry, e
    <3>2. Append(inbox[s], e) \in Seq(Entry)
      BY <3>1, AppendProperties
    <3>3. inbox' \in [Stations -> Seq(Entry)]
      BY <3>1, <3>2
    <3> QED
      BY <3>3 DEF Entry
  <2> QED
    BY <2>1, <2>2, <2>3, <2>4, <2>5, SendAllType DEF SendTypes
<1> QED
  BY <1>1, <1>2

-----------------------------------------------------------------------------
(* Tables *)

LEMMA SetPeer ==
    ASSUME TypeOK, NEW f, PeerTableOK(f), NEW x \in Stations,
           NEW v \in [rssi : Int, ts : 0..now]
    PROVE  PeerTableOK(Set(f, x, v))
BY DEF PeerTableOK, Set

LEMMA FreshPeers ==
    ASSUME NEW f, PeerTableOK(f)
    PROVE  PeerTableOK(Fresh(f, NeighPersist))
BY DEF PeerTableOK, Fresh

TableTypes ==
    /\ DOMAIN peers = Stations /\ \A r \in Stations : PeerTableOK(peers[r])
    /\ DOMAIN neigh = Stations /\ \A r \in Stations : PeerTableOK(neigh[r])
    /\ DOMAIN reptr = Stations /\ \A r \in Stations : PeerTableOK(reptr[r])
LogTypes == DOMAIN recvLog = Stations /\ \A r \in Stations : RecvLogOK(recvLog[r])

LEMMA UpdatePeerlistType ==
    ASSUME TypeOK, NEW s \in Stations, NEW p \in PacketType,
           UpdatePeerlist(s, p), now' = now
    PROVE  TableTypes'
<1> DEFINE seen == [rssi |-> p.rssi, ts |-> now]
<1>1. seen \in [rssi : Int, ts : 0..now] /\ p.from \in Stations
  BY DEF PacketType, TypeOK
<1>2. \A f : PeerTableOK(f) => PeerTableOK(Set(f, p.from, seen))
  BY <1>1, SetPeer
<1>3. \A f : PeerTableOK(f)' <=> PeerTableOK(f)
  BY DEF PeerTableOK
<1> QED
  BY <1>2, <1>3 DEF UpdatePeerlist, TypeOK, TableTypes

LEMMA AnnotateType ==
    ASSUME TypeOK, NEW s \in Stations, NEW p \in PacketType, Annotate(s, p), now' = now
    PROVE  LogTypes'
<1> DEFINE v == [ts |-> now, uid |-> p.uid]
<1>1. v \in [ts : 0..now, uid : Stations \X (Nat \ {0})]
      /\ Signature(p) \in Stations \X (1..MaxId)
  BY DEF PacketType, TypeOK, Signature
<1>2. RecvLogOK(recvLog[s]) /\ recvLog' = [recvLog EXCEPT ![s] = Set(recvLog[s], Signature(p), v)]
  BY DEF TypeOK, Annotate
<1> HIDE DEF v
<1>3. RecvLogOK(Set(recvLog[s], Signature(p), v))
  BY <1>1, <1>2 DEF RecvLogOK, Set
<1> QED
  BY <1>2, <1>3 DEF TypeOK, LogTypes, RecvLogOK

LEMMA ScheduleType ==
    ASSUME TypeOK, NEW s \in Stations, NEW p \in PacketType, Schedule(s, p)
    PROVE  txq' \in [Stations -> SUBSET TxTasks]
<1>1. [pkt |-> Encode(p), at |-> now] \in TxTasks
  BY EncodeType DEF TxTasks, TypeOK
<1> QED
  BY <1>1 DEF Schedule, TypeOK

-----------------------------------------------------------------------------
(* Types *)

\* TypeOK for the variables a step of s inside the station leaves to prove.
LEMMA TypeParts ==
    ASSUME TypeOK, SendTypes', TableTypes', LogTypes',
           txq' \in [Stations -> SUBSET TxTasks],
           now' = now, boot' = boot, aired' = aired
    PROVE  TypeOK'
BY DEF TypeOK, SendTypes, TableTypes, LogTypes

LEMMA UnchangedTables ==
    ASSUME TypeOK, now' = now, UNCHANGED tables
    PROVE  TableTypes'
BY DEF TypeOK, TableTypes, tables, PeerTableOK

LEMMA UnchangedLog ==
    ASSUME TypeOK, now' = now, UNCHANGED recvLog
    PROVE  LogTypes'
BY DEF TypeOK, LogTypes, RecvLogOK

\* Sending on behalf of the application or of the beacon.
LEMMA AppStep ==
    ASSUME TypeOK, NEW s \in Stations, NEW a \in Requestables,
           SendAll(s, <<a>>, fwdq[s]),
           UNCHANGED <<now, txq, recvLog, tables, boot, inbox, aired>>
    PROVE  TypeOK' /\ QueueStep(s)
<1>1. <<a>> \in Seq(Requestables) /\ Len(<<a>>) \in 0..2
  OBVIOUS
<1>2. fwdq[s] \in Seq(FwdTasks)
  BY DEF TypeOK
<1>3. QueueStep(s)
  BY <1>1, <1>2, SendStep
<1>4. SendTypes'
  BY <1>1, <1>2, SendAllType DEF SendTypes, TypeOK
<1>5. now' = now /\ boot' = boot /\ aired' = aired /\ txq' = txq /\ UNCHANGED recvLog
      /\ UNCHANGED tables
  OBVIOUS
<1>6. TableTypes' /\ LogTypes'
  BY <1>5, UnchangedTables, UnchangedLog
<1>7. txq' \in [Stations -> SUBSET TxTasks]
  BY <1>5 DEF TypeOK
<1> QED
  BY <1>3, <1>4, <1>5, <1>6, <1>7, TypeParts

LEMMA BeaconRequestType ==
    ASSUME NEW s \in Stations
    PROVE  BeaconRequest(s) \in Requestables
<1>1. Text("up") \in Items
  BY RequestsAssumption DEF Text, Items
<1>2. <<Text("up")>> \in Messages
  BY <1>1 DEF Messages
<1> QED
  BY <1>2 DEF BeaconRequest, Requestables, Callsigns, Broadcasts

LEMMA RouteType ==
    ASSUME TypeOK, NEW s \in Stations, Route(s)
    PROVE  TypeOK' /\ QueueStep(s)
<1> DEFINE p == Head(fwdq[s]).pkt
<1>1. fwdq[s] # <<>> /\ now' = now /\ boot' = boot /\ aired' = aired
      /\ \/ RouteLocal(s, p) \/ RouteOrigin(s, p)
         \/ RouteDuplicate(s, p) \/ RouteDestination(s, p) \/ RouteDiffusion(s, p)
  BY DEF Route
<1>2. p \in PacketType
  BY <1>1, HeadTask
<1> HIDE DEF p
<1>3. ASSUME UNCHANGED txq PROVE txq' \in [Stations -> SUBSET TxTasks]
  BY <1>3 DEF TypeOK
<1>4. CASE RouteLocal(s, p)
  <2>1. SendTypes' /\ QueueStep(s)
    BY <1>1, <1>2, <1>4, RecvStep DEF RouteLocal
  <2>2. TableTypes' /\ LogTypes' /\ txq' \in [Stations -> SUBSET TxTasks]
    BY <1>1, <1>3, <1>4, UnchangedTables, UnchangedLog DEF RouteLocal
  <2> QED
    BY <1>1, <2>1, <2>2, TypeParts
<1>5. CASE RouteOrigin(s, p)
  <2>1. SendTypes' /\ QueueStep(s)
    BY <1>1, <1>5, SkipStep DEF RouteOrigin
  <2>2. TableTypes' /\ LogTypes' /\ txq' \in [Stations -> SUBSET TxTasks]
    BY <1>1, <1>2, <1>5, UnchangedTables, AnnotateType, ScheduleType DEF RouteOrigin
  <2> QED
    BY <1>1, <2>1, <2>2, TypeParts
<1>6. CASE RouteDuplicate(s, p)
  <2>1. SendTypes' /\ QueueStep(s)
    BY <1>1, <1>6, SkipStep DEF RouteDuplicate
  <2>2. TableTypes' /\ LogTypes' /\ txq' \in [Stations -> SUBSET TxTasks]
    BY <1>1, <1>3, <1>6, UnchangedTables, UnchangedLog DEF RouteDuplicate
  <2> QED
    BY <1>1, <2>1, <2>2, TypeParts
<1>7. CASE RouteDestination(s, p)
  <2>1. SendTypes' /\ QueueStep(s)
    BY <1>1, <1>2, <1>7, RecvStep DEF RouteDestination
  <2>2. TableTypes' /\ LogTypes' /\ txq' \in [Stations -> SUBSET TxTasks]
    BY <1>1, <1>2, <1>3, <1>7, UpdatePeerlistType, AnnotateType DEF RouteDestination
  <2> QED
    BY <1>1, <2>1, <2>2, TypeParts
<1>8. CASE RouteDiffusion(s, p)
  <2>1. SendTypes' /\ QueueStep(s) /\ TableTypes'
    <3>1. CASE p.to \in Broadcasts
      BY <1>1, <1>2, <1>8, <3>1, RecvStep, UpdatePeerlistType DEF RouteDiffusion
    <3>2. CASE p.to \notin Broadcasts
      BY <1>1, <1>2, <1>8, <3>2, SkipStep, UnchangedTables DEF RouteDiffusion
    <3> QED
      BY <3>1, <3>2
  <2>2. LogTypes'
    BY <1>1, <1>2, <1>8, AnnotateType DEF RouteDiffusion
  <2>3. txq' \in [Stations -> SUBSET TxTasks]
    BY <1>2, <1>3, <1>8, ModifiedType, ScheduleType DEF RouteDiffusion
  <2> QED
    BY <1>1, <2>1, <2>2, <2>3, TypeParts
<1> QED
  BY <1>1, <1>4, <1>5, <1>6, <1>7, <1>8

\* A transmission: what it puts in the queues of the stations that hear it.
LEMMA TxType ==
    ASSUME TypeOK, NEW s \in Stations, NEW e \in txq[s], NEW R \in SUBSET Hearers(s),
           txq' = [txq EXCEPT ![s] = @ \ {e}],
           aired' = [aired EXCEPT ![s] = @ \cup {<<e.pkt.uid, boot[s]>>}],
           fwdq' = [r \in Stations |->
                      IF r \in R
                      THEN Append(fwdq[r], [pkt    |-> Decode(e.pkt, Rssi[<<s, r>>]),
                                            origin |-> FALSE])
                      ELSE fwdq[r]],
           UNCHANGED <<now, lastId, nvId, recvLog, tables, boot, sent, inbox>>
    PROVE  TypeOK'
<1>1. e.pkt \in PacketType /\ txq' \in [Stations -> SUBSET TxTasks]
  BY DEF TypeOK, TxTasks
<1>2. fwdq' \in [Stations -> Seq(FwdTasks)]
  <2>1. ASSUME NEW r \in R
        PROVE  [pkt |-> Decode(e.pkt, Rssi[<<s, r>>]), origin |-> FALSE] \in FwdTasks
    <3>1. Rssi[<<s, r>>] \in Int
      BY TopologyAssumption DEF Hearers
    <3>2. Decode(e.pkt, Rssi[<<s, r>>]) \in PacketType
      BY <1>1, <3>1 DEF Decode, PacketType
    <3> QED
      BY <3>2 DEF FwdTasks
  <2>2. ASSUME NEW r \in R
        PROVE  Append(fwdq[r], [pkt |-> Decode(e.pkt, Rssi[<<s, r>>]), origin |-> FALSE])
                 \in Seq(FwdTasks)
    <3>1. fwdq[r] \in Seq(FwdTasks)
      BY DEF TypeOK, Hearers
    <3> QED
      BY <2>1, <3>1, AppendProperties
  <2> QED
    BY <2>2 DEF TypeOK
<1>3. aired' \in [Stations -> SUBSET ((Stations \X (Nat \ {0})) \X Nat)]
  <2>1. <<e.pkt.uid, boot[s]>> \in (Stations \X (Nat \ {0})) \X Nat
    BY <1>1 DEF TypeOK, PacketType
  <2> QED
    BY <2>1 DEF TypeOK
<1>4. TableTypes' /\ LogTypes'
  BY UnchangedTables, UnchangedLog
<1> QED
  BY <1>1, <1>2, <1>3, <1>4 DEF TypeOK, TableTypes, LogTypes

LEMMA CleanType ==
    ASSUME TypeOK, NEW s \in Stations, CleanRecvLog(s) \/ CleanNeigh(s)
    PROVE  TypeOK'
<1>1. CASE CleanRecvLog(s)
  <2>1. RecvLogOK(Fresh(recvLog[s], RecvLogPersist))
    BY DEF TypeOK, RecvLogOK, Fresh
  <2>2. LogTypes'
    BY <1>1, <2>1 DEF CleanRecvLog, TypeOK, LogTypes, RecvLogOK
  <2>3. TableTypes'
    BY <1>1, UnchangedTables DEF CleanRecvLog
  <2> QED
    BY <1>1, <2>2, <2>3 DEF CleanRecvLog, TypeOK, LogTypes, TableTypes
<1>2. CASE CleanNeigh(s)
  <2>1. \A f : PeerTableOK(f)' <=> PeerTableOK(f)
    BY <1>2 DEF PeerTableOK, CleanNeigh
  <2>2. TableTypes'
    BY <1>2, <2>1, FreshPeers DEF CleanNeigh, TypeOK, TableTypes
  <2>3. LogTypes'
    BY <1>2, UnchangedLog DEF CleanNeigh
  <2> QED
    BY <1>2, <2>2, <2>3 DEF CleanNeigh, TypeOK, LogTypes, TableTypes
<1> QED
  BY <1>1, <1>2

\* A table without entries has the right type.
LEMMA EmptyTable == PeerTableOK(Empty) /\ RecvLogOK(Empty) /\ DOMAIN Empty = {}
BY DEF PeerTableOK, RecvLogOK, Empty

LEMMA RebootType ==
    ASSUME TypeOK, NEW s \in Stations, Reboot(s)
    PROVE  TypeOK'
<1>1. now' = now
  BY DEF Reboot
<1>2. /\ \A f : PeerTableOK(f)' <=> PeerTableOK(f)
      /\ \A f : RecvLogOK(f)' <=> RecvLogOK(f)
  BY <1>1 DEF PeerTableOK, RecvLogOK
<1>3. TableTypes' /\ LogTypes'
  BY <1>2, EmptyTable DEF Reboot, TypeOK, TableTypes, LogTypes
<1>4. fwdq' \in [Stations -> Seq(FwdTasks)] /\ txq' \in [Stations -> SUBSET TxTasks]
  BY DEF Reboot, TypeOK
<1>5. boot' \in [Stations -> Nat] /\ lastId' \in [Stations -> 1..MaxId]
  BY DEF Reboot, TypeOK
<1>6. UNCHANGED <<now, nvId, sent, inbox, aired>>
  BY DEF Reboot
<1> QED
  BY <1>3, <1>4, <1>5, <1>6 DEF TypeOK, TableTypes, LogTypes

LEMMA TickType ==
    ASSUME TypeOK, Tick
    PROVE  TypeOK'
<1>1. now' \in 0..MaxNow /\ 0..now \subseteq 0..now'
  BY BoundsAssumption DEF Tick, TypeOK
<1>2. /\ \A f : PeerTableOK(f) => PeerTableOK(f)'
      /\ \A f : RecvLogOK(f) => RecvLogOK(f)'
  BY <1>1 DEF PeerTableOK, RecvLogOK
<1>3. TableTypes' /\ LogTypes'
  BY <1>2 DEF Tick, TypeOK, TableTypes, LogTypes, tables
<1> QED
  BY <1>1, <1>3 DEF Tick, TypeOK, TableTypes, LogTypes

LEMMA InitType == Init => TypeOK
<1> SUFFICES ASSUME Init PROVE TypeOK
  OBVIOUS
<1>1. \A s \in Stations : PeerTableOK(Empty) /\ RecvLogOK(Empty)
  BY EmptyTable
<1> QED
  BY <1>1, BoundsAssumption DEF Init, TypeOK

\* Every step keeps the types.
LEMMA NextType == TypeOK /\ [Next]_vars => TypeOK'
<1> SUFFICES ASSUME TypeOK, [Next]_vars PROVE TypeOK'
  OBVIOUS
<1>1. ASSUME NEW s \in Stations, AppSend(s) PROVE TypeOK'
  <2>1. PICK a \in Requests[s] : SendAll(s, <<a>>, fwdq[s])
    BY <1>1 DEF AppSend
  <2>2. a \in Requestables
    BY <2>1, RequestsAssumption
  <2> QED
    BY <1>1, <2>1, <2>2, AppStep DEF AppSend
<1>2. ASSUME NEW s \in Stations, Beacon(s) PROVE TypeOK'
  BY <1>2, AppStep, BeaconRequestType DEF Beacon
<1>3. ASSUME NEW s \in Stations, Route(s) PROVE TypeOK'
  BY <1>3, RouteType
<1>4. ASSUME NEW s \in Stations, Tx(s) PROVE TypeOK'
  <2>1. PICK e \in txq[s], R \in SUBSET Hearers(s) :
          /\ txq' = [txq EXCEPT ![s] = @ \ {e}]
          /\ aired' = [aired EXCEPT ![s] = @ \cup {<<e.pkt.uid, boot[s]>>}]
          /\ fwdq' = [r \in Stations |->
                        IF r \in R
                        THEN Append(fwdq[r], [pkt    |-> Decode(e.pkt, Rssi[<<s, r>>]),
                                              origin |-> FALSE])
                        ELSE fwdq[r]]
          /\ UNCHANGED <<now, lastId, nvId, recvLog, tables, boot, sent, inbox>>
    BY <1>4 DEF Tx
  <2> QED
    BY <2>1, TxType
<1>5. ASSUME NEW s \in Stations, CleanRecvLog(s) \/ CleanNeigh(s) PROVE TypeOK'
  BY <1>5, CleanType
<1>6. ASSUME NEW s \in Stations, Reboot(s) PROVE TypeOK'
  BY <1>6, RebootType
<1>7. ASSUME Tick PROVE TypeOK'
  BY <1>7, TickType
<1>8. ASSUME UNCHANGED vars PROVE TypeOK'
  BY <1>8 DEF vars, tables, TypeOK, PeerTableOK, RecvLogOK
<1> QED
  BY <1>1, <1>2, <1>3, <1>4, <1>5, <1>6, <1>7, <1>8 DEF Next

\* The type invariant holds in every behaviour.
THEOREM TypeCorrect == Spec => []TypeOK
BY InitType, NextType, PTL DEF Spec

-----------------------------------------------------------------------------
(* The peer tables are nested *)

\* What a step can do to the tables: nothing, note the source of the radio
\* packet at the head of a queue, expire entries, or lose everything.
LEMMA TableSteps ==
    ASSUME TypeOK, [Next]_vars
    PROVE  \/ UNCHANGED tables
           \/ \E s \in Stations :
                /\ fwdq[s] # <<>> /\ ~Head(fwdq[s]).origin
                /\ UpdatePeerlist(s, Head(fwdq[s]).pkt)
           \/ \E s \in Stations : CleanNeigh(s) \/ Reboot(s)
<1>1. ASSUME NEW s \in Stations, Route(s)
      PROVE  \/ UNCHANGED tables
             \/ /\ fwdq[s] # <<>> /\ ~Head(fwdq[s]).origin
                /\ UpdatePeerlist(s, Head(fwdq[s]).pkt)
  BY <1>1 DEF Route, RouteLocal, RouteOrigin, RouteDuplicate, RouteDestination, RouteDiffusion
<1>2. ASSUME NEW s \in Stations, AppSend(s) \/ Beacon(s) \/ Tx(s) \/ CleanRecvLog(s)
      PROVE  UNCHANGED tables
  BY <1>2 DEF AppSend, Beacon, Tx, CleanRecvLog
<1>3. Tick \/ UNCHANGED vars => UNCHANGED tables
  BY DEF Tick, vars
<1> QED
  BY <1>1, <1>2, <1>3 DEF Next

LEMMA UpdateNested ==
    ASSUME TypeOK, TablesNested, NEW s \in Stations, NEW p \in PacketType, UpdatePeerlist(s, p)
    PROVE  TablesNested'
<1> DEFINE seen == [rssi |-> p.rssi, ts |-> now]
<1>1. /\ PeerTableOK(peers[s]) /\ PeerTableOK(neigh[s]) /\ PeerTableOK(reptr[s])
      /\ Within(reptr[s], neigh[s]) /\ Within(neigh[s], peers[s])
  BY DEF TypeOK, TablesNested
<1>2. \A f, g : Within(f, g) => Within(Set(f, p.from, seen), Set(g, p.from, seen))
  <2>1. now \in Nat
    BY BoundsAssumption DEF TypeOK
  <2> QED
    BY <2>1 DEF Within, Set
<1>3. \A f, g : PeerTableOK(f) /\ PeerTableOK(g) /\ Within(f, g) => Within(f, Set(g, p.from, seen))
  <2>1. now \in Nat
    BY BoundsAssumption DEF TypeOK
  <2> QED
    BY <2>1 DEF Within, Set, PeerTableOK
<1>4. /\ peers'[s] = Set(peers[s], p.from, seen)
      /\ neigh'[s] = IF "R" \in p.params THEN neigh[s] ELSE Set(neigh[s], p.from, seen)
      /\ reptr'[s] = IF "R" \in p.params \/ p.to # "QR"
                     THEN reptr[s] ELSE Set(reptr[s], p.from, seen)
      /\ \A r \in Stations \ {s} :
            peers'[r] = peers[r] /\ neigh'[r] = neigh[r] /\ reptr'[r] = reptr[r]
  BY DEF UpdatePeerlist, TypeOK
<1> HIDE DEF seen
<1>5. Within(reptr'[s], neigh'[s]) /\ Within(neigh'[s], peers'[s])
  <2>1. CASE "R" \in p.params
    BY <1>1, <1>3, <1>4, <2>1
  <2>2. CASE "R" \notin p.params /\ p.to # "QR"
    BY <1>1, <1>2, <1>3, <1>4, <2>2
  <2>3. CASE "R" \notin p.params /\ p.to = "QR"
    BY <1>1, <1>2, <1>4, <2>3
  <2> QED
    BY <2>1, <2>2, <2>3
<1> QED
  BY <1>4, <1>5 DEF TablesNested

\* Expiry drops an entry of the narrower table with that of the wider one.
LEMMA CleanNested ==
    ASSUME TypeOK, TablesNested, NEW s \in Stations, CleanNeigh(s)
    PROVE  TablesNested'
<1>1. now \in Nat /\ NeighPersist \in Nat
  BY BoundsAssumption DEF TypeOK
<1>2. \A f, g : PeerTableOK(f) /\ PeerTableOK(g) /\ Within(f, g)
                => Within(Fresh(f, NeighPersist), Fresh(g, NeighPersist))
  BY <1>1 DEF PeerTableOK, Within, Fresh, Stale
<1>3. /\ PeerTableOK(peers[s]) /\ PeerTableOK(neigh[s]) /\ PeerTableOK(reptr[s])
      /\ Within(reptr[s], neigh[s]) /\ Within(neigh[s], peers[s])
  BY DEF TypeOK, TablesNested
<1>4. /\ peers'[s] = Fresh(peers[s], NeighPersist)
      /\ neigh'[s] = Fresh(neigh[s], NeighPersist)
      /\ reptr'[s] = Fresh(reptr[s], NeighPersist)
      /\ \A r \in Stations \ {s} :
            peers'[r] = peers[r] /\ neigh'[r] = neigh[r] /\ reptr'[r] = reptr[r]
  BY DEF CleanNeigh, TypeOK
<1> QED
  BY <1>2, <1>3, <1>4 DEF TablesNested

\* The neighbours stay among the peers, and the repeaters among the neighbours,
\* in every behaviour (update_peerlist and clean_neigh, Network.cpp:312-404).
THEOREM TablesAreNested == Spec => []TablesNested
<1>1. Init => TablesNested
  BY DEF Init, TablesNested, Within, Empty
<1>2. ASSUME TypeOK, TablesNested, [Next]_vars PROVE TablesNested'
  <2>1. CASE UNCHANGED tables
    BY <1>2, <2>1 DEF TablesNested, tables
  <2>2. ASSUME NEW s \in Stations, fwdq[s] # <<>>, UpdatePeerlist(s, Head(fwdq[s]).pkt)
        PROVE  TablesNested'
    BY <1>2, <2>2, HeadTask, UpdateNested
  <2>3. ASSUME NEW s \in Stations, CleanNeigh(s) PROVE TablesNested'
    BY <1>2, <2>3, CleanNested
  <2>4. ASSUME NEW s \in Stations, Reboot(s) PROVE TablesNested'
    BY <1>2, <2>4 DEF Reboot, TypeOK, TablesNested, Within, Empty
  <2> QED
    BY <1>2, <2>1, <2>2, <2>3, <2>4, TableSteps
<1> QED
  BY <1>1, <1>2, TypeCorrect, PTL DEF Spec
=============================================================================
