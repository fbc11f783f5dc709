-------------------------- MODULE MeshServiceProofs -------------------------
(***************************************************************************)
(* Nothing is delivered or relayed twice, and the mesh is a datagram       *)
(* service, as long as the receive log outlasts the diffusion of a packet. *)
(***************************************************************************)
EXTENDS MeshRadioProofs

\* The times a packet may be relayed: once by each repeater between two reboots.
Relays == UNION {{r} \X (0..MaxBoots[r]) : r \in Repeaters}

\* Each relay delays a packet by HopTime at most; after the last one the first
\* station that logged the packet still remembers it (RECV_LOG_PERSIST is ten
\* minutes, the delay of a repeater a few seconds, Network.cpp:467-476).
LogOutlastsDiffusion == HopTime * Cardinality(Relays) <= RecvLogPersist

\* The source transmitted packet u.
OnAir(u) == \E b \in Nat : <<u, b>> \in aired[u[1]]

InFwdq(s, u) == \E i \in 1..Len(fwdq[s]) : fwdq[s][i].pkt.uid = u
InTxq(s, u)  == \E e \in txq[s] : e.pkt.uid = u
UnderWay(u)  == \E r \in Stations : InFwdq(r, u) \/ InTxq(r, u)
InInbox(s, u) == \E i \in 1..Len(inbox[s]) : inbox[s][i].pkt.uid = u
Logged(s, u)  == \E g \in DOMAIN recvLog[s] : recvLog[s][g].uid = u

\* s delivered or transmitted u since its last reboot, or is about to.
Handled(s, u) ==
    \/ <<u, boot[s]>> \in aired[s]
    \/ InTxq(s, u)
    \/ \E i \in 1..Len(inbox[s]) : inbox[s][i].pkt.uid = u /\ inbox[s][i].boot = boot[s]

\* s did nothing yet with its packet u.
Early(s, u) == ~OnAir(u) /\ ~InTxq(s, u) /\ ~InInbox(s, u)

-----------------------------------------------------------------------------
(* What a step does to queues, logs and inboxes *)

\* queue is what fwdq[s] is without its first d tasks.
Rest(s, queue, d) ==
    \A i \in 1..Len(queue) : i + d \in 1..Len(fwdq[s]) /\ queue[i] = fwdq[s][i + d]

\* The queue of s after it dropped its first d tasks and sent reqs: old tasks,
\* then new ones.
LEMMA QueueAfter ==
    ASSUME TypeOK, NEW s \in Stations, NEW reqs, NEW queue, SendsType(s, reqs, queue),
           NEW d \in Nat, Rest(s, queue, d),
           NEW i \in 1..Len(fwdq'[s])
    PROVE  \/ i + d \in 1..Len(fwdq[s]) /\ fwdq'[s][i] = fwdq[s][i + d]
           \/ \E n \in 1..2 :
                 /\ i = Len(queue) + n
                 /\ fwdq'[s][i].origin
                 /\ fwdq'[s][i].pkt.from = s
                 /\ fwdq'[s][i].pkt.uid = <<s, Len(sent[s]) + n>>
<1>1. CASE i \in 1..Len(queue) /\ fwdq'[s][i] = queue[i]
  BY <1>1 DEF Rest
<1>2. CASE \E n \in 1..Len(reqs) :
             /\ i = Len(queue) + n
             /\ fwdq'[s][i] = [pkt |-> Originate(s, n, reqs[n]), origin |-> TRUE]
  <2>1. PICK n \in 1..Len(reqs) :
             /\ i = Len(queue) + n
             /\ fwdq'[s][i] = [pkt |-> Originate(s, n, reqs[n]), origin |-> TRUE]
    BY <1>2
  <2>2. n \in 1..2 /\ reqs[n] \in Requestables
    BY SentAfter
  <2>3. PICK q : q = Originate(s, n, reqs[n])
    OBVIOUS
  <2>4. q.from = s /\ q.uid = <<s, Len(sent[s]) + n>>
    BY <2>2, <2>3, OriginateType
  <2>5. fwdq'[s][i].origin /\ fwdq'[s][i].pkt = q
    BY <2>1, <2>3
  <2> QED
    BY <2>1, <2>2, <2>4, <2>5
<1> QED
  BY <1>1, <1>2, SendAllType DEF SendsType

\* A packet from the radio that is no duplicate.
ByRadio(s, t) == ~t.origin /\ ~IsDuplicate(s, t.pkt)

\* A PacketTx task made for the packet of task t.
MadeFor(s, t, e) ==
    /\ e.at = now
    /\ e.pkt.uid = t.pkt.uid /\ e.pkt.from = t.pkt.from
    /\ t.origin \/ (ByRadio(s, t) /\ s \in Repeaters)

LEMMA SchedulesOne ==
    ASSUME TypeOK, NEW s \in Stations, NEW p \in PacketType, NEW q \in PacketType,
           q.uid = p.uid, q.from = p.from, Schedule(s, q)
    PROVE  \E e : /\ e.at = now /\ e.pkt.uid = p.uid /\ e.pkt.from = p.from
                  /\ txq'[s] = txq[s] \cup {e}
                  /\ \A r \in Stations \ {s} : txq'[r] = txq[r]
<1>1. PICK x : x = Encode(q)
  OBVIOUS
<1>2. x.uid = p.uid /\ x.from = p.from
  BY <1>1, EncodeType DEF PacketType
<1>3. PICK e : e = [pkt |-> x, at |-> now]
  OBVIOUS
<1>4. e.at = now /\ e.pkt = x
  BY <1>3
<1>5. txq'[s] = txq[s] \cup {e} /\ \A r \in Stations \ {s} : txq'[r] = txq[r]
  BY <1>1, <1>3 DEF Schedule, TypeOK
<1> QED
  BY <1>2, <1>4, <1>5

LEMMA RouteTxq ==
    ASSUME TypeOK, NEW s \in Stations, NEW reqs, Routing(s, reqs),
           NEW t, t = Head(fwdq[s])
    PROVE  /\ \A r \in Stations \ {s} : txq'[r] = txq[r]
           /\ \/ txq'[s] = txq[s]
              \/ \E e : MadeFor(s, t, e) /\ txq'[s] = txq[s] \cup {e}
<1>1. t.pkt \in PacketType /\ t.origin \in BOOLEAN
  BY HeadTask DEF Routing
<1>2. \/ UNCHANGED txq
      \/ t.origin /\ Schedule(s, t.pkt)
      \/ ByRadio(s, t) /\ s \in Repeaters /\ Schedule(s, Modified(s, t.pkt))
  BY DEF Routing, RouteKind, HandledLocally, PutOnQueue, Ignored, HandledFromRadio, ByRadio
<1>3. CASE UNCHANGED txq
  BY <1>3
<1>4. CASE t.origin /\ Schedule(s, t.pkt)
  <2>1. PICK e : /\ e.at = now /\ e.pkt.uid = t.pkt.uid /\ e.pkt.from = t.pkt.from
                 /\ txq'[s] = txq[s] \cup {e}
                 /\ \A r \in Stations \ {s} : txq'[r] = txq[r]
    BY <1>1, <1>4, SchedulesOne
  <2> QED
    BY <1>4, <2>1 DEF MadeFor
<1>5. CASE ByRadio(s, t) /\ s \in Repeaters /\ Schedule(s, Modified(s, t.pkt))
  <2>1. PICK q : q = Modified(s, t.pkt)
    OBVIOUS
  <2>2. q \in PacketType /\ q.uid = t.pkt.uid /\ q.from = t.pkt.from
    BY <1>1, <2>1, ModifiedType
  <2>3. PICK e : /\ e.at = now /\ e.pkt.uid = t.pkt.uid /\ e.pkt.from = t.pkt.from
                 /\ txq'[s] = txq[s] \cup {e}
                 /\ \A r \in Stations \ {s} : txq'[r] = txq[r]
    BY <1>1, <1>5, <2>1, <2>2, SchedulesOne
  <2> QED
    BY <1>5, <2>3 DEF MadeFor
<1> QED
  BY <1>2, <1>3, <1>4, <1>5

\* s gives the packet of task t to its application.
TakesIn(s, t) ==
    /\ \/ t.origin /\ IsLocal(s, t.pkt)
       \/ ByRadio(s, t) /\ t.pkt.to \in {s} \cup Broadcasts
    /\ Len(inbox[s]) \in Nat /\ Len(inbox'[s]) = Len(inbox[s]) + 1
    /\ inbox'[s][Len(inbox[s]) + 1] = [pkt |-> t.pkt, boot |-> boot[s]]
    /\ \A i \in 1..Len(inbox[s]) : i \in 1..Len(inbox'[s]) /\ inbox'[s][i] = inbox[s][i]

LEMMA RouteInbox ==
    ASSUME TypeOK, NEW s \in Stations, NEW reqs, Routing(s, reqs),
           NEW t, t = Head(fwdq[s])
    PROVE  /\ \A r \in Stations \ {s} : inbox'[r] = inbox[r]
           /\ \/ reqs = <<>> /\ inbox'[s] = inbox[s]
              \/ TakesIn(s, t) /\ Delivers(s, t.pkt, reqs)
<1>1. t.pkt \in PacketType
  BY HeadTask DEF Routing
<1>2. \/ reqs = <<>> /\ inbox' = inbox
      \/ /\ Delivers(s, t.pkt, reqs) /\ inbox' # inbox
         /\ \/ t.origin /\ IsLocal(s, t.pkt)
            \/ ByRadio(s, t) /\ t.pkt.to \in {s} \cup Broadcasts
  BY DEF Routing, RouteKind, HandledLocally, PutOnQueue, Ignored, HandledFromRadio, ByRadio
<1>3. CASE reqs = <<>> /\ inbox' = inbox
  BY <1>3
<1>4. CASE Delivers(s, t.pkt, reqs) /\ inbox' # inbox
  <2>1. /\ Len(inbox[s]) \in Nat /\ Len(inbox'[s]) = Len(inbox[s]) + 1
        /\ inbox'[s][Len(inbox[s]) + 1] = [pkt |-> t.pkt, boot |-> boot[s]]
        /\ \A i \in 1..Len(inbox[s]) : i \in 1..Len(inbox'[s]) /\ inbox'[s][i] = inbox[s][i]
        /\ \A r \in Stations \ {s} : inbox'[r] = inbox[r]
    BY <1>1, <1>4, InboxAfter, Zenon
  <2> QED
    BY <1>2, <1>4, <2>1 DEF TakesIn
<1> QED
  BY <1>2, <1>3, <1>4

\* The receive log notes p, and keeps the rest.
Notes(s, p) ==
    /\ DOMAIN recvLog'[s] = DOMAIN recvLog[s] \cup {Signature(p)}
    /\ recvLog'[s][Signature(p)].uid = p.uid /\ recvLog'[s][Signature(p)].ts = now
    /\ \A g \in DOMAIN recvLog[s] \ {Signature(p)} : recvLog'[s][g] = recvLog[s][g]

LEMMA RouteLog ==
    ASSUME TypeOK, NEW s \in Stations, NEW reqs, Routing(s, reqs),
           NEW t, t = Head(fwdq[s])
    PROVE  /\ \A r \in Stations \ {s} : recvLog'[r] = recvLog[r]
           /\ ByRadio(s, t) => Notes(s, t.pkt)
           /\ recvLog'[s] = recvLog[s] \/ (Notes(s, t.pkt) /\ (t.origin \/ ByRadio(s, t)))
<1>1. /\ ByRadio(s, t) => Annotate(s, t.pkt)
      /\ UNCHANGED recvLog \/ (Annotate(s, t.pkt) /\ (t.origin \/ ByRadio(s, t)))
  BY DEF Routing, RouteKind, HandledLocally, PutOnQueue, Ignored, HandledFromRadio, ByRadio
<1>2. ASSUME Annotate(s, t.pkt)
      PROVE  Notes(s, t.pkt) /\ \A r \in Stations \ {s} : recvLog'[r] = recvLog[r]
  <2>1. PICK v : v = [ts |-> now, uid |-> t.pkt.uid]
    OBVIOUS
  <2>2. v.ts = now /\ v.uid = t.pkt.uid
    BY <2>1
  <2>3. /\ recvLog'[s] = Set(recvLog[s], Signature(t.pkt), v)
        /\ \A r \in Stations \ {s} : recvLog'[r] = recvLog[r]
    BY <1>2, <2>1 DEF Annotate, TypeOK
  <2> QED
    BY <2>2, <2>3 DEF Notes, Set
<1> QED
  BY <1>1, <1>2

-----------------------------------------------------------------------------
(* The inductive invariant *)

\* What is on record is not from the future.
Past ==
    \A s \in Stations :
        /\ boot[s] <= MaxBoots[s]
        /\ \A x \in aired[s] : HasUid(sent, x[1]) /\ x[2] <= boot[s]
        /\ \A i \in 1..Len(inbox[s]) : inbox[s][i].boot <= boot[s]

\* PacketTx tasks wait HopTime at most; only repeaters have other stations'.
Timely ==
    \A s \in Stations : \A e \in txq[s] :
        e.at <= now /\ now <= e.at + HopTime /\ (e.pkt.from = s \/ s \in Repeaters)

\* What others know of a packet was on the air.
Outside ==
    \A s \in Stations :
        /\ \A i \in 1..Len(fwdq[s]) : ~fwdq[s][i].origin => OnAir(fwdq[s][i].pkt.uid)
        /\ \A e \in txq[s] : e.pkt.from # s => OnAir(e.pkt.uid)
        /\ \A g \in DOMAIN recvLog[s] : g[1] # s => OnAir(recvLog[s][g].uid)

\* A packet is handled by its source once: as the PacketFwd task of send().
AtSource ==
    \A s \in Stations :
        /\ \A i \in 1..Len(fwdq[s]) : fwdq[s][i].origin => Early(s, fwdq[s][i].pkt.uid)
        /\ \A i, j \in 1..Len(fwdq[s]) :
              /\ fwdq[s][i].origin /\ fwdq[s][j].origin
              /\ fwdq[s][i].pkt.uid = fwdq[s][j].pkt.uid
              => i = j
        /\ \A e \in txq[s] : e.pkt.from = s => ~OnAir(e.pkt.uid)

\* What s handled is in its log for as long as it is under way.
LogRemembers ==
    \A s \in Stations : \A u :
        u[1] # s /\ Handled(s, u) /\ UnderWay(u) => Logged(s, u)

\* Who relayed u according to the record a, and what delay that may have taken.
RelayedBy(a, u) == {x \in Relays : x[1] # u[1] /\ <<u, x[2]>> \in a[x[1]]}
DelayBy(a, u)   == HopTime * Cardinality(RelayedBy(a, u))
Delay(u)        == DelayBy(aired, u)

\* What is under way of u is not older than the relays explain.
Recent(u, ts) ==
    /\ \A r \in Stations : \A e \in txq[r] : e.pkt.uid = u => e.at <= ts + Delay(u)
    /\ \A r \in Stations : InFwdq(r, u) => now <= ts + Delay(u)

Age ==
    \A s \in Stations : \A g \in DOMAIN recvLog[s] :
        g[1] # s => Recent(recvLog[s][g].uid, recvLog[s][g].ts)

OnceInv ==
    /\ Past /\ Timely /\ Outside /\ AtSource
    /\ LogRemembers /\ Age
    /\ AtMostOnceOnAir /\ AtMostOnceDelivery

Base == TypeOK /\ TracedInv /\ FwdqDirect /\ OnceInv

-----------------------------------------------------------------------------
(* Views of the queue *)

OldTask(s, d, i) == i + d \in 1..Len(fwdq[s]) /\ fwdq'[s][i] = fwdq[s][i + d]
NewTask(s, c, i) ==
    /\ fwdq'[s][i].origin /\ fwdq'[s][i].pkt.from = s
    /\ \E n \in 1..2 : i = c + n /\ fwdq'[s][i].pkt.uid = <<s, Len(sent[s]) + n>>

\* The queue of s loses d tasks; new ones come after the first c.
QueueView(s, d, c) ==
    /\ d \in Nat /\ c \in Nat
    /\ \A r \in Stations \ {s} : fwdq'[r] = fwdq[r]
    /\ \A i \in 1..Len(fwdq'[s]) : OldTask(s, d, i) \/ NewTask(s, c, i)

LEMMA SendingQueue ==
    ASSUME TypeOK, NEW s \in Stations, NEW a, Sending(s, a)
    PROVE  QueueView(s, 0, Len(fwdq[s]))
<1>1. SendsType(s, <<a>>, fwdq[s]) /\ Len(fwdq[s]) \in Nat
  BY LenProperties DEF Sending, TypeOK
<1>2. Rest(s, fwdq[s], 0)
  BY DEF Rest
<1>3. \A i \in 1..Len(fwdq'[s]) : OldTask(s, 0, i) \/ NewTask(s, Len(fwdq[s]), i)
  BY <1>1, <1>2, QueueAfter DEF OldTask, NewTask
<1> QED
  BY <1>1, <1>3, SendAllType DEF QueueView, SendsType

LEMMA RoutingQueue ==
    ASSUME TypeOK, NEW s \in Stations, NEW reqs, Routing(s, reqs)
    PROVE  QueueView(s, 1, Len(Tail(fwdq[s])))
<1>1. PICK queue : queue = Tail(fwdq[s])
  OBVIOUS
<1>2. SendsType(s, reqs, queue) /\ Len(queue) \in Nat
  BY <1>1, HeadTask, LenProperties DEF Routing
<1>3. Rest(s, queue, 1)
  BY <1>1, HeadTask DEF Routing, Rest
<1>4. \A i \in 1..Len(fwdq'[s]) : OldTask(s, 1, i) \/ NewTask(s, Len(queue), i)
  BY <1>2, <1>3, QueueAfter DEF OldTask, NewTask
<1> QED
  BY <1>1, <1>2, <1>4, SendAllType DEF QueueView, SendsType

\* The packet of a task, and of the head in particular.
LEMMA TaskType ==
    ASSUME Base, NEW s \in Stations, NEW i \in 1..Len(fwdq[s])
    PROVE  /\ fwdq[s][i].pkt \in PacketType /\ fwdq[s][i].origin \in BOOLEAN
           /\ Traced(sent, fwdq[s][i].pkt)
           /\ fwdq[s][i].origin => fwdq[s][i].pkt.from = s
<1>1. fwdq[s] \in Seq(FwdTasks)
  BY DEF Base, TypeOK
<1>2. fwdq[s][i] \in FwdTasks
  BY <1>1, ElementOfSeq
<1>3. Traced(sent, fwdq[s][i].pkt)
  BY DEF Base, TracedInv, FwdqTraced
<1>4. FwdDirect(s, fwdq[s][i])
  BY DEF Base, FwdqDirect
<1> QED
  BY <1>2, <1>3, <1>4 DEF FwdTasks, FwdDirect

\* A packet that s is about to number is known nowhere.
NewUid(s, u) == \E n \in 1..2 : u = <<s, Len(sent[s]) + n>>

LEMMA NewIsUnknown ==
    ASSUME Base, NEW s \in Stations, NEW u, NewUid(s, u)
    PROVE  /\ u[1] = s /\ ~OnAir(u)
           /\ \A r \in Stations : ~InFwdq(r, u) /\ ~InTxq(r, u) /\ ~InInbox(r, u) /\ ~Handled(r, u)
<1>1. PICK n \in 1..2 : u = <<s, Len(sent[s]) + n>>
  BY DEF NewUid
<1>2. Len(sent[s]) \in Nat
  BY LenProperties DEF Base, TypeOK
<1>3. u[1] = s /\ ~HasUid(sent, u)
  BY <1>1, <1>2 DEF HasUid
<1>4. \A r \in Stations : \A x \in aired[r] : x[1] # u
  BY <1>3 DEF Base, OnceInv, Past
<1>5. \A r \in Stations : ~InFwdq(r, u)
  BY <1>3 DEF Base, TracedInv, FwdqTraced, Traced, InFwdq
<1>6. \A r \in Stations : ~InTxq(r, u)
  BY <1>3 DEF Base, TracedInv, TxqTraced, Traced, InTxq
<1>7. \A r \in Stations : ~InInbox(r, u)
  BY <1>3 DEF Base, TracedInv, InboxTraced, Traced, InInbox
<1>8. ~OnAir(u)
  <2>1. ASSUME NEW b, <<u, b>> \in aired[s] PROVE FALSE
    BY <1>4, <2>1
  <2> QED
    BY <1>3, <2>1 DEF OnAir
<1>9. \A r \in Stations : ~Handled(r, u)
  <2>1. ASSUME NEW r \in Stations, <<u, boot[r]>> \in aired[r] PROVE FALSE
    BY <1>4, <2>1
  <2> QED
    BY <1>6, <1>7, <2>1 DEF Handled, InInbox
<1> QED
  BY <1>3, <1>5, <1>6, <1>7, <1>8, <1>9

\* What leaves a queue is the head; what comes is new.
LEMMA InFwdqAfter ==
    ASSUME TypeOK, NEW s \in Stations, NEW d, NEW c, QueueView(s, d, c),
           NEW r \in Stations, NEW u, InFwdq(r, u)'
    PROVE  InFwdq(r, u) \/ (r = s /\ NewUid(s, u))
<1>1. PICK i \in 1..Len(fwdq'[r]) : fwdq'[r][i].pkt.uid = u
  BY DEF InFwdq
<1>2. CASE r # s
  BY <1>1, <1>2 DEF QueueView, InFwdq
<1>3. CASE r = s
  BY <1>1, <1>3 DEF QueueView, OldTask, NewTask, InFwdq, NewUid
<1> QED
  BY <1>2, <1>3

\* A packet in a log and at the head of the queue is a duplicate.
LEMMA LoggedIsDuplicate ==
    ASSUME Base, NEW s \in Stations, NEW i \in 1..Len(fwdq[s]),
           Logged(s, fwdq[s][i].pkt.uid)
    PROVE  IsDuplicate(s, fwdq[s][i].pkt)
<1>1. PICK p : p = fwdq[s][i].pkt
  OBVIOUS
<1>2. p \in PacketType /\ Traced(sent, p)
  BY <1>1, TaskType
<1>3. PICK g \in DOMAIN recvLog[s] : recvLog[s][g].uid = p.uid
  BY <1>1 DEF Logged
<1>4. EntryTraced(sent, g, p.uid)
  BY <1>3 DEF Base, TracedInv, LogTraced
<1>5. g \in Stations \X (1..MaxId)
  BY DEF Base, TypeOK, RecvLogOK
<1>6. /\ g[1] = p.from /\ g[2] \in 1..MaxId /\ p.id \in 1..MaxId
      /\ p.uid[2] \in Nat /\ FirstId[p.from] \in Nat
      /\ IsId(FirstId[p.from], p.uid[2], g[2]) /\ IsId(FirstId[p.from], p.uid[2], p.id)
  <2>1. p.from \in Stations /\ p.id \in 1..MaxId
    BY <1>2 DEF PacketType
  <2>2. p.uid[1] = p.from /\ g[1] = p.uid[1] /\ p.uid[2] \in Nat
        /\ IsId(FirstId[g[1]], p.uid[2], g[2]) /\ IsId(FirstId[p.from], p.uid[2], p.id)
    BY <1>2, <1>4 DEF Traced, EntryTraced, HasUid
  <2>3. FirstId[p.from] \in Nat
    BY <2>1, BoundsAssumption, SizesAssumption
  <2> QED
    BY <1>5, <2>1, <2>2, <2>3
<1>7. g[2] = p.id
  BY <1>6, IdUnique
<1>8. g = Signature(p)
  BY <1>5, <1>6, <1>7 DEF Signature
<1> QED
  BY <1>1, <1>3, <1>8 DEF IsDuplicate

-----------------------------------------------------------------------------
(* Past, Timely, Outside *)

LEMMA PastStep ==
    ASSUME Base, TypeOK', [Next]_vars
    PROVE  Past'
<1>0. Past /\ TypeOK
  BY DEF Base, OnceInv
<1>1. ASSUME UNCHANGED <<boot, sent, aired, inbox>> PROVE Past'
  BY <1>0, <1>1 DEF Past
<1>2. ASSUME SentGrows PROVE \A r \in Stations : \A x \in aired[r] : HasUid(sent', x[1])
  BY <1>0, <1>2, StillHasUid DEF Past
<1>3. ASSUME NEW s \in Stations, NEW a, Sending(s, a) PROVE Past'
  <2>1. SentGrows /\ UNCHANGED <<boot, aired, inbox>>
    BY <1>0, <1>3, SentAfter DEF Sending
  <2> QED
    BY <1>0, <1>2, <2>1 DEF Past
<1>4. ASSUME NEW s \in Stations, NEW reqs, Routing(s, reqs) PROVE Past'
  <2>1. SentGrows /\ UNCHANGED <<boot, aired>>
    BY <1>0, <1>4, SentAfter DEF Routing
  <2>2. PICK t : t = Head(fwdq[s])
    OBVIOUS
  <2>3. /\ \A r \in Stations \ {s} : inbox'[r] = inbox[r]
        /\ inbox'[s] = inbox[s] \/ TakesIn(s, t)
    BY <1>0, <1>4, <2>2, RouteInbox
  <2>4. \A i \in 1..Len(inbox'[s]) : inbox'[s][i].boot <= boot[s]
    <3>1. CASE inbox'[s] = inbox[s]
      BY <1>0, <3>1 DEF Past
    <3>2. CASE TakesIn(s, t)
      <4>1. PICK x : x = [pkt |-> t.pkt, boot |-> boot[s]]
        OBVIOUS
      <4>2. x.boot = boot[s] /\ boot[s] <= boot[s]
        BY <1>0, <4>1 DEF TypeOK
      <4>3. /\ Len(inbox[s]) \in Nat /\ Len(inbox'[s]) = Len(inbox[s]) + 1
            /\ inbox'[s][Len(inbox[s]) + 1] = x
            /\ \A i \in 1..Len(inbox[s]) : inbox'[s][i] = inbox[s][i]
        BY <3>2, <4>1 DEF TakesIn
      <4>4. \A i \in 1..Len(inbox'[s]) : i = Len(inbox[s]) + 1 \/ i \in 1..Len(inbox[s])
        BY <4>3
      <4> QED
        BY <1>0, <4>2, <4>3, <4>4 DEF Past
    <3> QED
      BY <2>3, <3>1, <3>2
  <2> QED
    BY <1>0, <1>2, <2>1, <2>3, <2>4 DEF Past
<1>5. ASSUME NEW s \in Stations, NEW e \in txq[s], NEW R, Airing(s, e, R) PROVE Past'
  <2>1. /\ aired'[s] = aired[s] \cup {<<e.pkt.uid, boot[s]>>}
        /\ \A r \in Stations \ {s} : aired'[r] = aired[r]
        /\ UNCHANGED <<boot, sent, inbox>>
    BY <1>0, <1>5 DEF Airing, TypeOK
  <2>2. HasUid(sent, e.pkt.uid)
    BY DEF Base, TracedInv, TxqTraced, Traced
  <2>3. boot[s] <= boot[s]
    BY <1>0 DEF TypeOK
  <2> QED
    BY <1>0, <2>1, <2>2, <2>3 DEF Past
<1>6. ASSUME NEW s \in Stations, Reboot(s) PROVE Past'
  <2>1. /\ boot'[s] = boot[s] + 1 /\ boot[s] < MaxBoots[s]
        /\ \A r \in Stations \ {s} : boot'[r] = boot[r]
        /\ UNCHANGED <<sent, inbox, aired>>
    BY <1>0, <1>6 DEF Reboot, TypeOK
  <2>2. boot[s] \in Nat /\ MaxBoots[s] \in Nat
    BY <1>0, BoundsAssumption DEF TypeOK
  <2>3. boot'[s] <= MaxBoots[s]
    BY <2>1, <2>2
  <2>4. \A x \in aired[s] : x[2] <= boot'[s]
    <3>1. \A x \in aired[s] : x[2] \in Nat
      BY <1>0 DEF TypeOK
    <3>2. \A x \in aired[s] : x[2] <= boot[s]
      BY <1>0 DEF Past
    <3> QED
      BY <2>1, <2>2, <3>1, <3>2
  <2>5. \A i \in 1..Len(inbox[s]) : inbox[s][i].boot <= boot'[s]
    <3> DEFINE Entry == [pkt : PacketType, boot : Nat]
    <3>1. inbox[s] \in Seq(Entry)
      BY <1>0 DEF TypeOK
    <3> HIDE DEF Entry
    <3>2. \A i \in 1..Len(inbox[s]) : inbox[s][i] \in Entry
      BY <3>1, ElementOfSeq
    <3>3. \A i \in 1..Len(inbox[s]) : inbox[s][i].boot \in Nat
      BY <3>2 DEF Entry
    <3> QED
      BY <1>0, <2>1, <2>2, <3>3 DEF Past
  <2> QED
    BY <1>0, <2>1, <2>3, <2>4, <2>5 DEF Past
<1>7. ASSUME NEW s \in Stations, CleanRecvLog(s) PROVE Past'
  BY <1>1, <1>7 DEF CleanRecvLog
<1>8. Tick => Past'
  BY <1>1 DEF Tick
<1> QED
  BY <1>0, <1>1, <1>3, <1>4, <1>5, <1>6, <1>7, <1>8, Steps

\* Where tasks for the radio come from and go.
LEMMA TxqAfter ==
    ASSUME Base, [Next]_vars, NEW s \in Stations, NEW e \in txq'[s]
    PROVE  \/ e \in txq[s]
           \/ \E reqs : /\ fwdq[s] # <<>> /\ Routing(s, reqs)
                        /\ MadeFor(s, Head(fwdq[s]), e)
<1>0. TypeOK
  BY DEF Base
<1>1. ASSUME NEW r \in Stations, NEW reqs, Routing(r, reqs)
      PROVE  e \in txq[s] \/ (r = s /\ fwdq[s] # <<>> /\ MadeFor(s, Head(fwdq[s]), e))
  <2>1. PICK t : t = Head(fwdq[r])
    OBVIOUS
  <2>2. /\ \A q \in Stations \ {r} : txq'[q] = txq[q]
        /\ txq'[r] = txq[r] \/ \E x : MadeFor(r, t, x) /\ txq'[r] = txq[r] \cup {x}
    BY <1>0, <1>1, <2>1, RouteTxq
  <2>3. fwdq[r] # <<>>
    BY <1>1 DEF Routing
  <2> QED
    BY <2>1, <2>2, <2>3
<1>2. ASSUME NEW r \in Stations, NEW x, NEW R, Airing(r, x, R) PROVE e \in txq[s]
  BY <1>0, <1>2 DEF Airing, Transmit, TypeOK
<1>3. ASSUME NEW r \in Stations, Reboot(r) PROVE e \in txq[s]
  BY <1>0, <1>3 DEF Reboot, TypeOK
<1>4. ASSUME NEW r \in Stations, NEW a, Sending(r, a) PROVE e \in txq[s]
  BY <1>4 DEF Sending
<1>5. ASSUME NEW r \in Stations, CleanRecvLog(r) PROVE e \in txq[s]
  BY <1>5 DEF CleanRecvLog
<1>6. Tick => e \in txq[s]
  BY DEF Tick
<1> QED
  BY <1>0, <1>1, <1>2, <1>3, <1>4, <1>5, <1>6, Steps

LEMMA TimelyStep ==
    ASSUME Base, TypeOK', [Next]_vars
    PROVE  Timely'
<1> SUFFICES ASSUME NEW s \in Stations, NEW e \in txq'[s]
             PROVE  e.at <= now' /\ now' <= e.at + HopTime /\ (e.pkt.from = s \/ s \in Repeaters)
  BY DEF Timely
<1>0. TypeOK /\ Timely
  BY DEF Base, OnceInv
<1>1. now \in Nat /\ now' \in Nat /\ HopTime \in Nat
  BY <1>0, BoundsAssumption DEF TypeOK
<1>2. CASE e \in txq[s]
  <2>1. e.at <= now /\ now <= e.at + HopTime /\ (e.pkt.from = s \/ s \in Repeaters)
    BY <1>0, <1>2 DEF Timely
  <2>2. e.at \in Nat
    BY <1>0, <1>2 DEF TypeOK, TxTasks
  <2>3. \/ now' = now
        \/ now' = now + 1 /\ now < e.at + HopTime
    <3>1. ASSUME Tick PROVE now' = now + 1 /\ now < e.at + HopTime
      BY <1>2, <3>1 DEF Tick
    <3>2. ASSUME NEW r \in Stations, CleanRecvLog(r) \/ Reboot(r) PROVE now' = now
      BY <3>2 DEF CleanRecvLog, Reboot
    <3> QED
      BY <1>0, <3>1, <3>2, Steps DEF Sending, Routing, Airing
  <2> QED
    BY <1>1, <2>1, <2>2, <2>3
<1>3. ASSUME NEW reqs, fwdq[s] # <<>>, Routing(s, reqs), NEW t, t = Head(fwdq[s]), MadeFor(s, t, e)
      PROVE  e.at <= now' /\ now' <= e.at + HopTime /\ (e.pkt.from = s \/ s \in Repeaters)
  <2>1. now' = now /\ e.at = now
    BY <1>3 DEF Routing, MadeFor
  <2>2. t.origin => t.pkt.from = s
    BY <1>0, <1>3, HeadTask, TaskType
  <2>3. e.pkt.from = s \/ s \in Repeaters
    BY <1>3, <2>2 DEF MadeFor
  <2> QED
    BY <1>1, <2>1, <2>3
<1> QED
  BY <1>2, <1>3, TxqAfter

\* What was on the air stays so.
LEMMA AiredGrows ==
    ASSUME TypeOK, [Next]_vars
    PROVE  /\ \A s \in Stations : aired[s] \subseteq aired'[s]
           /\ \A u : u[1] \in Stations /\ OnAir(u) => OnAir(u)'
<1>1. ASSUME NEW s \in Stations, NEW e, NEW R, Airing(s, e, R)
      PROVE  \A r \in Stations : aired[r] \subseteq aired'[r]
  BY <1>1 DEF Airing, TypeOK
<1>2. ASSUME NEW s \in Stations, CleanRecvLog(s) \/ Reboot(s) PROVE UNCHANGED aired
  BY <1>2 DEF CleanRecvLog, Reboot
<1>3. Tick => UNCHANGED aired
  BY DEF Tick
<1>4. \A s \in Stations : aired[s] \subseteq aired'[s]
  BY <1>1, <1>2, <1>3, Steps DEF Sending, Routing
<1> QED
  BY <1>4 DEF OnAir

\* Where PacketFwd tasks come from.
LEMMA FwdqAfter ==
    ASSUME Base, [Next]_vars, NEW s \in Stations, NEW i \in 1..Len(fwdq'[s]),
           NEW t, t = fwdq'[s][i]
    PROVE  \/ \E j \in 1..Len(fwdq[s]) : t = fwdq[s][j]
           \/ t.origin /\ NewUid(s, t.pkt.uid) /\ UNCHANGED <<txq, recvLog, inbox, boot>>
           \/ t.origin /\ NewUid(s, t.pkt.uid) /\ \E reqs : Routing(s, reqs)
           \/ /\ ~t.origin
              /\ \E r \in Stations : \E e \in txq[r], R \in SUBSET Hearers(r) :
                    Airing(r, e, R) /\ t.pkt.uid = e.pkt.uid
<1>0. TypeOK
  BY DEF Base
<1>1. ASSUME NEW r \in Stations, NEW d, NEW c, QueueView(r, d, c)
      PROVE  \/ \E j \in 1..Len(fwdq[s]) : t = fwdq[s][j]
             \/ r = s /\ t.origin /\ NewUid(s, t.pkt.uid)
  <2>1. CASE r # s
    BY <1>1, <2>1 DEF QueueView
  <2>2. CASE r = s
    BY <1>1, <2>2 DEF QueueView, OldTask, NewTask, NewUid
  <2> QED
    BY <2>1, <2>2
<1>2. ASSUME NEW r \in Stations, NEW a, Sending(r, a)
      PROVE  \/ \E j \in 1..Len(fwdq[s]) : t = fwdq[s][j]
             \/ t.origin /\ NewUid(s, t.pkt.uid) /\ UNCHANGED <<txq, recvLog, inbox, boot>>
  BY <1>0, <1>1, <1>2, SendingQueue DEF Sending
<1>3. ASSUME NEW r \in Stations, NEW reqs, Routing(r, reqs)
      PROVE  \/ \E j \in 1..Len(fwdq[s]) : t = fwdq[s][j]
             \/ t.origin /\ NewUid(s, t.pkt.uid) /\ \E x : Routing(s, x)
  BY <1>0, <1>1, <1>3, RoutingQueue
<1>4. ASSUME NEW r \in Stations, NEW e \in txq[r], NEW R \in SUBSET Hearers(r), Airing(r, e, R)
      PROVE  \/ \E j \in 1..Len(fwdq[s]) : t = fwdq[s][j]
             \/ ~t.origin /\ t.pkt.uid = e.pkt.uid
  <2>1. CASE s \notin R
    BY <1>4, <2>1 DEF Airing, Transmit
  <2>2. CASE s \in R
    <3>1. PICK q : q = Decode(e.pkt, Rssi[<<r, s>>])
      OBVIOUS
    <3>2. PICK x : x = [pkt |-> q, origin |-> FALSE]
      OBVIOUS
    <3>3. e.pkt \in PacketType /\ Rssi[<<r, s>>] \in Int
      BY <1>0, <2>2, TopologyAssumption DEF TypeOK, TxTasks, Hearers
    <3>4. q.uid = e.pkt.uid /\ q \in PacketType
      BY <3>1, <3>3 DEF Decode, PacketType
    <3>5. x \in FwdTasks /\ x.pkt = q /\ x.origin = FALSE
      BY <3>2, <3>4 DEF FwdTasks
    <3>6. fwdq'[s] = Append(fwdq[s], x) /\ fwdq[s] \in Seq(FwdTasks)
      BY <1>0, <1>4, <2>2, <3>1, <3>2 DEF Airing, Transmit, TypeOK
    <3>7. fwdq'[s][i] = x \/ (i \in 1..Len(fwdq[s]) /\ fwdq'[s][i] = fwdq[s][i])
      BY <3>5, <3>6, AppendProperties
    <3> QED
      BY <3>4, <3>5, <3>7
  <2> QED
    BY <2>1, <2>2
<1>5. ASSUME NEW r \in Stations, Reboot(r) PROVE \E j \in 1..Len(fwdq[s]) : t = fwdq[s][j]
  <2>1. fwdq'[r] = <<>> /\ \A q \in Stations \ {r} : fwdq'[q] = fwdq[q]
    BY <1>0, <1>5 DEF Reboot, TypeOK
  <2>2. s # r
    BY <2>1
  <2> QED
    BY <2>1, <2>2
<1>6. ASSUME NEW r \in Stations, CleanRecvLog(r) PROVE UNCHANGED fwdq
  BY <1>6 DEF CleanRecvLog
<1>7. Tick => UNCHANGED fwdq
  BY DEF Tick
<1> QED
  BY <1>0, <1>2, <1>3, <1>4, <1>5, <1>6, <1>7, Steps

\* Where entries of a receive log come from.
LEMMA LogAfter ==
    ASSUME Base, [Next]_vars, NEW s \in Stations, NEW g \in DOMAIN recvLog'[s]
    PROVE  \/ g \in DOMAIN recvLog[s] /\ recvLog'[s][g] = recvLog[s][g]
           \/ LET t == Head(fwdq[s]) IN
              /\ fwdq[s] # <<>>
              /\ \E reqs : Routing(s, reqs)
              /\ t.origin \/ ByRadio(s, t)
              /\ g = Signature(t.pkt)
              /\ recvLog'[s][g].uid = t.pkt.uid /\ recvLog'[s][g].ts = now
<1>0. TypeOK
  BY DEF Base
<1>1. ASSUME NEW r \in Stations, NEW reqs, Routing(r, reqs),
             ~(g \in DOMAIN recvLog[s] /\ recvLog'[s][g] = recvLog[s][g])
      PROVE  /\ r = s /\ fwdq[s] # <<>>
             /\ Head(fwdq[s]).origin \/ ByRadio(s, Head(fwdq[s]))
             /\ g = Signature(Head(fwdq[s]).pkt)
             /\ recvLog'[s][g].uid = Head(fwdq[s]).pkt.uid /\ recvLog'[s][g].ts = now
  <2>1. PICK t : t = Head(fwdq[r])
    OBVIOUS
  <2>2. /\ \A q \in Stations \ {r} : recvLog'[q] = recvLog[q]
        /\ recvLog'[r] = recvLog[r] \/ (Notes(r, t.pkt) /\ (t.origin \/ ByRadio(r, t)))
    BY <1>0, <1>1, <2>1, RouteLog
  <2>3. fwdq[r] # <<>>
    BY <1>1 DEF Routing
  <2>4. r = s /\ Notes(r, t.pkt) /\ (t.origin \/ ByRadio(r, t))
    BY <1>1, <2>2
  <2>5. g = Signature(t.pkt) /\ recvLog'[s][g].uid = t.pkt.uid /\ recvLog'[s][g].ts = now
    BY <1>1, <2>4 DEF Notes
  <2> QED
    BY <2>1, <2>3, <2>4, <2>5
<1>2. ASSUME NEW r \in Stations, CleanRecvLog(r)
      PROVE  g \in DOMAIN recvLog[s] /\ recvLog'[s][g] = recvLog[s][g]
  BY <1>0, <1>2 DEF CleanRecvLog, Fresh, TypeOK
<1>3. ASSUME NEW r \in Stations, Reboot(r)
      PROVE  g \in DOMAIN recvLog[s] /\ recvLog'[s][g] = recvLog[s][g]
  <2>1. recvLog'[r] = Empty /\ \A q \in Stations \ {r} : recvLog'[q] = recvLog[q]
    BY <1>0, <1>3 DEF Reboot, TypeOK
  <2> QED
    BY <2>1, EmptyTable
<1>4. ASSUME UNCHANGED recvLog PROVE g \in DOMAIN recvLog[s] /\ recvLog'[s][g] = recvLog[s][g]
  BY <1>4
<1>5. ASSUME NEW r \in Stations, NEW a, Sending(r, a) PROVE UNCHANGED recvLog
  BY <1>5 DEF Sending
<1>6. ASSUME NEW r \in Stations, NEW e, NEW R, Airing(r, e, R) PROVE UNCHANGED recvLog
  BY <1>6 DEF Airing
<1>7. Tick => UNCHANGED recvLog
  BY DEF Tick
<1> QED
  BY <1>0, <1>1, <1>2, <1>3, <1>4, <1>5, <1>6, <1>7, Steps

LEMMA OutsideStep ==
    ASSUME Base, TypeOK', [Next]_vars
    PROVE  Outside'
<1>0. TypeOK /\ Outside
  BY DEF Base, OnceInv
<1>1. \A u : u[1] \in Stations /\ OnAir(u) => OnAir(u)'
  BY <1>0, AiredGrows
<1>2. ASSUME NEW p, Traced(sent, p) PROVE p.uid[1] = p.from /\ p.uid[1] \in Stations
  BY <1>2 DEF Traced, HasUid
<1>3. ASSUME NEW s \in Stations, NEW i \in 1..Len(fwdq'[s]),
             NEW t, t = fwdq'[s][i], ~t.origin
      PROVE  OnAir(t.pkt.uid)'
  <2>2. CASE \E j \in 1..Len(fwdq[s]) : t = fwdq[s][j]
    <3>1. PICK j \in 1..Len(fwdq[s]) : t = fwdq[s][j]
      BY <2>2
    <3>2. OnAir(t.pkt.uid)
      BY <1>0, <1>3, <3>1 DEF Outside
    <3>3. t.pkt.uid[1] \in Stations
      BY <1>2, <3>1, TaskType
    <3> QED
      BY <1>1, <3>2, <3>3
  <2>3. ASSUME NEW r \in Stations, NEW e \in txq[r], NEW R, Airing(r, e, R),
               t.pkt.uid = e.pkt.uid
        PROVE  OnAir(t.pkt.uid)'
    <3>1. Traced(sent, e.pkt)
      BY DEF Base, TracedInv, TxqTraced
    <3>2. e.pkt.uid[1] = e.pkt.from /\ e.pkt.uid[1] \in Stations
      BY <1>2, <3>1
    <3>3. CASE e.pkt.from = r
      <4>1. <<e.pkt.uid, boot[r]>> \in aired'[r] /\ boot[r] \in Nat
        BY <1>0, <2>3 DEF Airing, TypeOK
      <4> QED
        BY <2>3, <3>2, <3>3, <4>1 DEF OnAir
    <3>4. CASE e.pkt.from # r
      <4>1. OnAir(e.pkt.uid)
        BY <1>0, <2>3, <3>4 DEF Outside
      <4> QED
        BY <1>1, <2>3, <3>2, <4>1
    <3> QED
      BY <3>3, <3>4
  <2> QED
    BY <1>3, <2>2, <2>3, FwdqAfter
<1>4. ASSUME NEW s \in Stations, fwdq[s] # <<>>, NEW t, t = Head(fwdq[s])
      PROVE  /\ t.origin => t.pkt.from = s
             /\ ~t.origin => OnAir(t.pkt.uid)'
             /\ Traced(sent, t.pkt) /\ t.pkt \in PacketType
  <2>1. 1 \in 1..Len(fwdq[s]) /\ t = fwdq[s][1]
    BY <1>0, <1>4, HeadTask
  <2>2. Traced(sent, t.pkt) /\ t.pkt \in PacketType /\ (t.origin => t.pkt.from = s)
    BY <2>1, TaskType
  <2>3. ~t.origin => OnAir(t.pkt.uid)
    BY <1>0, <2>1 DEF Outside
  <2> QED
    BY <1>1, <1>2, <2>2, <2>3
<1>5. ASSUME NEW s \in Stations, NEW e \in txq'[s], e.pkt.from # s
      PROVE  OnAir(e.pkt.uid)'
  <2>1. CASE e \in txq[s]
    <3>1. OnAir(e.pkt.uid)
      BY <1>0, <1>5, <2>1 DEF Outside
    <3>2. e.pkt.uid[1] \in Stations
      BY <1>2, <2>1 DEF Base, TracedInv, TxqTraced
    <3> QED
      BY <1>1, <3>1, <3>2
  <2>2. ASSUME fwdq[s] # <<>>, NEW t, t = Head(fwdq[s]), MadeFor(s, t, e)
        PROVE  OnAir(e.pkt.uid)'
    BY <1>4, <1>5, <2>2 DEF MadeFor
  <2> QED
    BY <2>1, <2>2, TxqAfter
<1>6. ASSUME NEW s \in Stations, NEW g \in DOMAIN recvLog'[s], g[1] # s,
             NEW u, u = recvLog'[s][g].uid
      PROVE  OnAir(u)'
  <2>1. CASE g \in DOMAIN recvLog[s] /\ recvLog'[s][g] = recvLog[s][g]
    <3>1. OnAir(u)
      BY <1>0, <1>6, <2>1 DEF Outside
    <3>2. u[1] \in Stations
      BY <1>6, <2>1 DEF Base, TracedInv, LogTraced, EntryTraced, HasUid
    <3> QED
      BY <1>1, <3>1, <3>2
  <2>2. ASSUME fwdq[s] # <<>>, NEW t, t = Head(fwdq[s]), g = Signature(t.pkt),
               t.origin \/ ByRadio(s, t), recvLog'[s][g].uid = t.pkt.uid
        PROVE  OnAir(u)'
    <3>1. t.pkt.from # s
      BY <1>6, <2>2 DEF Signature
    <3> QED
      BY <1>4, <1>6, <2>2, <3>1
  <2> QED
    BY <1>6, <2>1, <2>2, LogAfter
<1>7. ASSUME NEW s \in Stations
      PROVE  /\ \A i \in 1..Len(fwdq'[s]) : ~fwdq'[s][i].origin =>
                   \E b \in Nat : <<fwdq'[s][i].pkt.uid, b>> \in aired'[fwdq'[s][i].pkt.uid[1]]
             /\ \A e \in txq'[s] : e.pkt.from # s =>
                   \E b \in Nat : <<e.pkt.uid, b>> \in aired'[e.pkt.uid[1]]
             /\ \A g \in DOMAIN recvLog'[s] : g[1] # s =>
                   \E b \in Nat : <<recvLog'[s][g].uid, b>> \in aired'[recvLog'[s][g].uid[1]]
  BY <1>3, <1>5, <1>6 DEF OnAir
<1> QED
  BY <1>7 DEF Outside, OnAir

-----------------------------------------------------------------------------
(* AtSource *)

\* A task changes nothing for a packet that is not its own.
LEMMA RouteEarly ==
    ASSUME Base, NEW s \in Stations, NEW reqs, Routing(s, reqs),
           NEW u, u[1] = s, Early(s, u),
           NEW t, t = Head(fwdq[s]), t.origin \/ ByRadio(s, t) => t.pkt.uid # u
    PROVE  Early(s, u)'
<1>0. TypeOK
  BY DEF Base
<1>1. UNCHANGED aired
  BY DEF Routing
<1>2. txq'[s] = txq[s] \/ \E e : MadeFor(s, t, e) /\ txq'[s] = txq[s] \cup {e}
  BY <1>0, RouteTxq
<1>3. ~(\E e \in txq'[s] : e.pkt.uid = u)
  BY <1>2 DEF Early, InTxq, MadeFor
<1>4. inbox'[s] = inbox[s] \/ TakesIn(s, t)
  BY <1>0, RouteInbox
<1>5. ~(\E i \in 1..Len(inbox'[s]) : inbox'[s][i].pkt.uid = u)
  <2>1. CASE inbox'[s] = inbox[s]
    BY <2>1 DEF Early, InInbox
  <2>2. CASE TakesIn(s, t)
    <3>1. PICK x : x = [pkt |-> t.pkt, boot |-> boot[s]]
      OBVIOUS
    <3>2. x.pkt.uid # u
      BY <2>2, <3>1 DEF TakesIn
    <3>3. /\ Len(inbox[s]) \in Nat /\ Len(inbox'[s]) = Len(inbox[s]) + 1
          /\ inbox'[s][Len(inbox[s]) + 1] = x
          /\ \A i \in 1..Len(inbox[s]) : inbox'[s][i] = inbox[s][i]
      BY <2>2, <3>1 DEF TakesIn
    <3>4. \A i \in 1..Len(inbox'[s]) : i = Len(inbox[s]) + 1 \/ i \in 1..Len(inbox[s])
      BY <3>3
    <3> QED
      BY <3>2, <3>3, <3>4 DEF Early, InInbox
  <2> QED
    BY <1>4, <2>1, <2>2
<1> QED
  BY <1>1, <1>3, <1>5 DEF Early, OnAir, InTxq, InInbox

\* The head of the queue, and what it is to the station.
LEMMA HeadFacts ==
    ASSUME Base, NEW s \in Stations, fwdq[s] # <<>>, NEW t, t = Head(fwdq[s])
    PROVE  /\ 1 \in 1..Len(fwdq[s]) /\ t = fwdq[s][1]
           /\ t.pkt \in PacketType /\ t.origin \in BOOLEAN
           /\ Traced(sent, t.pkt) /\ t.pkt.uid[1] = t.pkt.from
           /\ InFwdq(s, t.pkt.uid) /\ UnderWay(t.pkt.uid)
           /\ t.origin => t.pkt.from = s /\ Early(s, t.pkt.uid)
           /\ ByRadio(s, t) => t.pkt.from # s /\ ~Logged(s, t.pkt.uid) /\ OnAir(t.pkt.uid)
<1>1. 1 \in 1..Len(fwdq[s]) /\ t = fwdq[s][1]
  BY HeadTask DEF Base
<1>2. /\ t.pkt \in PacketType /\ t.origin \in BOOLEAN /\ Traced(sent, t.pkt)
      /\ t.origin => t.pkt.from = s
  BY <1>1, TaskType
<1>3. InFwdq(s, t.pkt.uid) /\ UnderWay(t.pkt.uid)
  BY <1>1 DEF InFwdq, UnderWay
<1>4. t.origin => Early(s, t.pkt.uid)
  BY <1>1 DEF Base, OnceInv, AtSource
<1>5. ~t.origin => OnAir(t.pkt.uid)
  BY <1>1 DEF Base, OnceInv, Outside
<1>6. ByRadio(s, t) => t.pkt.from # s /\ ~Logged(s, t.pkt.uid)
  BY <1>1, LoggedIsDuplicate DEF ByRadio, IsDuplicate
<1>7. t.pkt.uid[1] = t.pkt.from
  BY <1>2 DEF Traced
<1> QED
  BY <1>1, <1>2, <1>3, <1>4, <1>5, <1>6, <1>7 DEF ByRadio

\* A packet still waiting is not the one that a task of the radio or of another
\* station is about.
LEMMA WaitingIsEarly ==
    ASSUME Base, [Next]_vars, NEW s \in Stations, NEW i \in 1..Len(fwdq'[s]),
           NEW t, t = fwdq'[s][i], t.origin, NEW u, u = t.pkt.uid
    PROVE  t.pkt.from = s /\ Early(s, u)'
<1>0. TypeOK /\ AtSource
  BY DEF Base, OnceInv
<1>1. ASSUME NEW j \in 1..Len(fwdq[s]), t = fwdq[s][j]
      PROVE  t.pkt.from = s /\ Early(s, u) /\ u[1] = s
  <2>1. Early(s, u)
    BY <1>0, <1>1 DEF AtSource
  <2>2. t.pkt.from = s /\ Traced(sent, t.pkt)
    BY <1>1, TaskType
  <2> QED
    BY <2>1, <2>2 DEF Traced
<1>2. ASSUME UNCHANGED aired, txq'[s] = txq[s], inbox'[s] = inbox[s], Early(s, u)
      PROVE  Early(s, u)'
  BY <1>2 DEF Early, OnAir, InTxq, InInbox
<1>3. ASSUME NEW r \in Stations, NEW a, Sending(r, a) PROVE t.pkt.from = s /\ Early(s, u)'
  <2>1. UNCHANGED <<aired, txq, inbox>>
    BY <1>3 DEF Sending
  <2>2. QueueView(r, 0, Len(fwdq[r]))
    BY <1>0, <1>3, SendingQueue
  <2>3. \/ \E j \in 1..Len(fwdq[s]) : t = fwdq[s][j]
        \/ t.pkt.from = s /\ NewUid(s, u)
    <3>1. CASE r # s
      BY <2>2, <3>1 DEF QueueView
    <3>2. CASE r = s
      BY <2>2, <3>2 DEF QueueView, OldTask, NewTask, NewUid
    <3> QED
      BY <3>1, <3>2
  <2>4. NewUid(s, u) => Early(s, u)
    BY NewIsUnknown DEF Early
  <2> QED
    BY <1>1, <1>2, <2>1, <2>3, <2>4
<1>4. ASSUME NEW r \in Stations, NEW reqs, Routing(r, reqs) PROVE t.pkt.from = s /\ Early(s, u)'
  <2>1. QueueView(r, 1, Len(Tail(fwdq[r])))
    BY <1>0, <1>4, RoutingQueue
  <2>2. CASE r # s
    <3>1. UNCHANGED aired /\ txq'[s] = txq[s] /\ inbox'[s] = inbox[s]
      <4>1. PICK h : h = Head(fwdq[r])
        OBVIOUS
      <4> QED
        BY <1>0, <1>4, <2>2, <4>1, RouteTxq, RouteInbox DEF Routing
    <3>2. fwdq'[s] = fwdq[s]
      BY <2>1, <2>2 DEF QueueView
    <3> QED
      BY <1>1, <1>2, <3>1, <3>2
  <2>3. CASE r = s
    <3>1. PICK h : h = Head(fwdq[s])
      OBVIOUS
    <3>2. fwdq[s] # <<>>
      BY <1>4, <2>3 DEF Routing
    <3>3. /\ 1 \in 1..Len(fwdq[s]) /\ h = fwdq[s][1]
          /\ h.pkt.uid[1] = h.pkt.from /\ InFwdq(s, h.pkt.uid)
          /\ ByRadio(s, h) => h.pkt.from # s
      BY <3>1, <3>2, HeadFacts
    <3>4. CASE OldTask(s, 1, i)
      <4>1. i + 1 \in 1..Len(fwdq[s]) /\ t = fwdq[s][i + 1] /\ i + 1 # 1
        BY <3>4 DEF OldTask
      <4>2. t.pkt.from = s /\ Early(s, u) /\ u[1] = s
        BY <1>1, <4>1
      <4>3. h.origin => h.pkt.uid # u
        BY <1>0, <3>3, <4>1 DEF AtSource
      <4>4. ByRadio(s, h) => h.pkt.uid # u
        BY <3>3, <4>2
      <4> QED
        BY <1>4, <2>3, <3>1, <4>2, <4>3, <4>4, RouteEarly
    <3>5. CASE NewTask(s, Len(Tail(fwdq[s])), i)
      <4>1. t.pkt.from = s /\ NewUid(s, u)
        BY <3>5 DEF NewTask, NewUid
      <4>2. u[1] = s /\ Early(s, u) /\ h.pkt.uid # u
        BY <3>3, <4>1, NewIsUnknown DEF Early
      <4> QED
        BY <1>4, <2>3, <3>1, <4>1, <4>2, RouteEarly
    <3> QED
      BY <2>1, <2>3, <3>4, <3>5 DEF QueueView
  <2> QED
    BY <2>2, <2>3
<1>5. ASSUME NEW r \in Stations, NEW e \in txq[r], NEW R \in SUBSET Hearers(r), Airing(r, e, R)
      PROVE  t.pkt.from = s /\ Early(s, u)'
  <2>1. PICK j \in 1..Len(fwdq[s]) : t = fwdq[s][j]
    <3>1. ~NewUid(s, u)
      <4>1. UNCHANGED sent
        BY <1>5 DEF Airing
      <4>2. TypeOK' /\ TracedInv'
        BY <1>0, NextType, NextTraced DEF Base
      <4>3. HasUid(sent', u)
        BY <4>2 DEF TracedInv, FwdqTraced, Traced
      <4>4. \A k \in Nat : ~(k + 1 <= k) /\ ~(k + 2 <= k)
        OBVIOUS
      <4>5. Len(sent[s]) \in Nat
        BY <1>0, LenProperties DEF TypeOK
      <4> QED
        BY <4>1, <4>3, <4>4, <4>5 DEF NewUid, HasUid
    <3> QED
      BY <3>1, FwdqAfter
  <2>2. t.pkt.from = s /\ Early(s, u) /\ u[1] = s
    BY <1>1, <2>1
  <2>3. \A b : <<u, b>> \in aired'[s] => <<u, b>> \in aired[s]
    <3>1. CASE r = s
      <4>1. e.pkt.uid # u
        BY <2>2, <3>1 DEF Early, InTxq
      <4> QED
        BY <1>0, <1>5, <3>1, <4>1 DEF Airing, TypeOK
    <3>2. CASE r # s
      BY <1>0, <1>5, <3>2 DEF Airing, TypeOK
    <3> QED
      BY <3>1, <3>2
  <2>4. txq'[s] \subseteq txq[s] /\ inbox' = inbox
    BY <1>0, <1>5 DEF Airing, Transmit, TypeOK
  <2> QED
    BY <2>2, <2>3, <2>4 DEF Early, OnAir, InTxq, InInbox
<1>6. ASSUME NEW r \in Stations, Reboot(r) PROVE t.pkt.from = s /\ Early(s, u)'
  <2>1. /\ fwdq'[r] = <<>> /\ \A q \in Stations \ {r} : fwdq'[q] = fwdq[q] /\ txq'[q] = txq[q]
        /\ UNCHANGED <<aired, inbox>>
    BY <1>0, <1>6 DEF Reboot, TypeOK
  <2>2. s # r
    BY <2>1
  <2> QED
    BY <1>1, <1>2, <2>1, <2>2
<1>7. ASSUME UNCHANGED <<fwdq, txq, aired, inbox>> PROVE t.pkt.from = s /\ Early(s, u)'
  BY <1>1, <1>2, <1>7
<1>8. ASSUME NEW r \in Stations, CleanRecvLog(r) PROVE UNCHANGED <<fwdq, txq, aired, inbox>>
  BY <1>8 DEF CleanRecvLog
<1>9. Tick => UNCHANGED <<fwdq, txq, aired, inbox>>
  BY DEF Tick
<1> QED
  BY <1>0, <1>3, <1>4, <1>5, <1>6, <1>7, <1>8, <1>9, Steps

\* Two tasks of s do not wait with the same packet of its own.
LEMMA WaitingOnce ==
    ASSUME Base, [Next]_vars, NEW s \in Stations,
           NEW i \in 1..Len(fwdq'[s]), NEW j \in 1..Len(fwdq'[s]),
           fwdq'[s][i].origin, fwdq'[s][j].origin,
           fwdq'[s][i].pkt.uid = fwdq'[s][j].pkt.uid
    PROVE  i = j
<1>0. TypeOK /\ AtSource
  BY DEF Base, OnceInv
<1>1. CASE fwdq'[s] = fwdq[s]
  BY <1>0, <1>1 DEF AtSource
<1>2. ASSUME NEW d, NEW c, QueueView(s, d, c) PROVE i = j
  <2>1. /\ d \in Nat /\ c \in Nat
        /\ OldTask(s, d, i) \/ NewTask(s, c, i)
        /\ OldTask(s, d, j) \/ NewTask(s, c, j)
    BY <1>2 DEF QueueView
  <2>2. ASSUME NEW x \in 1..Len(fwdq'[s]), NEW y \in 1..Len(fwdq'[s]),
               OldTask(s, d, x), NewTask(s, c, y)
        PROVE  fwdq'[s][x].pkt.uid # fwdq'[s][y].pkt.uid
    <3>1. PICK u : u = fwdq'[s][y].pkt.uid
      OBVIOUS
    <3>2. NewUid(s, u)
      BY <2>2, <3>1 DEF NewTask, NewUid
    <3>3. ~InFwdq(s, u)
      BY <3>2, NewIsUnknown
    <3> QED
      BY <2>2, <3>1, <3>3 DEF OldTask, InFwdq
  <2>3. CASE OldTask(s, d, i) /\ OldTask(s, d, j)
    <3>1. i + d = j + d
      BY <1>0, <2>3 DEF OldTask, AtSource
    <3> QED
      BY <2>1, <3>1
  <2>4. CASE NewTask(s, c, i) /\ NewTask(s, c, j)
    <3>1. PICK m \in 1..2 : i = c + m /\ fwdq'[s][i].pkt.uid = <<s, Len(sent[s]) + m>>
      BY <2>4 DEF NewTask
    <3>2. PICK n \in 1..2 : j = c + n /\ fwdq'[s][j].pkt.uid = <<s, Len(sent[s]) + n>>
      BY <2>4 DEF NewTask
    <3>3. Len(sent[s]) \in Nat
      BY <1>0, LenProperties DEF TypeOK
    <3>4. Len(sent[s]) + m = Len(sent[s]) + n
      BY <3>1, <3>2
    <3> QED
      BY <3>1, <3>2, <3>3, <3>4
  <2> QED
    BY <2>1, <2>2, <2>3, <2>4
<1>3. ASSUME NEW r \in Stations, NEW d, NEW c, QueueView(r, d, c) PROVE i = j
  BY <1>1, <1>2, <1>3 DEF QueueView
<1>4. ASSUME NEW r \in Stations, NEW e \in txq[r], NEW R \in SUBSET Hearers(r), Airing(r, e, R)
      PROVE  i = j
  <2>1. CASE s \notin R
    BY <1>1, <1>4, <2>1 DEF Airing, Transmit
  <2>2. CASE s \in R
    <3>1. PICK x : x = [pkt |-> Decode(e.pkt, Rssi[<<r, s>>]), origin |-> FALSE]
      OBVIOUS
    <3>2. e.pkt \in PacketType /\ Rssi[<<r, s>>] \in Int
      BY <1>0, <2>2, TopologyAssumption DEF TypeOK, TxTasks, Hearers
    <3>3. x \in FwdTasks /\ x.origin = FALSE
      <4>1. Decode(e.pkt, Rssi[<<r, s>>]) \in PacketType
        BY <3>2 DEF Decode, PacketType
      <4> QED
        BY <3>1, <4>1 DEF FwdTasks
    <3>4. fwdq'[s] = Append(fwdq[s], x) /\ fwdq[s] \in Seq(FwdTasks)
      BY <1>0, <1>4, <2>2, <3>1 DEF Airing, Transmit, TypeOK
    <3>5. \A k \in 1..Len(fwdq'[s]) :
             fwdq'[s][k] = x \/ (k \in 1..Len(fwdq[s]) /\ fwdq'[s][k] = fwdq[s][k])
      BY <3>3, <3>4, AppendProperties
    <3>6. /\ i \in 1..Len(fwdq[s]) /\ fwdq'[s][i] = fwdq[s][i]
          /\ j \in 1..Len(fwdq[s]) /\ fwdq'[s][j] = fwdq[s][j]
      BY <3>3, <3>5
    <3> QED
      BY <1>0, <3>6 DEF AtSource
  <2> QED
    BY <2>1, <2>2
<1>5. ASSUME NEW r \in Stations, Reboot(r) PROVE i = j
  <2>1. fwdq'[r] = <<>> /\ \A q \in Stations \ {r} : fwdq'[q] = fwdq[q]
    BY <1>0, <1>5 DEF Reboot, TypeOK
  <2>2. s # r
    BY <2>1
  <2> QED
    BY <1>1, <2>1, <2>2
<1>6. ASSUME NEW r \in Stations, CleanRecvLog(r) PROVE fwdq' = fwdq
  BY <1>6 DEF CleanRecvLog
<1>7. Tick => fwdq' = fwdq
  BY DEF Tick
<1> QED
  BY <1>0, <1>1, <1>3, <1>4, <1>5, <1>6, <1>7, Steps, SendingQueue, RoutingQueue

\* What waits for the radio at its source was not on the air.
LEMMA OwnTxStep ==
    ASSUME Base, [Next]_vars, NEW s \in Stations, NEW e \in txq'[s], e.pkt.from = s
    PROVE  ~OnAir(e.pkt.uid)'
<1>0. TypeOK /\ AtSource /\ AtMostOnceOnAir
  BY DEF Base, OnceInv
<1>1. PICK u : u = e.pkt.uid
  OBVIOUS
<1>2. CASE e \in txq[s]
  <2>1. ~OnAir(u)
    BY <1>0, <1>1, <1>2 DEF AtSource
  <2>2. u[1] = s
    BY <1>1, <1>2 DEF Base, TracedInv, TxqTraced, Traced
  <2>3. ASSUME NEW r \in Stations, NEW x \in txq[r], NEW R, Airing(r, x, R)
        PROVE  \A b : <<u, b>> \in aired'[s] => <<u, b>> \in aired[s]
    <3>1. CASE r = s
      <4>1. x # e
        BY <1>0, <2>3, <3>1 DEF Airing, Transmit, TypeOK
      <4>2. x.pkt.uid # u
        BY <1>0, <1>1, <1>2, <3>1, <4>1 DEF AtMostOnceOnAir
      <4> QED
        BY <1>0, <2>3, <3>1, <4>2 DEF Airing, TypeOK
    <3>2. CASE r # s
      BY <1>0, <2>3, <3>2 DEF Airing, TypeOK
    <3> QED
      BY <3>1, <3>2
  <2>4. ASSUME NEW r \in Stations, CleanRecvLog(r) \/ Reboot(r) PROVE UNCHANGED aired
    BY <2>4 DEF CleanRecvLog, Reboot
  <2>5. Tick => UNCHANGED aired
    BY DEF Tick
  <2>6. \A b : <<u, b>> \in aired'[s] => <<u, b>> \in aired[s]
    BY <1>0, <2>3, <2>4, <2>5, Steps DEF Sending, Routing
  <2> QED
    BY <1>1, <2>1, <2>2, <2>6 DEF OnAir
<1>3. ASSUME NEW reqs, fwdq[s] # <<>>, Routing(s, reqs), NEW t, t = Head(fwdq[s]), MadeFor(s, t, e)
      PROVE  ~OnAir(e.pkt.uid)'
  <2>1. t.origin
    BY <1>3, HeadFacts DEF MadeFor
  <2>2. ~OnAir(u)
    BY <1>1, <1>3, <2>1, HeadFacts DEF MadeFor, Early
  <2>3. UNCHANGED aired
    BY <1>3 DEF Routing
  <2> QED
    BY <1>1, <2>2, <2>3 DEF OnAir
<1> QED
  BY <1>2, <1>3, TxqAfter

LEMMA AtSourceStep ==
    ASSUME Base, [Next]_vars
    PROVE  AtSource'
<1>1. ASSUME NEW s \in Stations, NEW i \in 1..Len(fwdq'[s]), fwdq'[s][i].origin
      PROVE  (Early(s, fwdq[s][i].pkt.uid))'
  <2>1. PICK t : t = fwdq'[s][i]
    OBVIOUS
  <2>2. PICK u : u = t.pkt.uid
    OBVIOUS
  <2>3. Early(s, u)'
    BY <1>1, <2>1, <2>2, WaitingIsEarly
  <2> QED
    BY <2>1, <2>2, <2>3 DEF Early, OnAir, InTxq, InInbox
<1>2. \A s \in Stations : \A i, j \in 1..Len(fwdq'[s]) :
         /\ fwdq'[s][i].origin /\ fwdq'[s][j].origin
         /\ fwdq'[s][i].pkt.uid = fwdq'[s][j].pkt.uid
         => i = j
  BY WaitingOnce
<1>3. \A s \in Stations : \A e \in txq'[s] : e.pkt.from = s => ~OnAir(e.pkt.uid)'
  BY OwnTxStep
<1> QED
  BY <1>1, <1>2, <1>3 DEF AtSource

-----------------------------------------------------------------------------
(* Once on the air, once delivered *)

\* A task with consequences is for a packet not handled since the reboot.
LEMMA ActsOnce ==
    ASSUME Base, NEW s \in Stations, fwdq[s] # <<>>, NEW t, t = Head(fwdq[s]),
           t.origin \/ ByRadio(s, t)
    PROVE  ~Handled(s, t.pkt.uid)
<1>1. PICK u : u = t.pkt.uid
  OBVIOUS
<1>2. /\ u[1] = t.pkt.from /\ UnderWay(u)
      /\ t.origin => t.pkt.from = s /\ Early(s, u)
      /\ ByRadio(s, t) => t.pkt.from # s /\ ~Logged(s, u)
  BY <1>1, HeadFacts
<1>3. CASE t.origin
  <2>1. u[1] = s /\ ~OnAir(u) /\ ~InTxq(s, u) /\ ~InInbox(s, u) /\ boot[s] \in Nat
    BY <1>2, <1>3 DEF Early, Base, TypeOK
  <2> QED
    BY <1>1, <2>1 DEF Handled, OnAir, InInbox
<1>4. CASE ByRadio(s, t)
  BY <1>1, <1>2, <1>4 DEF Base, OnceInv, LogRemembers
<1> QED
  BY <1>3, <1>4

LEMMA OnceOnAirStep ==
    ASSUME Base, [Next]_vars
    PROVE  AtMostOnceOnAir'
<1> SUFFICES ASSUME NEW s \in Stations, NEW e \in txq'[s]
             PROVE  /\ <<e.pkt.uid, boot'[s]>> \notin aired'[s]
                    /\ \A f \in txq'[s] : f.pkt.uid = e.pkt.uid => f = e
  BY DEF AtMostOnceOnAir
<1>0. TypeOK /\ AtMostOnceOnAir
  BY DEF Base, OnceInv
<1>1. CASE txq'[s] = txq[s] /\ boot'[s] = boot[s] /\ aired'[s] = aired[s]
  BY <1>0, <1>1 DEF AtMostOnceOnAir
<1>2. ASSUME NEW r \in Stations, NEW reqs, Routing(r, reqs)
      PROVE  /\ <<e.pkt.uid, boot'[s]>> \notin aired'[s]
             /\ \A f \in txq'[s] : f.pkt.uid = e.pkt.uid => f = e
  <2>1. PICK t : t = Head(fwdq[r])
    OBVIOUS
  <2>2. /\ \A q \in Stations \ {r} : txq'[q] = txq[q]
        /\ txq'[r] = txq[r] \/ \E x : MadeFor(r, t, x) /\ txq'[r] = txq[r] \cup {x}
        /\ UNCHANGED <<boot, aired>> /\ fwdq[r] # <<>>
    BY <1>0, <1>2, <2>1, RouteTxq DEF Routing
  <2>3. CASE txq'[s] = txq[s]
    BY <1>1, <2>2, <2>3
  <2>4. ASSUME r = s, NEW x, MadeFor(s, t, x), txq'[s] = txq[s] \cup {x}
        PROVE  /\ <<e.pkt.uid, boot'[s]>> \notin aired'[s]
               /\ \A f \in txq'[s] : f.pkt.uid = e.pkt.uid => f = e
    <3>1. ~Handled(s, x.pkt.uid)
      BY <2>1, <2>2, <2>4, ActsOnce DEF MadeFor
    <3>2. <<x.pkt.uid, boot[s]>> \notin aired[s] /\ \A f \in txq[s] : f.pkt.uid # x.pkt.uid
      BY <3>1 DEF Handled, InTxq
    <3> QED
      BY <1>0, <2>2, <2>4, <3>2 DEF AtMostOnceOnAir
  <2> QED
    BY <2>2, <2>3, <2>4
<1>3. ASSUME NEW r \in Stations, NEW x \in txq[r], NEW R, Airing(r, x, R)
      PROVE  /\ <<e.pkt.uid, boot'[s]>> \notin aired'[s]
             /\ \A f \in txq'[s] : f.pkt.uid = e.pkt.uid => f = e
  <2>1. UNCHANGED boot
    BY <1>3 DEF Airing
  <2>2. CASE r # s
    <3>1. txq'[s] = txq[s] /\ aired'[s] = aired[s]
      BY <1>0, <1>3, <2>2 DEF Airing, Transmit, TypeOK
    <3> QED
      BY <1>1, <2>1, <3>1
  <2>3. CASE r = s
    <3>1. txq'[s] = txq[s] \ {x} /\ aired'[s] = aired[s] \cup {<<x.pkt.uid, boot[s]>>}
      BY <1>0, <1>3, <2>3 DEF Airing, Transmit, TypeOK
    <3>2. e \in txq[s] /\ e # x
      BY <3>1
    <3>3. e.pkt.uid # x.pkt.uid
      BY <1>0, <2>3, <3>2 DEF AtMostOnceOnAir
    <3> QED
      BY <1>0, <2>1, <3>1, <3>2, <3>3 DEF AtMostOnceOnAir
  <2> QED
    BY <2>2, <2>3
<1>4. ASSUME NEW r \in Stations, Reboot(r)
      PROVE  txq'[s] = txq[s] /\ boot'[s] = boot[s] /\ aired'[s] = aired[s]
  <2>1. /\ txq'[r] = {} /\ UNCHANGED aired
        /\ \A q \in Stations \ {r} : txq'[q] = txq[q] /\ boot'[q] = boot[q]
    BY <1>0, <1>4 DEF Reboot, TypeOK
  <2>2. s # r
    BY <2>1
  <2> QED
    BY <2>1, <2>2
<1>5. ASSUME NEW r \in Stations, CleanRecvLog(r) PROVE UNCHANGED <<txq, boot, aired>>
  BY <1>5 DEF CleanRecvLog
<1>6. Tick => UNCHANGED <<txq, boot, aired>>
  BY DEF Tick
<1>7. ASSUME NEW r \in Stations, NEW a, Sending(r, a) PROVE UNCHANGED <<txq, boot, aired>>
  BY <1>7 DEF Sending
<1> QED
  BY <1>0, <1>1, <1>2, <1>3, <1>4, <1>5, <1>6, <1>7, Steps

LEMMA OnceDeliveredStep ==
    ASSUME Base, [Next]_vars
    PROVE  AtMostOnceDelivery'
<1> SUFFICES ASSUME NEW s \in Stations,
                    NEW i \in 1..Len(inbox'[s]), NEW j \in 1..Len(inbox'[s]),
                    inbox'[s][i].pkt.uid = inbox'[s][j].pkt.uid,
                    inbox'[s][i].boot = inbox'[s][j].boot
             PROVE  i = j
  BY DEF AtMostOnceDelivery
<1>0. TypeOK /\ AtMostOnceDelivery
  BY DEF Base, OnceInv
<1>1. CASE inbox'[s] = inbox[s]
  BY <1>0, <1>1 DEF AtMostOnceDelivery
<1>2. ASSUME NEW r \in Stations, NEW reqs, Routing(r, reqs) PROVE i = j
  <2>1. PICK t : t = Head(fwdq[r])
    OBVIOUS
  <2>2. /\ \A q \in Stations \ {r} : inbox'[q] = inbox[q]
        /\ inbox'[r] = inbox[r] \/ TakesIn(r, t)
    BY <1>0, <1>2, <2>1, RouteInbox
  <2>3. ASSUME r = s, TakesIn(s, t) PROVE i = j
    <3>1. ~Handled(s, t.pkt.uid)
      BY <1>2, <2>1, <2>3, ActsOnce DEF TakesIn, Routing
    <3>2. PICK x : x = [pkt |-> t.pkt, boot |-> boot[s]]
      OBVIOUS
    <3>3. x.pkt.uid = t.pkt.uid /\ x.boot = boot[s]
      BY <3>2
    <3>4. /\ Len(inbox[s]) \in Nat /\ Len(inbox'[s]) = Len(inbox[s]) + 1
          /\ inbox'[s][Len(inbox[s]) + 1] = x
          /\ \A k \in 1..Len(inbox[s]) : inbox'[s][k] = inbox[s][k]
      BY <2>3, <3>2 DEF TakesIn
    <3>5. \A k \in 1..Len(inbox'[s]) : k = Len(inbox[s]) + 1 \/ k \in 1..Len(inbox[s])
      BY <3>4
    <3>6. \A k \in 1..Len(inbox[s]) : ~(inbox[s][k].pkt.uid = x.pkt.uid /\ inbox[s][k].boot = x.boot)
      BY <3>1, <3>3 DEF Handled
    <3>7. CASE i \in 1..Len(inbox[s]) /\ j \in 1..Len(inbox[s])
      <4>1. inbox'[s][i] = inbox[s][i] /\ inbox'[s][j] = inbox[s][j]
        BY <3>4, <3>7
      <4> QED
        BY <1>0, <3>7, <4>1 DEF AtMostOnceDelivery
    <3>8. CASE i = Len(inbox[s]) + 1 /\ j \in 1..Len(inbox[s])
      <4>1. inbox'[s][i] = x /\ inbox'[s][j] = inbox[s][j]
        BY <3>4, <3>8
      <4> QED
        BY <3>6, <3>8, <4>1
    <3>9. CASE i \in 1..Len(inbox[s]) /\ j = Len(inbox[s]) + 1
      <4>1. inbox'[s][j] = x /\ inbox'[s][i] = inbox[s][i]
        BY <3>4, <3>9
      <4> QED
        BY <3>6, <3>9, <4>1
    <3> QED
      BY <3>5, <3>7, <3>8, <3>9
  <2> QED
    BY <1>1, <2>2, <2>3
<1>3. ASSUME NEW r \in Stations, CleanRecvLog(r) \/ Reboot(r) PROVE UNCHANGED inbox
  BY <1>3 DEF CleanRecvLog, Reboot
<1>4. Tick => UNCHANGED inbox
  BY DEF Tick
<1> QED
  BY <1>0, <1>1, <1>2, <1>3, <1>4, Steps DEF Sending, Airing

-----------------------------------------------------------------------------
(* The age of what is under way *)

LEMMA RelaysFinite == IsFiniteSet(Relays)
<1> DEFINE Of(r) == {r} \X (0..MaxBoots[r])
           All   == {Of(r) : r \in Repeaters}
           f     == [r \in Repeaters |-> Of(r)]
<1>1. IsFiniteSet(Repeaters)
  BY FS_Subset, StationsAssumption, TopologyAssumption
<1>2. IsFiniteSet(All)
  <2>1. f \in Surjection(Repeaters, All)
    BY DEF Surjection
  <2> HIDE DEF f, All
  <2> QED
    BY <1>1, <2>1, FS_Surjection
<1>3. ASSUME NEW r \in Repeaters PROVE IsFiniteSet(Of(r))
  <2>1. MaxBoots[r] \in Int
    BY TopologyAssumption, BoundsAssumption
  <2>2. IsFiniteSet(0..MaxBoots[r])
    BY <2>1, FS_Interval
  <2> QED
    BY <2>2, FS_Singleton, FS_Product
<1>4. \A T \in All : IsFiniteSet(T)
  BY <1>3
<1>5. IsFiniteSet(UNION All)
  <2> HIDE DEF All
  <2> QED
    BY <1>2, <1>4, FS_UNION
<1> QED
  BY <1>5 DEF Relays

LEMMA HopsGrow ==
    ASSUME NEW h \in Nat, NEW m \in Nat, NEW n \in Nat, m <= n
    PROVE  h * m \in Nat /\ h * n \in Nat /\ h * m <= h * n /\ (m < n => h * m + h <= h * n)
<1>1. PICK d \in Nat : n = m + d
  <2>1. n - m \in Nat /\ n = m + (n - m)
    OBVIOUS
  <2> QED
    BY <2>1
<1>2. h * n = h * m + h * d /\ h * m \in Nat /\ h * d \in Nat
  BY <1>1
<1>3. m < n => h * d >= h
  <2>1. ASSUME m < n PROVE h * d >= h
    <3>1. PICK c \in Nat : d = c + 1
      <4>1. d - 1 \in Nat /\ d = (d - 1) + 1
        BY <1>1, <2>1
      <4> QED
        BY <4>1
    <3>2. h * d = h * c + h /\ h * c \in Nat
      BY <3>1
    <3> QED
      BY <3>2
  <2> QED
    BY <2>1
<1> QED
  BY <1>2, <1>3

\* More relays, more delay; but never more than all relays.
LEMMA DelayGrows ==
    ASSUME NEW S, NEW T, S \subseteq T, T \subseteq Relays
    PROVE  /\ HopTime * Cardinality(S) \in Nat /\ HopTime * Cardinality(T) \in Nat
           /\ HopTime * Cardinality(S) <= HopTime * Cardinality(T)
           /\ HopTime * Cardinality(T) <= HopTime * Cardinality(Relays)
           /\ S # T => HopTime * Cardinality(S) + HopTime <= HopTime * Cardinality(T)
<1>1. IsFiniteSet(T) /\ Cardinality(T) <= Cardinality(Relays)
  BY RelaysFinite, FS_Subset
<1>2. IsFiniteSet(S) /\ Cardinality(S) <= Cardinality(T) /\ (Cardinality(T) = Cardinality(S) => S = T)
  BY <1>1, FS_Subset
<1>3. Cardinality(S) \in Nat /\ Cardinality(T) \in Nat /\ Cardinality(Relays) \in Nat
  BY <1>1, <1>2, RelaysFinite, FS_CardinalityType
<1>4. HopTime \in Nat
  BY BoundsAssumption
<1>5. S # T => Cardinality(S) < Cardinality(T)
  BY <1>2, <1>3
<1> QED
  BY <1>1, <1>2, <1>3, <1>4, <1>5, HopsGrow

LEMMA InRelays ==
    ASSUME NEW r \in Repeaters, NEW b \in 0..MaxBoots[r]
    PROVE  <<r, b>> \in Relays
BY DEF Relays

\* What waits for a relay was not relayed by it since its reboot.
LEMMA NotYetRelayed ==
    ASSUME Base, NEW s \in Stations, NEW e \in txq[s], NEW u, u = e.pkt.uid, OnAir(u)
    PROVE  u[1] # s /\ <<s, boot[s]>> \in Relays /\ <<u, boot[s]>> \notin aired[s]
<1>0. TypeOK /\ AtSource /\ Timely /\ Past /\ AtMostOnceOnAir
  BY DEF Base, OnceInv
<1>1. e.pkt.from # s /\ u[1] = e.pkt.from
  BY <1>0 DEF AtSource, Base, TracedInv, TxqTraced, Traced
<1>2. s \in Repeaters
  BY <1>0, <1>1 DEF Timely
<1>3. boot[s] \in 0..MaxBoots[s]
  BY <1>0, BoundsAssumption DEF Past, TypeOK
<1>4. <<s, boot[s]>> \in Relays
  BY <1>2, <1>3, InRelays
<1>5. <<u, boot[s]>> \notin aired[s]
  BY <1>0 DEF AtMostOnceOnAir
<1> QED
  BY <1>1, <1>4, <1>5

\* A relay adds HopTime to the delay that the relays of a packet explain.
LEMMA RelayRoom ==
    ASSUME Base, NEW s \in Stations, NEW e \in txq[s], NEW R, Airing(s, e, R),
           NEW u, u = e.pkt.uid, OnAir(u)
    PROVE  DelayBy(aired, u) + HopTime <= DelayBy(aired', u)
<1>0. TypeOK
  BY DEF Base
<1>1. PICK x : x = <<s, boot[s]>>
  OBVIOUS
<1>2. u[1] # s /\ x \in Relays /\ <<u, boot[s]>> \notin aired[s]
  BY <1>1, NotYetRelayed
<1>3. x[1] = s /\ x[2] = boot[s]
  BY <1>1
<1>4. /\ aired'[s] = aired[s] \cup {<<u, boot[s]>>}
      /\ \A r \in Stations : aired[r] \subseteq aired'[r]
  BY <1>0 DEF Airing, TypeOK
<1>5. x \notin RelayedBy(aired, u) /\ x \in RelayedBy(aired', u)
  BY <1>2, <1>3, <1>4 DEF RelayedBy
<1>6. RelayedBy(aired, u) \subseteq RelayedBy(aired', u) /\ RelayedBy(aired', u) \subseteq Relays
  <2>1. \A y \in Relays : y[1] \in Stations
    BY TopologyAssumption DEF Relays
  <2> QED
    BY <1>4, <2>1 DEF RelayedBy
<1> QED
  BY <1>5, <1>6, DelayGrows DEF DelayBy

LEMMA DelayStep ==
    ASSUME Base, [Next]_vars, NEW u
    PROVE  /\ DelayBy(aired, u) \in Nat /\ DelayBy(aired', u) \in Nat
           /\ DelayBy(aired, u) <= DelayBy(aired', u)
<1>1. \A r \in Stations : aired[r] \subseteq aired'[r]
  BY AiredGrows DEF Base
<1>2. \A y \in Relays : y[1] \in Stations
  BY TopologyAssumption DEF Relays
<1>3. RelayedBy(aired, u) \subseteq RelayedBy(aired', u) /\ RelayedBy(aired', u) \subseteq Relays
  BY <1>1, <1>2 DEF RelayedBy
<1> QED
  BY <1>3, DelayGrows DEF DelayBy

\* Time stands still while something waits to be routed, and for all but Tick.
LEMMA NowAfter ==
    ASSUME TypeOK, [Next]_vars
    PROVE  now' = now \/ (now' = now + 1 /\ Tick)
<1>1. ASSUME NEW r \in Stations, CleanRecvLog(r) \/ Reboot(r) PROVE now' = now
  BY <1>1 DEF CleanRecvLog, Reboot
<1>2. Tick => now' = now + 1
  BY DEF Tick
<1> QED
  BY <1>1, <1>2, Steps DEF Sending, Routing, Airing

LEMMA AgeStep ==
    ASSUME Base, TypeOK', Timely', [Next]_vars
    PROVE  Age'
<1>0. TypeOK /\ Outside /\ Timely /\ Age
  BY DEF Base, OnceInv
<1>1. now \in Nat /\ now' \in Nat /\ HopTime \in Nat
  BY <1>0, BoundsAssumption DEF TypeOK
<1>2. ASSUME NEW s \in Stations, NEW g \in DOMAIN recvLog'[s], g[1] # s,
             NEW u, u = recvLog'[s][g].uid, NEW ts, ts = recvLog'[s][g].ts
      PROVE  /\ \A r \in Stations : \A e \in txq'[r] :
                   e.pkt.uid = u => e.at <= ts + DelayBy(aired', u)
             /\ \A r \in Stations : \A i \in 1..Len(fwdq'[r]) :
                   fwdq'[r][i].pkt.uid = u => now' <= ts + DelayBy(aired', u)
  <2>1. /\ DelayBy(aired, u) \in Nat /\ DelayBy(aired', u) \in Nat
        /\ DelayBy(aired, u) <= DelayBy(aired', u)
    BY DelayStep
  <2>2. CASE g \in DOMAIN recvLog[s] /\ recvLog'[s][g] = recvLog[s][g]
    <3>1. OnAir(u) /\ Recent(u, ts)
      BY <1>0, <1>2, <2>2 DEF Outside, Age
    <3>2. ts \in Nat
      BY <1>0, <1>2, <2>2 DEF TypeOK, RecvLogOK
    <3>3. \A r \in Stations : \A e \in txq[r] :
             e.pkt.uid = u => e.at \in Nat /\ e.at <= ts + DelayBy(aired, u)
      <4>1. \A r \in Stations : \A e \in txq[r] : e.at \in Nat
        BY <1>0 DEF TypeOK, TxTasks
      <4>2. \A r \in Stations : \A e \in txq[r] :
               e.pkt.uid = u => e.at <= ts + DelayBy(aired, u)
        BY <3>1 DEF Recent, Delay
      <4> QED
        BY <4>1, <4>2
    <3>4. \A r \in Stations : InFwdq(r, u) => now <= ts + DelayBy(aired, u)
      BY <3>1 DEF Recent, Delay
    <3>5. ASSUME NEW r \in Stations, NEW e \in txq'[r], e.pkt.uid = u
          PROVE  e.at <= ts + DelayBy(aired', u)
      <4>1. CASE e \in txq[r]
        BY <2>1, <3>2, <3>3, <3>5, <4>1
      <4>2. ASSUME fwdq[r] # <<>>, NEW t, t = Head(fwdq[r]), MadeFor(r, t, e)
            PROVE  e.at <= ts + DelayBy(aired', u)
        <5>1. InFwdq(r, u) /\ e.at = now
          BY <3>5, <4>2, HeadFacts DEF MadeFor
        <5> QED
          BY <1>1, <2>1, <3>2, <3>4, <5>1
      <4> QED
        BY <4>1, <4>2, TxqAfter
    <3>6. ASSUME NEW r \in Stations, NEW i \in 1..Len(fwdq'[r]), fwdq'[r][i].pkt.uid = u
          PROVE  now' <= ts + DelayBy(aired', u)
      <4>1. PICK t : t = fwdq'[r][i]
        OBVIOUS
      <4>2. t.pkt.uid = u /\ ~NewUid(r, u)
        BY <3>1, <3>6, <4>1, NewIsUnknown
      <4>3. CASE \E j \in 1..Len(fwdq[r]) : t = fwdq[r][j]
        <5>1. InFwdq(r, u) /\ fwdq[r] # <<>>
          BY <4>2, <4>3 DEF InFwdq
        <5>2. now' = now
          BY <1>0, <5>1, NowAfter DEF Tick
        <5> QED
          BY <1>1, <2>1, <3>2, <3>4, <5>1, <5>2
      <4>4. ASSUME NEW q \in Stations, NEW e \in txq[q], NEW R, Airing(q, e, R),
                   t.pkt.uid = e.pkt.uid
            PROVE  now' <= ts + DelayBy(aired', u)
        <5>1. DelayBy(aired, u) + HopTime <= DelayBy(aired', u)
          BY <3>1, <4>2, <4>4, RelayRoom
        <5>2. now' = now
          BY <4>4 DEF Airing
        <5>3. now <= e.at + HopTime /\ e.at \in Nat /\ e.at <= ts + DelayBy(aired, u)
          BY <1>0, <3>3, <4>2, <4>4 DEF Timely
        <5> QED
          BY <1>1, <2>1, <3>2, <5>1, <5>2, <5>3
      <4> QED
        BY <4>1, <4>2, <4>3, <4>4, FwdqAfter
    <3> QED
      BY <3>5, <3>6
  <2>3. CASE ts = now /\ now' = now
    <3>1. \A r \in Stations : \A e \in txq'[r] : e.at \in Nat /\ e.at <= now'
      BY DEF TypeOK, TxTasks, Timely
    <3>2. now <= now + DelayBy(aired', u)
      BY <1>1, <2>1
    <3>3. \A x \in Nat : x <= now => x <= now + DelayBy(aired', u)
      BY <1>1, <2>1
    <3> QED
      BY <2>3, <3>1, <3>2, <3>3
  <2>4. ASSUME NEW reqs, Routing(s, reqs), recvLog'[s][g].ts = now
        PROVE  ts = now /\ now' = now
    BY <1>2, <2>4 DEF Routing
  <2> QED
    BY <2>2, <2>3, <2>4, LogAfter
<1> QED
  BY <1>2 DEF Age, Recent, Delay, InFwdq

-----------------------------------------------------------------------------
(* The log remembers *)

\* A station handles a packet by a task with consequences, or handled it already.
LEMMA HandledAfter ==
    ASSUME Base, [Next]_vars, NEW s \in Stations, NEW u, Handled(s, u)'
    PROVE  \/ Handled(s, u) /\ boot'[s] = boot[s]
           \/ \E t : /\ fwdq[s] # <<>> /\ t = Head(fwdq[s]) /\ t.pkt.uid = u
                     /\ t.origin \/ ByRadio(s, t)
                     /\ \E reqs : Routing(s, reqs)
<1>0. TypeOK /\ Past
  BY DEF Base, OnceInv
<1>1. ASSUME boot'[s] = boot[s], aired'[s] = aired[s], txq'[s] = txq[s], inbox'[s] = inbox[s]
      PROVE  Handled(s, u)
  BY <1>1 DEF Handled, InTxq
<1>2. ASSUME NEW r \in Stations, NEW reqs, Routing(r, reqs)
      PROVE  \/ Handled(s, u) /\ boot'[s] = boot[s]
             \/ \E t : /\ fwdq[s] # <<>> /\ t = Head(fwdq[s]) /\ t.pkt.uid = u
                       /\ t.origin \/ ByRadio(s, t)
                       /\ \E x : Routing(s, x)
  <2>1. PICK t : t = Head(fwdq[r])
    OBVIOUS
  <2>2. UNCHANGED <<boot, aired>> /\ fwdq[r] # <<>>
    BY <1>2 DEF Routing
  <2>3. /\ \A q \in Stations \ {r} : txq'[q] = txq[q] /\ inbox'[q] = inbox[q]
        /\ txq'[r] = txq[r] \/ \E e : MadeFor(r, t, e) /\ txq'[r] = txq[r] \cup {e}
        /\ inbox'[r] = inbox[r] \/ TakesIn(r, t)
    BY <1>0, <1>2, <2>1, RouteTxq, RouteInbox
  <2>4. CASE r # s
    BY <1>1, <2>2, <2>3, <2>4
  <2>5. ASSUME r = s, ~(t.pkt.uid = u /\ (t.origin \/ ByRadio(s, t))) PROVE Handled(s, u)
    <3>1. InTxq(s, u)' => InTxq(s, u)
      BY <2>3, <2>5 DEF InTxq, MadeFor
    <3>2. ASSUME NEW i \in 1..Len(inbox'[s]), inbox'[s][i].pkt.uid = u, inbox'[s][i].boot = boot[s]
          PROVE  Handled(s, u)
      <4>1. CASE inbox'[s] = inbox[s]
        BY <3>2, <4>1 DEF Handled
      <4>2. CASE TakesIn(s, t)
        <5>1. PICK x : x = [pkt |-> t.pkt, boot |-> boot[s]]
          OBVIOUS
        <5>2. x.pkt.uid # u
          BY <2>5, <4>2, <5>1 DEF TakesIn
        <5>3. /\ Len(inbox[s]) \in Nat /\ Len(inbox'[s]) = Len(inbox[s]) + 1
              /\ inbox'[s][Len(inbox[s]) + 1] = x
              /\ \A k \in 1..Len(inbox[s]) : inbox'[s][k] = inbox[s][k]
          BY <4>2, <5>1 DEF TakesIn
        <5>4. i = Len(inbox[s]) + 1 \/ i \in 1..Len(inbox[s])
          BY <5>3
        <5>5. i \in 1..Len(inbox[s]) /\ inbox'[s][i] = inbox[s][i]
          BY <3>2, <5>2, <5>3, <5>4
        <5> QED
          BY <3>2, <5>5 DEF Handled
      <4> QED
        BY <2>3, <2>5, <4>1, <4>2
    <3> QED
      BY <2>2, <3>1, <3>2 DEF Handled
  <2> QED
    BY <1>2, <2>1, <2>2, <2>4, <2>5
<1>3. ASSUME NEW r \in Stations, NEW e \in txq[r], NEW R, Airing(r, e, R)
      PROVE  Handled(s, u) /\ boot'[s] = boot[s]
  <2>1. UNCHANGED <<boot, inbox>>
    BY <1>3 DEF Airing
  <2>2. CASE r # s
    <3>1. txq'[s] = txq[s] /\ aired'[s] = aired[s]
      BY <1>0, <1>3, <2>2 DEF Airing, Transmit, TypeOK
    <3> QED
      BY <1>1, <2>1, <3>1
  <2>3. CASE r = s
    <3>1. txq'[s] = txq[s] \ {e} /\ aired'[s] = aired[s] \cup {<<e.pkt.uid, boot[s]>>}
      BY <1>0, <1>3, <2>3 DEF Airing, Transmit, TypeOK
    <3>2. <<u, boot[s]>> \in aired'[s] => <<u, boot[s]>> \in aired[s] \/ InTxq(s, u)
      BY <2>3, <3>1 DEF InTxq
    <3>3. InTxq(s, u)' => InTxq(s, u)
      BY <3>1 DEF InTxq
    <3> QED
      BY <2>1, <3>2, <3>3 DEF Handled
  <2> QED
    BY <2>2, <2>3
<1>4. ASSUME NEW r \in Stations, Reboot(r) PROVE Handled(s, u) /\ boot'[s] = boot[s]
  <2>1. /\ txq'[r] = {} /\ boot'[r] = boot[r] + 1 /\ UNCHANGED <<aired, inbox>>
        /\ \A q \in Stations \ {r} : txq'[q] = txq[q] /\ boot'[q] = boot[q]
    BY <1>0, <1>4 DEF Reboot, TypeOK
  <2>2. CASE r = s
    <3>1. boot[s] \in Nat /\ ~(boot[s] + 1 <= boot[s])
      BY <1>0 DEF TypeOK
    <3>2. ~InTxq(s, u)'
      BY <2>1, <2>2 DEF InTxq
    <3>3. <<u, boot'[s]>> \notin aired'[s]
      <4>1. \A x \in aired[s] : x[2] <= boot[s]
        BY <1>0 DEF Past
      <4> QED
        BY <2>1, <2>2, <3>1, <4>1
    <3>4. \A i \in 1..Len(inbox'[s]) : inbox'[s][i].boot # boot'[s]
      <4>1. \A i \in 1..Len(inbox[s]) : inbox[s][i].boot <= boot[s]
        BY <1>0 DEF Past
      <4> QED
        BY <2>1, <2>2, <3>1, <4>1
    <3> QED
      BY <3>2, <3>3, <3>4 DEF Handled
  <2>3. CASE r # s
    BY <1>1, <2>1, <2>3
  <2> QED
    BY <2>2, <2>3
<1>5. ASSUME UNCHANGED <<boot, aired, txq, inbox>> PROVE Handled(s, u) /\ boot'[s] = boot[s]
  BY <1>1, <1>5
<1>6. ASSUME NEW r \in Stations, CleanRecvLog(r) PROVE UNCHANGED <<boot, aired, txq, inbox>>
  BY <1>6 DEF CleanRecvLog
<1>7. Tick => UNCHANGED <<boot, aired, txq, inbox>>
  BY DEF Tick
<1>8. ASSUME NEW r \in Stations, NEW a, Sending(r, a) PROVE UNCHANGED <<boot, aired, txq, inbox>>
  BY <1>8 DEF Sending
<1> QED
  BY <1>0, <1>2, <1>3, <1>4, <1>5, <1>6, <1>7, <1>8, Steps

\* A packet gets under way when its source numbers it.
LEMMA UnderWayAfter ==
    ASSUME Base, [Next]_vars, NEW u, UnderWay(u)'
    PROVE  UnderWay(u) \/ \E r \in Stations : NewUid(r, u)
<1>1. ASSUME NEW r \in Stations, NEW i \in 1..Len(fwdq'[r]), fwdq'[r][i].pkt.uid = u
      PROVE  UnderWay(u) \/ NewUid(r, u)
  <2>1. PICK t : t = fwdq'[r][i]
    OBVIOUS
  <2>2. ASSUME NEW j \in 1..Len(fwdq[r]), t = fwdq[r][j] PROVE UnderWay(u)
    BY <1>1, <2>1, <2>2 DEF UnderWay, InFwdq
  <2>3. ASSUME NEW q \in Stations, NEW e \in txq[q], t.pkt.uid = e.pkt.uid PROVE UnderWay(u)
    BY <1>1, <2>1, <2>3 DEF UnderWay, InTxq
  <2> QED
    BY <1>1, <2>1, <2>2, <2>3, FwdqAfter
<1>2. ASSUME NEW r \in Stations, NEW e \in txq'[r], e.pkt.uid = u PROVE UnderWay(u)
  <2>1. CASE e \in txq[r]
    BY <1>2, <2>1 DEF UnderWay, InTxq
  <2>2. ASSUME fwdq[r] # <<>>, NEW t, t = Head(fwdq[r]), MadeFor(r, t, e) PROVE UnderWay(u)
    BY <1>2, <2>2, HeadFacts DEF MadeFor
  <2> QED
    BY <2>1, <2>2, TxqAfter
<1> QED
  BY <1>1, <1>2 DEF UnderWay, InFwdq, InTxq

\* An entry is not stale while its packet is under way.
LEMMA StillFresh ==
    ASSUME LogOutlastsDiffusion, Base,
           NEW s \in Stations, NEW g \in DOMAIN recvLog[s], g[1] # s,
           UnderWay(recvLog[s][g].uid)
    PROVE  g \notin Stale(recvLog[s], RecvLogPersist)
<1>0. TypeOK /\ Outside /\ Timely /\ Age
  BY DEF Base, OnceInv
<1>1. PICK u : u = recvLog[s][g].uid
  OBVIOUS
<1>2. PICK ts : ts = recvLog[s][g].ts
  OBVIOUS
<1>3. OnAir(u) /\ Recent(u, ts)
  BY <1>0, <1>1, <1>2 DEF Outside, Age
<1>4. ts \in Nat /\ now \in Nat /\ RecvLogPersist \in Nat /\ HopTime \in Nat
  BY <1>0, <1>2, BoundsAssumption DEF TypeOK, RecvLogOK
<1>5. RelayedBy(aired, u) \subseteq Relays
  BY DEF RelayedBy
<1>6. PICK all : all = HopTime * Cardinality(Relays)
  OBVIOUS
<1>7. /\ DelayBy(aired, u) \in Nat /\ all \in Nat /\ DelayBy(aired, u) <= all /\ all <= RecvLogPersist
      /\ RelayedBy(aired, u) # Relays => DelayBy(aired, u) + HopTime <= all
  BY <1>5, <1>6, DelayGrows DEF DelayBy, LogOutlastsDiffusion
<1>8. ASSUME NEW r \in Stations, InFwdq(r, u) PROVE now <= ts + RecvLogPersist
  <2>1. now <= ts + DelayBy(aired, u)
    BY <1>3, <1>8 DEF Recent, Delay
  <2> QED
    BY <1>4, <1>7, <2>1
<1>9. ASSUME NEW r \in Stations, NEW e \in txq[r], e.pkt.uid = u PROVE now <= ts + RecvLogPersist
  <2>1. e.at <= ts + DelayBy(aired, u)
    BY <1>3, <1>9 DEF Recent, Delay
  <2>2. e.at \in Nat /\ now <= e.at + HopTime
    BY <1>0 DEF Timely, TypeOK, TxTasks
  <2>3. RelayedBy(aired, u) # Relays
    <3>1. PICK x : x = <<r, boot[r]>>
      OBVIOUS
    <3>2. x[1] = r /\ x[2] = boot[r]
      BY <3>1
    <3>3. x \in Relays /\ <<u, boot[r]>> \notin aired[r]
      BY <1>3, <1>9, <3>1, NotYetRelayed
    <3> QED
      BY <3>2, <3>3 DEF RelayedBy
  <2> QED
    BY <1>4, <1>7, <2>1, <2>2, <2>3
<1>10. now <= ts + RecvLogPersist
  BY <1>1, <1>8, <1>9 DEF UnderWay, InTxq
<1>11. ~(ts + RecvLogPersist < now)
  BY <1>4, <1>10
<1> QED
  BY <1>2, <1>11 DEF Stale

LEMMA LogRemembersStep ==
    ASSUME LogOutlastsDiffusion, Base, [Next]_vars
    PROVE  LogRemembers'
<1>0. TypeOK /\ LogRemembers
  BY DEF Base, OnceInv
<1> SUFFICES ASSUME NEW s \in Stations, NEW u, u[1] # s, Handled(s, u)', UnderWay(u)'
             PROVE  Logged(s, u)'
  BY DEF LogRemembers
<1>1. ASSUME Handled(s, u), boot'[s] = boot[s] PROVE Logged(s, u)'
  <2>1. UnderWay(u)
    BY <1>1, NewIsUnknown, UnderWayAfter
  <2>2. Logged(s, u)
    BY <1>0, <1>1, <2>1 DEF LogRemembers
  <2>3. PICK g \in DOMAIN recvLog[s] : recvLog[s][g].uid = u
    BY <2>2 DEF Logged
  <2>4. g[1] # s
    BY <2>3 DEF Base, TracedInv, LogTraced, EntryTraced
  <2>5. ASSUME g \in DOMAIN recvLog'[s], recvLog'[s][g] = recvLog[s][g] PROVE Logged(s, u)'
    BY <2>3, <2>5 DEF Logged
  <2>6. ASSUME NEW r \in Stations, NEW reqs, Routing(r, reqs)
        PROVE  g \in DOMAIN recvLog'[s] /\ recvLog'[s][g] = recvLog[s][g]
    <3>1. PICK t : t = Head(fwdq[r])
      OBVIOUS
    <3>2. /\ \A q \in Stations \ {r} : recvLog'[q] = recvLog[q]
          /\ recvLog'[r] = recvLog[r] \/ (Notes(r, t.pkt) /\ (t.origin \/ ByRadio(r, t)))
          /\ fwdq[r] # <<>>
      BY <1>0, <2>6, <3>1, RouteLog DEF Routing
    <3>3. CASE recvLog'[s] = recvLog[s]
      BY <3>3
    <3>4. CASE r = s /\ Notes(s, t.pkt) /\ (t.origin \/ ByRadio(s, t))
      <4>1. t.origin => t.pkt.from = s
        BY <3>1, <3>2, <3>4, HeadFacts
      <4>2. g # Signature(t.pkt)
        BY <2>4, <3>4, <4>1 DEF Signature, ByRadio, IsDuplicate
      <4> QED
        BY <3>4, <4>2 DEF Notes
    <3> QED
      BY <3>2, <3>3, <3>4
  <2>7. ASSUME NEW r \in Stations, CleanRecvLog(r)
        PROVE  g \in DOMAIN recvLog'[s] /\ recvLog'[s][g] = recvLog[s][g]
    <3>1. g \notin Stale(recvLog[s], RecvLogPersist)
      BY <2>1, <2>3, <2>4, StillFresh
    <3> QED
      BY <1>0, <2>7, <3>1 DEF CleanRecvLog, Fresh, TypeOK
  <2>8. ASSUME NEW r \in Stations, Reboot(r)
        PROVE  g \in DOMAIN recvLog'[s] /\ recvLog'[s][g] = recvLog[s][g]
    <3>1. /\ boot'[r] = boot[r] + 1 /\ boot[r] \in Nat
          /\ \A q \in Stations \ {r} : recvLog'[q] = recvLog[q]
      BY <1>0, <2>8 DEF Reboot, TypeOK
    <3>2. r # s
      BY <1>1, <3>1
    <3> QED
      BY <3>1, <3>2
  <2>9. ASSUME UNCHANGED recvLog PROVE g \in DOMAIN recvLog'[s] /\ recvLog'[s][g] = recvLog[s][g]
    BY <2>9
  <2>10. ASSUME NEW r \in Stations, NEW a, Sending(r, a) PROVE UNCHANGED recvLog
    BY <2>10 DEF Sending
  <2>11. ASSUME NEW r \in Stations, NEW e, NEW R, Airing(r, e, R) PROVE UNCHANGED recvLog
    BY <2>11 DEF Airing
  <2>12. Tick => UNCHANGED recvLog
    BY DEF Tick
  <2> QED
    BY <1>0, <2>5, <2>6, <2>7, <2>8, <2>9, <2>10, <2>11, <2>12, Steps
<1>2. ASSUME fwdq[s] # <<>>, NEW t, t = Head(fwdq[s]), t.pkt.uid = u,
             t.origin \/ ByRadio(s, t), NEW reqs, Routing(s, reqs)
      PROVE  Logged(s, u)'
  <2>1. ByRadio(s, t)
    BY <1>2, HeadFacts
  <2>2. Notes(s, t.pkt)
    BY <1>0, <1>2, <2>1, RouteLog
  <2> QED
    BY <1>2, <2>2 DEF Notes, Logged
<1> QED
  BY <1>1, <1>2, HandledAfter

LEMMA InitOnce == Init => OnceInv
<1> SUFFICES ASSUME Init PROVE OnceInv
  OBVIOUS
<1>1. \A s \in Stations : /\ fwdq[s] = <<>> /\ txq[s] = {} /\ inbox[s] = <<>> /\ aired[s] = {}
                          /\ DOMAIN recvLog[s] = {} /\ boot[s] = 0
  BY DEF Init, Empty
<1>2. Past
  BY <1>1, BoundsAssumption DEF Past
<1>3. Timely /\ Outside /\ AtSource /\ Age
  BY <1>1 DEF Timely, Outside, AtSource, Age
<1>4. LogRemembers
  BY <1>1 DEF LogRemembers, Handled, InTxq
<1>5. AtMostOnceOnAir /\ AtMostOnceDelivery
  BY <1>1 DEF AtMostOnceOnAir, AtMostOnceDelivery
<1> QED
  BY <1>2, <1>3, <1>4, <1>5 DEF OnceInv

LEMMA NextOnce ==
    ASSUME LogOutlastsDiffusion, Base, [Next]_vars
    PROVE  OnceInv'
<1>1. TypeOK'
  BY NextType DEF Base
<1>2. Timely'
  BY <1>1, TimelyStep
<1> QED
  BY <1>1, <1>2, PastStep, OutsideStep, AtSourceStep, LogRemembersStep, AgeStep,
     OnceOnAirStep, OnceDeliveredStep DEF OnceInv

LEMMA AlwaysOnce ==
    ASSUME LogOutlastsDiffusion
    PROVE  Spec => []Base
<1>1. TypeOK /\ TracedInv /\ FwdqDirect /\ OnceInv /\ [Next]_vars => OnceInv'
  BY NextOnce DEF Base
<1> QED
  BY <1>1, InitOnce, TypeCorrect, AlwaysTraced, AlwaysDirect, PTL DEF Spec, Base

\* However many ways a packet takes, a station transmits it once between two
\* reboots: repeaters do not throw it at each other (Network.cpp:430).
THEOREM RelayedOnce ==
    ASSUME LogOutlastsDiffusion
    PROVE  Spec => []AtMostOnceOnAir
<1>1. Base => AtMostOnceOnAir
  BY DEF Base, OnceInv
<1> QED
  BY <1>1, AlwaysOnce, PTL

\* And gives it to its application once between two reboots.
THEOREM DeliveredOnce ==
    ASSUME LogOutlastsDiffusion
    PROVE  Spec => []AtMostOnceDelivery
<1>1. Base => AtMostOnceDelivery
  BY DEF Base, OnceInv
<1> QED
  BY <1>1, AlwaysOnce, PTL

-----------------------------------------------------------------------------
(* The mesh is a datagram service *)

\* What Service sees of a sequence of requests.
PlainSeq(S) == [n \in 1..Len(S) |-> Plain(S[n])]

LEMMA PlainConcat ==
    ASSUME NEW S \in Seq(Requestables), NEW R \in Seq(Requestables)
    PROVE  PlainSeq(S \o R) = PlainSeq(S) \o PlainSeq(R)
<1> DEFINE X == {Plain(a) : a \in Requestables}
<1>1. ASSUME NEW T \in Seq(Requestables)
      PROVE  /\ PlainSeq(T) \in Seq(X) /\ Len(PlainSeq(T)) = Len(T)
             /\ \A n \in 1..Len(T) : PlainSeq(T)[n] = Plain(T[n])
  <2>1. Len(T) \in Nat /\ \A n \in 1..Len(T) : T[n] \in Requestables
    BY LenProperties, ElementOfSeq
  <2>2. PlainSeq(T) \in [1..Len(T) -> X]
    BY <2>1 DEF PlainSeq
  <2> HIDE DEF X
  <2>3. PlainSeq(T) \in Seq(X)
    BY <2>1, <2>2, SeqDef
  <2>4. Len(PlainSeq(T)) = Len(T)
    <3>1. 1..Len(PlainSeq(T)) = 1..Len(T) /\ Len(PlainSeq(T)) \in Nat
      BY <2>2, <2>3, LenProperties
    <3> QED
      BY <2>1, <3>1
  <2>5. \A n \in 1..Len(T) : PlainSeq(T)[n] = Plain(T[n])
    BY DEF PlainSeq
  <2> QED
    BY <2>3, <2>4, <2>5
<1> HIDE DEF X
<1>2. /\ S \o R \in Seq(Requestables) /\ Len(S \o R) = Len(S) + Len(R)
      /\ \A i \in 1..(Len(S) + Len(R)) :
            (S \o R)[i] = IF i <= Len(S) THEN S[i] ELSE R[i - Len(S)]
      /\ Len(S) \in Nat /\ Len(R) \in Nat
  BY ConcatProperties, LenProperties
<1>3. PICK A : A = PlainSeq(S)
  OBVIOUS
<1>4. PICK B : B = PlainSeq(R)
  OBVIOUS
<1>5. PICK C : C = PlainSeq(S \o R)
  OBVIOUS
<1>6. /\ A \in Seq(X) /\ Len(A) = Len(S) /\ \A n \in 1..Len(S) : A[n] = Plain(S[n])
      /\ B \in Seq(X) /\ Len(B) = Len(R) /\ \A n \in 1..Len(R) : B[n] = Plain(R[n])
  BY <1>1, <1>3, <1>4
<1>7. /\ C \in Seq(X) /\ Len(C) = Len(S) + Len(R)
      /\ \A n \in 1..(Len(S) + Len(R)) : C[n] = Plain((S \o R)[n])
  BY <1>1, <1>2, <1>5
<1>8. /\ A \o B \in Seq(X) /\ Len(A \o B) = Len(S) + Len(R)
      /\ \A i \in 1..(Len(S) + Len(R)) :
            (A \o B)[i] = IF i <= Len(S) THEN A[i] ELSE B[i - Len(S)]
  <2>1. A \in Seq(X) /\ B \in Seq(X) /\ Len(A) = Len(S) /\ Len(B) = Len(R)
    BY <1>6
  <2>2. /\ A \o B \in Seq(X) /\ Len(A \o B) = Len(A) + Len(B)
        /\ \A i \in 1..(Len(A) + Len(B)) :
              (A \o B)[i] = IF i <= Len(A) THEN A[i] ELSE B[i - Len(A)]
    BY <2>1, ConcatProperties
  <2> QED
    BY <2>1, <2>2, Zenon
<1>9. \A i \in 1..(Len(S) + Len(R)) : C[i] = (A \o B)[i]
  <2> SUFFICES ASSUME NEW i \in 1..(Len(S) + Len(R)) PROVE C[i] = (A \o B)[i]
    OBVIOUS
  <2>1. CASE i <= Len(S)
    <3>1. i \in 1..Len(S)
      BY <1>2, <2>1
    <3> QED
      BY <1>2, <1>6, <1>7, <1>8, <2>1, <3>1
  <2>2. CASE ~(i <= Len(S))
    <3>1. i - Len(S) \in 1..Len(R)
      BY <1>2, <2>2
    <3> QED
      BY <1>2, <1>6, <1>7, <1>8, <2>2, <3>1
  <2> QED
    BY <2>1, <2>2
<1>10. C = A \o B
  BY <1>7, <1>8, <1>9, SeqEqual
<1> QED
  BY <1>3, <1>4, <1>5, <1>10

LEMMA PlainSmall ==
    /\ PlainSeq(<<>>) = <<>>
    /\ \A a : PlainSeq(<<a>>) = <<Plain(a)>>
BY DEF PlainSeq

\* What a packet makes its receiver answer is what its request asks for.
LEMMA PlainAnswers ==
    ASSUME NEW s \in Stations, NEW p \in PacketType, NEW a,
           p.to = a.to, p.params \ {"R"} = a.params
    PROVE  PlainSeq(Answers(s, p)) = Service!AnswersTo(Plain(a), p.from)
<1> DEFINE c == ConfirmAnswer(p)
           d == L7Answer(s, p)
           co == [to |-> p.from, params |-> {"CO"}, msg |-> <<Confirm(p.id)>>]
           pong == [to |-> p.from, params |-> {"PONG"}, msg |-> p.msg]
           rrsp == [to |-> p.from, params |-> {"RRSP"}, msg |-> Append(p.msg, Dest(s, p.rssi))]
<1>1. \A x \in {"C", "CO", "PING", "RREQ"} : x \in p.params <=> x \in a.params
  OBVIOUS
<1>2. /\ Plain(co) = [to |-> p.from, params |-> {"CO"}]
      /\ Plain(pong) = [to |-> p.from, params |-> {"PONG"}]
      /\ Plain(rrsp) = [to |-> p.from, params |-> {"RRSP"}]
  BY DEF Plain
<1>3. c = IF "C" \in a.params /\ "CO" \notin a.params /\ a.to \notin Broadcasts THEN <<co>> ELSE <<>>
  BY <1>1 DEF ConfirmAnswer, Unicast
<1>4. d = IF a.to \in Broadcasts THEN <<>>
          ELSE IF "PING" \in a.params THEN <<pong>>
          ELSE IF "RREQ" \in a.params THEN <<rrsp>> ELSE <<>>
  BY <1>1 DEF L7Answer, PingAnswer, RreqAnswer, Unicast
<1>5. c \in Seq(Requestables) /\ d \in Seq(Requestables)
  BY AnswersType
<1>6. PlainSeq(Answers(s, p)) = PlainSeq(c) \o PlainSeq(d)
  BY <1>5, PlainConcat DEF Answers
<1> HIDE DEF co, pong, rrsp, c, d
<1>7. PlainSeq(c) = IF "C" \in a.params /\ "CO" \notin a.params /\ a.to \notin Broadcasts
                    THEN <<[to |-> p.from, params |-> {"CO"}]>> ELSE <<>>
  BY <1>2, <1>3, PlainSmall
<1>8. PlainSeq(d) = IF a.to \in Broadcasts THEN <<>>
                    ELSE IF "PING" \in a.params THEN <<[to |-> p.from, params |-> {"PONG"}]>>
                    ELSE IF "RREQ" \in a.params THEN <<[to |-> p.from, params |-> {"RRSP"}]>>
                    ELSE <<>>
  BY <1>2, <1>4, PlainSmall
<1>9. Plain(a).to = a.to /\ Plain(a).params = a.params
  BY DEF Plain
<1>10. CASE a.to \in Broadcasts
  <2>1. <<>> \o <<>> = <<>>
    OBVIOUS
  <2> QED
    BY <1>6, <1>7, <1>8, <1>9, <1>10, <2>1 DEF Service!AnswersTo
<1>11. CASE a.to \notin Broadcasts
  BY <1>6, <1>7, <1>8, <1>9, <1>11 DEF Service!AnswersTo, Service!Answer
<1> QED
  BY <1>10, <1>11

\* What Service sees of an inbox.
Seen(q) == [i \in 1..Len(q) |-> [uid |-> q[i].pkt.uid, boot |-> q[i].boot]]

SentBar  == [s \in Stations |-> [n \in 1..Len(sent[s]) |-> Plain(sent[s][n])]]
InboxBar == [s \in Stations |-> [i \in 1..Len(inbox[s]) |->
                [uid |-> inbox[s][i].pkt.uid, boot |-> inbox[s][i].boot]]]

LEMMA SentBarAfter ==
    ASSUME TypeOK, NEW s \in Stations, NEW reqs, NEW queue, SendsType(s, reqs, queue)
    PROVE  SentBar' = [SentBar EXCEPT ![s] = @ \o PlainSeq(reqs)]
<1>1. reqs \in Seq(Requestables) /\ sent[s] \in Seq(Requestables)
  BY DEF SendsType, TypeOK
<1>2. sent'[s] = sent[s] \o reqs /\ \A r \in Stations \ {s} : sent'[r] = sent[r]
  BY DEF SendsType, SendAll, TypeOK
<1>3. PlainSeq(sent'[s]) = PlainSeq(sent[s]) \o PlainSeq(reqs)
  BY <1>1, <1>2, PlainConcat
<1>4. SentBar = [r \in Stations |-> PlainSeq(sent[r])]
  BY DEF SentBar, PlainSeq
<1>5. SentBar' = [r \in Stations |-> PlainSeq(sent'[r])]
  BY DEF SentBar, PlainSeq
<1> QED
  BY <1>2, <1>3, <1>4, <1>5

LEMMA InboxBarAfter ==
    ASSUME TypeOK, TypeOK', NEW s \in Stations, NEW t, TakesIn(s, t),
           \A r \in Stations \ {s} : inbox'[r] = inbox[r]
    PROVE  InboxBar' = [InboxBar EXCEPT ![s] = Append(@, [uid |-> t.pkt.uid, boot |-> boot[s]])]
<1>1. PICK v : v = [uid |-> t.pkt.uid, boot |-> boot[s]]
  OBVIOUS
<1>2. PICK x : x = [pkt |-> t.pkt, boot |-> boot[s]]
  OBVIOUS
<1>3. v = [uid |-> x.pkt.uid, boot |-> x.boot]
  BY <1>1, <1>2
<1>4. /\ Len(inbox[s]) \in Nat /\ Len(inbox'[s]) = Len(inbox[s]) + 1
      /\ inbox'[s][Len(inbox[s]) + 1] = x
      /\ \A i \in 1..Len(inbox[s]) : i \in 1..Len(inbox'[s]) /\ inbox'[s][i] = inbox[s][i]
  BY <1>2 DEF TakesIn
<1>5. PICK A : A = Seen(inbox[s])
  OBVIOUS
<1>6. PICK B : B = Seen(inbox'[s])
  OBVIOUS
<1> DEFINE X == {A[i] : i \in 1..Len(inbox[s])} \cup {v}
<1>7. A \in [1..Len(inbox[s]) -> X] /\ B \in [1..(Len(inbox[s]) + 1) -> X]
  <2>1. A \in [1..Len(inbox[s]) -> X]
    BY <1>5 DEF Seen
  <2>2. B = [i \in 1..(Len(inbox[s]) + 1) |-> [uid |-> inbox'[s][i].pkt.uid, boot |-> inbox'[s][i].boot]]
    BY <1>4, <1>6 DEF Seen
  <2>3. \A i \in 1..Len(inbox[s]) : B[i] = A[i] /\ A[i] \in X
    BY <1>4, <1>5, <2>2 DEF Seen
  <2>4. B[Len(inbox[s]) + 1] = v /\ v \in X
    BY <1>3, <1>4, <2>2
  <2>5. \A i \in 1..(Len(inbox[s]) + 1) : i = Len(inbox[s]) + 1 \/ i \in 1..Len(inbox[s])
    BY <1>4
  <2>6. \A i \in 1..(Len(inbox[s]) + 1) : B[i] \in X
    BY <2>3, <2>4, <2>5
  <2> QED
    BY <2>1, <2>2, <2>6
<1>8. \A i \in 1..Len(inbox[s]) : B[i] = A[i]
  BY <1>4, <1>5, <1>6 DEF Seen
<1>9. B[Len(inbox[s]) + 1] = v
  BY <1>3, <1>4, <1>6 DEF Seen
<1>10. v \in X
  OBVIOUS
<1> HIDE DEF X
<1>11. A \in Seq(X) /\ B \in Seq(X) /\ Len(A) = Len(inbox[s]) /\ Len(B) = Len(inbox[s]) + 1
  <2>1. A \in Seq(X) /\ B \in Seq(X)
    <3>1. \A m \in Nat : \A f : f \in [1..m -> X] => f \in Seq(X)
      BY SeqDef
    <3>2. Len(inbox[s]) \in Nat /\ Len(inbox[s]) + 1 \in Nat
      BY <1>4
    <3> QED
      BY <1>7, <3>1, <3>2
  <2>2. /\ 1..Len(A) = 1..Len(inbox[s]) /\ Len(A) \in Nat
        /\ 1..Len(B) = 1..(Len(inbox[s]) + 1) /\ Len(B) \in Nat
    BY <1>7, <2>1, LenProperties
  <2> QED
    BY <1>4, <2>1, <2>2
<1>12. B = Append(A, v)
  <2>1. /\ Append(A, v) \in Seq(X) /\ Len(Append(A, v)) = Len(A) + 1
        /\ \A i \in 1..Len(A) : Append(A, v)[i] = A[i]
        /\ Append(A, v)[Len(A) + 1] = v
    BY <1>10, <1>11, AppendProperties
  <2>2. \A i \in 1..(Len(inbox[s]) + 1) : i = Len(inbox[s]) + 1 \/ i \in 1..Len(inbox[s])
    BY <1>4
  <2>3. \A i \in 1..Len(B) : B[i] = Append(A, v)[i]
    BY <1>8, <1>9, <1>11, <2>1, <2>2
  <2>4. Len(B) = Len(Append(A, v))
    BY <1>11, <2>1
  <2> QED
    BY <1>11, <2>1, <2>3, <2>4, SeqEqual
<1>13. InboxBar = [r \in Stations |-> Seen(inbox[r])]
  BY DEF InboxBar, Seen
<1>14. InboxBar' = [r \in Stations |-> Seen(inbox'[r])]
  BY DEF InboxBar, Seen
<1> QED
  BY <1>1, <1>5, <1>6, <1>12, <1>13, <1>14

LEMMA DeliverStep ==
    ASSUME Base, TypeOK', NEW s \in Stations, NEW reqs, Routing(s, reqs),
           NEW t, t = Head(fwdq[s]), TakesIn(s, t), Delivers(s, t.pkt, reqs)
    PROVE  Service!Next
<1>0. TypeOK
  BY DEF Base
<1>1. PICK p : p = t.pkt
  OBVIOUS
<1>2. PICK from : from = p.from
  OBVIOUS
<1>3. PICK n : n = p.uid[2]
  OBVIOUS
<1>4. PICK a : a = sent[from][n]
  OBVIOUS
<1>5. /\ p \in PacketType /\ Traced(sent, p)
      /\ t.origin => from = s
      /\ ByRadio(s, t) => from # s
      /\ t.origin \/ ByRadio(s, t)
      /\ fwdq[s] # <<>>
  BY <1>1, <1>2, HeadFacts DEF TakesIn, Routing
<1>6. /\ p.uid = <<from, n>> /\ from \in Stations /\ n \in 1..Len(sent[from])
      /\ p.to = a.to /\ p.params \ {"R"} = a.params
  <2>1. HasUid(sent, p.uid) /\ p.uid[1] = from /\ MadeOf(p, a)
    BY <1>2, <1>3, <1>4, <1>5 DEF Traced
  <2>2. from \in Stations /\ Len(sent[from]) \in Nat
    BY <1>0, <1>2, <1>5, LenProperties DEF TypeOK, PacketType
  <2> QED
    BY <1>3, <2>1, <2>2 DEF HasUid, MadeOf
<1>7. SentBar[from][n] = Plain(a)
  BY <1>4, <1>6 DEF SentBar
<1>8. Service!AddressedTo(s, from, Plain(a))
  <2>1. Plain(a).to = p.to
    BY <1>6 DEF Plain
  <2>2. \/ p.to = s
        \/ p.to \in Broadcasts /\ from # s
        \/ p.to = Localhost /\ from = s
    BY <1>1, <1>5 DEF TakesIn, IsLocal
  <2> QED
    BY <2>1, <2>2 DEF Service!AddressedTo
<1>9. \A i \in 1..Len(InboxBar[s]) : InboxBar[s][i] # [uid |-> p.uid, boot |-> boot[s]]
  <2>1. ~Handled(s, p.uid)
    BY <1>1, <1>5, ActsOnce
  <2>2. InboxBar[s] = Seen(inbox[s])
    BY DEF InboxBar, Seen
  <2>3. Len(Seen(inbox[s])) = Len(inbox[s])
    BY <1>0, LenProperties DEF Seen, TypeOK
  <2>4. \A i \in 1..Len(inbox[s]) : ~(inbox[s][i].pkt.uid = p.uid /\ inbox[s][i].boot = boot[s])
    BY <2>1 DEF Handled
  <2>5. ASSUME NEW i \in 1..Len(inbox[s]) PROVE Seen(inbox[s])[i] # [uid |-> p.uid, boot |-> boot[s]]
    <3>1. PICK x : x = [uid |-> inbox[s][i].pkt.uid, boot |-> inbox[s][i].boot]
      OBVIOUS
    <3>2. PICK y : y = [uid |-> p.uid, boot |-> boot[s]]
      OBVIOUS
    <3>3. x.uid = inbox[s][i].pkt.uid /\ x.boot = inbox[s][i].boot /\ y.uid = p.uid /\ y.boot = boot[s]
      BY <3>1, <3>2
    <3>4. Seen(inbox[s])[i] = x
      BY <3>1 DEF Seen
    <3> QED
      BY <2>4, <3>2, <3>3, <3>4
  <2> QED
    BY <2>2, <2>3, <2>5
<1>10. InboxBar' = [InboxBar EXCEPT ![s] = Append(@, [uid |-> p.uid, boot |-> boot[s]])]
  <2>1. \A r \in Stations \ {s} : inbox'[r] = inbox[r]
    BY <1>0, RouteInbox
  <2> QED
    BY <1>0, <1>1, <2>1, InboxBarAfter
<1>11. SentBar' = [SentBar EXCEPT ![s] = @ \o Service!AnswersTo(Plain(a), from)]
  <2>1. SentBar' = [SentBar EXCEPT ![s] = @ \o PlainSeq(reqs)]
    BY <1>0, SentBarAfter DEF Routing
  <2>2. reqs = Answers(s, p)
    BY <1>1 DEF Delivers
  <2>3. PlainSeq(Answers(s, p)) = Service!AnswersTo(Plain(a), p.from)
    BY <1>5, <1>6, PlainAnswers
  <2> QED
    BY <1>2, <2>1, <2>2, <2>3
<1>12. boot' = boot
  BY DEF Routing
<1>13. n \in 1..Len(SentBar[from])
  <2>1. SentBar[from] = PlainSeq(sent[from])
    BY <1>6 DEF SentBar, PlainSeq
  <2>2. Len(PlainSeq(sent[from])) = Len(sent[from])
    BY <1>0, <1>6, LenProperties DEF PlainSeq, TypeOK
  <2> QED
    BY <1>6, <2>1, <2>2
<1>14. Service!Deliver(s, from, n)
  BY <1>6, <1>7, <1>8, <1>9, <1>10, <1>11, <1>12
     DEF Service!Deliver, Service!DeliveredSinceBoot, SentBar, InboxBar
<1> QED
  BY <1>6, <1>13, <1>14 DEF Service!Next, SentBar

LEMMA AsksStep ==
    ASSUME Base, NEW s \in Stations, NEW req \in Asks(s), Sending(s, req)
    PROVE  Service!Next
<1>0. TypeOK
  BY DEF Base
<1>1. SentBar' = [SentBar EXCEPT ![s] = @ \o <<Plain(req)>>]
  BY <1>0, SentBarAfter, PlainSmall DEF Sending
<1>2. SentBar' = [SentBar EXCEPT ![s] = Append(@, Plain(req))]
  <2>1. SentBar[s] \in Seq({Plain(x) : x \in Requestables})
    <3> DEFINE X == {Plain(x) : x \in Requestables}
    <3>1. Len(sent[s]) \in Nat /\ \A n \in 1..Len(sent[s]) : sent[s][n] \in Requestables
      BY <1>0, LenProperties, ElementOfSeq DEF TypeOK
    <3>2. SentBar[s] \in [1..Len(sent[s]) -> X]
      BY <3>1 DEF SentBar
    <3> HIDE DEF X
    <3>3. SentBar[s] \in Seq(X)
      BY <3>1, <3>2, SeqDef
    <3> QED
      BY <3>3 DEF X
  <2>2. SentBar[s] \o <<Plain(req)>> = Append(SentBar[s], Plain(req))
    BY <2>1
  <2> QED
    BY <1>1, <2>2 DEF SentBar
<1>3. UNCHANGED <<InboxBar, boot>>
  BY DEF Sending, InboxBar
<1>4. Plain(req) \in {Plain(x) : x \in Requests[s] \cup
                       (IF s \in Beaconers THEN {BeaconRequest(s)} ELSE {})}
  BY DEF Asks
<1>5. Service!Send(s)
  BY <1>2, <1>3, <1>4 DEF Service!Send, SentBar, InboxBar
<1> QED
  BY <1>5 DEF Service!Next

LEMMA ServiceStep ==
    ASSUME Base, TypeOK', [Next]_vars
    PROVE  [Service!Next]_(Service!vars)
<1>0. TypeOK
  BY DEF Base
<1>1. ASSUME UNCHANGED <<boot, sent, inbox>> PROVE UNCHANGED Service!vars
  BY <1>1 DEF Service!vars
<1>2. ASSUME NEW s \in Stations, NEW req \in Asks(s), Sending(s, req) PROVE Service!Next
  BY <1>2, AsksStep
<1>3. ASSUME NEW s \in Stations, NEW reqs, Routing(s, reqs) PROVE [Service!Next]_(Service!vars)
  <2>1. PICK t : t = Head(fwdq[s])
    OBVIOUS
  <2>2. /\ \A r \in Stations \ {s} : inbox'[r] = inbox[r]
        /\ \/ reqs = <<>> /\ inbox'[s] = inbox[s]
           \/ TakesIn(s, t) /\ Delivers(s, t.pkt, reqs)
    BY <1>0, <1>3, <2>1, RouteInbox
  <2>3. CASE reqs = <<>> /\ inbox'[s] = inbox[s]
    <3>1. sent[s] \in Seq(Requestables) /\ SendsType(s, <<>>, Tail(fwdq[s]))
      BY <1>0, <1>3, <2>3 DEF Routing, TypeOK
    <3>2. \A r \in Stations : sent'[r] = sent[r]
      <4>1. sent[s] \o <<>> = sent[s]
        BY <3>1, ConcatEmptySeq
      <4> QED
        BY <1>0, <3>1, <4>1 DEF SendsType, SendAll, TypeOK
    <3>3. \A r \in Stations : inbox'[r] = inbox[r]
      BY <2>2, <2>3
    <3>4. UNCHANGED <<SentBar, InboxBar, boot>>
      BY <1>3, <3>2, <3>3 DEF SentBar, InboxBar, Routing
    <3> QED
      BY <3>4 DEF Service!vars, SentBar, InboxBar
  <2>4. CASE TakesIn(s, t) /\ Delivers(s, t.pkt, reqs)
    BY <1>3, <2>1, <2>4, DeliverStep
  <2> QED
    BY <2>2, <2>3, <2>4
<1>4. ASSUME NEW s \in Stations, Reboot(s) PROVE Service!Next
  <2>1. boot' = [boot EXCEPT ![s] = @ + 1] /\ UNCHANGED <<sent, inbox>>
    BY <1>4 DEF Reboot
  <2>2. Service!Reboot(s)
    BY <2>1 DEF Service!Reboot
  <2> QED
    BY <2>2 DEF Service!Next
<1>5. ASSUME NEW s \in Stations, NEW e, NEW R, Airing(s, e, R) PROVE UNCHANGED Service!vars
  BY <1>1, <1>5 DEF Airing
<1>6. ASSUME NEW s \in Stations, CleanRecvLog(s) PROVE UNCHANGED Service!vars
  BY <1>1, <1>6 DEF CleanRecvLog
<1>7. Tick => UNCHANGED Service!vars
  BY <1>1 DEF Tick
<1> QED
  BY <1>0, <1>1, <1>2, <1>3, <1>4, <1>5, <1>6, <1>7, Steps

\* The mesh implements the datagram service of Datagram: a step of the mesh is
\* a request, a delivery with exactly the answers it asks for, a reboot, or
\* nothing that the applications notice (Network.cpp:150-330).
THEOREM MeshIsDatagramService ==
    ASSUME LogOutlastsDiffusion
    PROVE  Spec => DatagramService
<1>1. Init => Service!Init
  <2> SUFFICES ASSUME Init PROVE Service!Init
    OBVIOUS
  <2>1. \A s \in Stations : sent[s] = <<>> /\ inbox[s] = <<>>
    BY DEF Init
  <2>2. boot = [s \in Stations |-> 0]
    BY DEF Init
  <2>3. SentBar = [s \in Stations |-> <<>>] /\ InboxBar = [s \in Stations |-> <<>>]
    BY <2>1 DEF SentBar, InboxBar
  <2> QED
    BY <2>2, <2>3 DEF Service!Init, SentBar, InboxBar
<1>2. Base /\ TypeOK' /\ [Next]_vars => [Service!Next]_(Service!vars)
  BY ServiceStep
<1>3. Spec => [](Base /\ TypeOK)
  BY AlwaysOnce, TypeCorrect, PTL
<1> QED
  BY <1>1, <1>2, <1>3, PTL DEF Spec, DatagramService, Service!Spec

-----------------------------------------------------------------------------
(* Answers are not answered *)

Asking    == {"C", "PING", "RREQ"}
Answering == {"CO", "PONG", "RRSP"}

\* An application does not ask for an answer in what claims to be one.
Pure(a) == a.params \cap Asking = {} \/ a.params \cap Answering = {}
PureRequests == \A s \in Stations : \A a \in Requests[s] : Pure(a)

SentIsPure == \A s \in Stations : \A n \in 1..Len(sent[s]) : Pure(sent[s][n])

LEMMA PureAfter ==
    ASSUME TypeOK, SentIsPure, NEW s \in Stations, NEW reqs, NEW queue,
           SendsType(s, reqs, queue), \A m \in 1..Len(reqs) : Pure(reqs[m])
    PROVE  SentIsPure'
<1>1. ASSUME NEW n \in 1..Len(sent'[s]) PROVE Pure(sent'[s][n])
  <2>1. CASE n \in 1..Len(sent[s]) /\ sent'[s][n] = sent[s][n]
    BY <2>1 DEF SentIsPure
  <2>2. ASSUME NEW m \in 1..Len(reqs), sent'[s][n] = reqs[m] PROVE Pure(sent'[s][n])
    BY <2>2
  <2> QED
    BY <2>1, <2>2, SentElements
<1>2. \A r \in Stations \ {s} : sent'[r] = sent[r]
  BY SentAfter
<1> QED
  BY <1>1, <1>2 DEF SentIsPure

LEMMA PureStep ==
    ASSUME PureRequests, TypeOK, SentIsPure, [Next]_vars
    PROVE  SentIsPure'
<1>1. ASSUME UNCHANGED sent PROVE SentIsPure'
  BY <1>1 DEF SentIsPure
<1>2. ASSUME NEW s \in Stations, NEW req \in Asks(s), Sending(s, req) PROVE SentIsPure'
  <2>1. Pure(req)
    BY <1>2 DEF PureRequests, Asks, BeaconRequest, Pure
  <2>2. PICK reqs : reqs = <<req>>
    OBVIOUS
  <2>3. \A m \in 1..Len(reqs) : reqs[m] = req
    BY <2>2
  <2> QED
    BY <1>2, <2>1, <2>2, <2>3, PureAfter DEF Sending
<1>3. ASSUME NEW s \in Stations, NEW reqs, Routing(s, reqs) PROVE SentIsPure'
  <2>1. PICK t : t = Head(fwdq[s])
    OBVIOUS
  <2>2. \A m \in 1..Len(reqs) : Pure(reqs[m])
    <3>1. CASE reqs = <<>>
      BY <3>1
    <3>2. CASE Delivers(s, t.pkt, reqs)
      <4>1. t.pkt \in PacketType
        BY <1>3, <2>1, HeadTask DEF Routing
      <4>2. \A m \in 1..Len(reqs) : AnswerKind(t.pkt, reqs[m])
        BY <3>2, <4>1, AnswersKind DEF Delivers
      <4> QED
        BY <4>2 DEF AnswerKind, Pure, Asking
    <3> QED
      BY <1>3, <2>1, <3>1, <3>2, RouteInbox
  <2> QED
    BY <1>3, <2>2, PureAfter DEF Routing
<1>4. ASSUME NEW s \in Stations, NEW e, NEW R, Airing(s, e, R) PROVE UNCHANGED sent
  BY <1>4 DEF Airing
<1>5. ASSUME NEW s \in Stations, CleanRecvLog(s) \/ Reboot(s) PROVE UNCHANGED sent
  BY <1>5 DEF CleanRecvLog, Reboot
<1>6. Tick => UNCHANGED sent
  BY DEF Tick
<1> QED
  BY <1>1, <1>2, <1>3, <1>4, <1>5, <1>6, Steps

\* What the last entry of an inbox is when the station answers it.
AnsweredWell(s) ==
    sent'[s] # sent[s] /\ inbox'[s] # inbox[s] =>
        LET p == inbox'[s][Len(inbox'[s])].pkt IN
        /\ p.to \in {s, Localhost}
        /\ p.params \cap {"CO", "PONG", "RRSP"} = {}

LEMMA AnsweredStep ==
    ASSUME TypeOK, TracedInv, SentIsPure, [Next]_vars, NEW s \in Stations
    PROVE  AnsweredWell(s)
<1>1. ASSUME sent'[s] = sent[s] \/ inbox'[s] = inbox[s] PROVE AnsweredWell(s)
  BY <1>1 DEF AnsweredWell
<1>2. ASSUME NEW r \in Stations, NEW reqs, Routing(r, reqs) PROVE AnsweredWell(s)
  <2>1. PICK t : t = Head(fwdq[r])
    OBVIOUS
  <2>2. PICK p : p = t.pkt
    OBVIOUS
  <2>3. /\ p \in PacketType /\ Traced(sent, p) /\ fwdq[r] # <<>>
    BY <1>2, <2>1, <2>2, HeadTask DEF Routing, TracedInv, FwdqTraced
  <2>4. /\ \A q \in Stations \ {r} : inbox'[q] = inbox[q]
        /\ \/ reqs = <<>> /\ inbox'[r] = inbox[r]
           \/ TakesIn(r, t) /\ Delivers(r, p, reqs)
    BY <1>2, <2>1, <2>2, RouteInbox
  <2>5. CASE r = s /\ TakesIn(s, t) /\ Delivers(s, p, reqs) /\ sent'[s] # sent[s]
    <3>1. reqs \in Seq(Requestables) /\ sent[s] \in Seq(Requestables) /\ sent'[s] = sent[s] \o reqs
      BY <1>2, <2>5 DEF Routing, SendsType, SendAll, TypeOK
    <3>2. reqs # <<>>
      BY <2>5, <3>1, ConcatEmptySeq
    <3>3. 1 \in 1..Len(reqs)
      <4>1. Len(reqs) \in Nat \ {0}
        BY <3>1, <3>2, EmptySeq
      <4> QED
        BY <4>1
    <3>4. AnswerKind(p, Answers(s, p)[1])
      BY <2>3, <2>5, <3>3, AnswersKind DEF Delivers
    <3>5. Unicast(p) /\ p.params \cap Asking # {}
      BY <3>4 DEF AnswerKind, Asking
    <3>6. PICK a : a = sent[p.from][p.uid[2]]
      OBVIOUS
    <3>7. p.params \ {"R"} = a.params /\ Pure(a)
      <4>1. MadeOf(p, a) /\ HasUid(sent, p.uid) /\ p.uid[1] = p.from
        BY <2>3, <3>6 DEF Traced
      <4>2. p.from \in Stations /\ p.uid[2] \in 1..Len(sent[p.from])
        <5>1. p.from \in Stations /\ Len(sent[p.from]) \in Nat
          BY <2>3, LenProperties DEF TypeOK, PacketType
        <5> QED
          BY <4>1, <5>1 DEF HasUid
      <4> QED
        BY <3>6, <4>1, <4>2 DEF MadeOf, SentIsPure
    <3>8. p.params \cap {"CO", "PONG", "RRSP"} = {}
      <4>1. a.params \cap Asking # {}
        BY <3>5, <3>7 DEF Asking
      <4>2. a.params \cap Answering = {}
        BY <3>7, <4>1 DEF Pure
      <4> QED
        BY <3>7, <4>2 DEF Answering
    <3>9. p.to \in {s, Localhost}
      BY <2>2, <2>5, <3>5 DEF TakesIn, IsLocal, Unicast
    <3>10. inbox'[s][Len(inbox'[s])].pkt = p
      <4>1. PICK x : x = [pkt |-> p, boot |-> boot[s]]
        OBVIOUS
      <4>2. x.pkt = p
        BY <4>1
      <4>3. inbox'[s][Len(inbox'[s])] = x
        BY <2>2, <2>5, <4>1 DEF TakesIn
      <4> QED
        BY <4>2, <4>3
    <3> QED
      BY <3>8, <3>9, <3>10 DEF AnsweredWell
  <2> QED
    BY <1>1, <2>4, <2>5
<1>3. ASSUME UNCHANGED sent \/ UNCHANGED inbox PROVE AnsweredWell(s)
  BY <1>1, <1>3
<1>4. ASSUME NEW r \in Stations, NEW req, Sending(r, req) PROVE UNCHANGED inbox
  BY <1>4 DEF Sending
<1>5. ASSUME NEW r \in Stations, NEW e, NEW R, Airing(r, e, R) PROVE UNCHANGED inbox
  BY <1>5 DEF Airing
<1>6. ASSUME NEW r \in Stations, CleanRecvLog(r) \/ Reboot(r) PROVE UNCHANGED inbox
  BY <1>6 DEF CleanRecvLog, Reboot
<1>7. Tick => UNCHANGED inbox
  BY DEF Tick
<1> QED
  BY <1>1, <1>2, <1>3, <1>4, <1>5, <1>6, <1>7, Steps

\* Stations do not keep each other busy: what a station answers by itself was
\* sent to it alone, and is no automatic answer (Proto_Ping.cpp:20,
\* Proto_Rreq.cpp:19, Proto_C.cpp:22), so long as the applications keep the flags of
\* answers out of what they ask.
THEOREM NoAnswerIsAnswered ==
    ASSUME PureRequests
    PROVE  Spec => AnswersAreNotAnswered
<1>1. Init => SentIsPure
  BY DEF Init, SentIsPure
<1>2. TypeOK /\ SentIsPure /\ [Next]_vars => SentIsPure'
  BY PureStep
<1>3. TypeOK /\ TracedInv /\ SentIsPure /\ [Next]_vars => \A s \in Stations : AnsweredWell(s)
  BY AnsweredStep
<1>4. (\A s \in Stations : AnsweredWell(s)) =>
         \A s \in Stations :
            sent'[s] # sent[s] /\ inbox'[s] # inbox[s] =>
                LET p == inbox'[s][Len(inbox'[s])].pkt IN
                /\ p.to \in {s, Localhost}
                /\ p.params \cap {"CO", "PONG", "RRSP"} = {}
  BY DEF AnsweredWell
<1> QED
  BY <1>1, <1>2, <1>3, <1>4, TypeCorrect, AlwaysTraced, PTL DEF Spec, AnswersAreNotAnswered

=============================================================================
