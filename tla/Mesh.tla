-------------------------------- MODULE Mesh --------------------------------
(***************************************************************************)
(* A mesh of stations that run Network.cpp: originating packets, routing   *)
(* by diffusion through repeaters, duplicate suppression, automatic        *)
(* answers, the peer tables, and loss of RAM at a reboot.                  *)
(*                                                                         *)
(* A station is a single-threaded loop.  Its pending PacketFwd tasks form  *)
(* the FIFO fwdq, its pending PacketTx tasks (random delay, retried while  *)
(* the radio is busy) the set txq.  One run of a task is one action, with  *)
(* all the calls it makes.  The radio is external: a transmission reaches  *)
(* any subset of the stations in range.                                    *)
(*                                                                         *)
(* sent, inbox and aired are history variables: nothing reads them but the *)
(* numbering of packets and the properties.                                *)
(***************************************************************************)
EXTENDS Packets

CONSTANTS
    Repeaters,      \* stations whose NVRAM says repeater
    Hears,          \* pairs <<a, b>>: b is in range of a's transmitter
    Rssi,           \* Rssi[<<a, b>>]: RSSI at b of what a transmits
    Reliable,       \* TRUE: a transmission reaches every station in range
    Requests,       \* Requests[s]: what the application of s may send
    Beaconers,      \* stations whose beacon timer fires
    FirstId,        \* FirstId[s]: packet id in NVRAM at power-on
    RecvLogPersist, \* RECV_LOG_PERSIST, in ticks
    NeighPersist,   \* NEIGH_PERSIST, in ticks
    HopTime,        \* ticks within which a PacketTx task gets the radio
    MaxSends,       \* bound: packets a station sends before its app stops
    MaxBoots,       \* bound: MaxBoots[s] reboots of s
    MaxNow          \* bound: the clock

ASSUME TopologyAssumption ==
    /\ Repeaters \subseteq Stations
    /\ Beaconers \subseteq Stations
    /\ Hears \subseteq Stations \X Stations
    /\ \A s \in Stations : <<s, s>> \notin Hears
    /\ Rssi \in [Hears -> Int]
    /\ Reliable \in BOOLEAN
ASSUME RequestsAssumption ==
    /\ \A s \in Stations : Requests[s] \subseteq Requestables
    /\ "up" \in Texts
ASSUME BoundsAssumption ==
    /\ FirstId \in [Stations -> 1..MaxId]
    /\ RecvLogPersist \in Nat /\ NeighPersist \in Nat /\ HopTime \in Nat
    /\ MaxSends \in Nat /\ MaxBoots \in [Stations -> Nat] /\ MaxNow \in Nat

VARIABLES
    now,      \* sys_timestamp(), in ticks, the same at every station
    lastId,   \* last_pkt_id
    nvId,     \* the packet id saved in NVRAM
    fwdq,     \* pending PacketFwd tasks: [pkt, origin]
    txq,      \* pending PacketTx tasks: [pkt, at]
    recvLog,  \* recv_log: signature -> [ts, uid]
    peers,    \* peerlist: callsign -> [rssi, ts]
    neigh,    \* neigh
    reptr,    \* reptr
    boot,     \* number of reboots
    sent,     \* history: requests passed to send(), packet <<s, n>> is the nth
    inbox,    \* history: packets passed to app_recv(), with the boot
    aired     \* history: <<uid, boot>> of the packets put on the air

tables == <<peers, neigh, reptr>>
vars == <<now, lastId, nvId, fwdq, txq, recvLog, tables, boot, sent, inbox, aired>>

Empty == [x \in {} |-> 0]

Init ==
    /\ now = 0
    /\ lastId = FirstId
    /\ nvId = FirstId
    /\ fwdq = [s \in Stations |-> <<>>]
    /\ txq = [s \in Stations |-> {}]
    /\ recvLog = [s \in Stations |-> Empty]
    /\ peers = [s \in Stations |-> Empty]
    /\ neigh = [s \in Stations |-> Empty]
    /\ reptr = [s \in Stations |-> Empty]
    /\ boot = [s \in Stations |-> 0]
    /\ sent = [s \in Stations |-> <<>>]
    /\ inbox = [s \in Stations |-> <<>>]
    /\ aired = [s \in Stations |-> {}]

-----------------------------------------------------------------------------
(* Network::send *)

\* Mutant: compared before the increment.
NextId_Late(i) == IF i > MaxId THEN 1 ELSE i + 1

\* get_next_pkt_id
NextId(i) == IF i + 1 > MaxId THEN 1 ELSE i + 1

\* The id after n calls; one handled packet makes at most two.
NthId(i, n) ==
    IF n = 0 THEN i ELSE IF n = 1 THEN NextId(i) ELSE NextId(NextId(i))

\* The packet made of a, the nth request s sends in this step.
Originate(s, n, a) ==
    HmacTx(s, [to     |-> a.to,
               from   |-> s,
               id     |-> NthId(lastId[s], n),
               params |-> a.params,
               mac    |-> <<>>,
               msg    |-> a.msg,
               rssi   |-> DefaultRssi,
               uid    |-> <<s, Len(sent[s]) + n>>])

\* Mutant: the id is saved before it is incremented.
SendAll_SavesOldId(s, reqs, queue) ==
    /\ lastId' = [lastId EXCEPT ![s] = NthId(@, Len(reqs))]
    /\ nvId' = [nvId EXCEPT ![s] = IF reqs = <<>> THEN @ ELSE NthId(lastId[s], Len(reqs) - 1)]
    /\ sent' = [sent EXCEPT ![s] = @ \o reqs]
    /\ fwdq' = [fwdq EXCEPT ![s] =
                  queue \o [n \in 1..Len(reqs) |->
                              [pkt |-> Originate(s, n, reqs[n]), origin |-> TRUE]]]

\* s calls send() for each request of the sequence reqs; queue is what its fwdq
\* holds before the new PacketFwd tasks.
SendAll(s, reqs, queue) ==
    /\ lastId' = [lastId EXCEPT ![s] = NthId(@, Len(reqs))]
    /\ nvId' = [nvId EXCEPT ![s] = IF reqs = <<>> THEN @ ELSE NthId(lastId[s], Len(reqs))]
    /\ sent' = [sent EXCEPT ![s] = @ \o reqs]
    /\ fwdq' = [fwdq EXCEPT ![s] =
                  queue \o [n \in 1..Len(reqs) |->
                              [pkt |-> Originate(s, n, reqs[n]), origin |-> TRUE]]]

AppSend(s) ==
    /\ Len(sent[s]) < MaxSends
    /\ \E a \in Requests[s] : SendAll(s, <<a>>, fwdq[s])
    /\ UNCHANGED <<now, txq, recvLog, tables, boot, inbox, aired>>

\* Proto_Beacon::beacon
BeaconRequest(s) ==
    [to     |-> IF s \in Repeaters THEN "QR" ELSE "QB",
     params |-> {},
     msg    |-> <<Text("up")>>]

Beacon(s) ==
    /\ s \in Beaconers
    /\ Len(sent[s]) < MaxSends
    /\ SendAll(s, <<BeaconRequest(s)>>, fwdq[s])
    /\ UNCHANGED <<now, txq, recvLog, tables, boot, inbox, aired>>

-----------------------------------------------------------------------------
(* Network::route, run by a PacketFwd task, and Network::recv below it *)

Set(f, x, v) == [y \in DOMAIN f \cup {x} |-> IF y = x THEN v ELSE f[y]]

Annotate(s, p) ==
    recvLog' = [recvLog EXCEPT ![s] = Set(@, Signature(p), [ts |-> now, uid |-> p.uid])]

Schedule(s, p) == txq' = [txq EXCEPT ![s] = @ \cup {[pkt |-> Encode(p), at |-> now]}]

\* Mutant: a relayed QR makes its source a known repeater.
UpdatePeerlist_RelayedRepeater(s, p) ==
    LET seen == [rssi |-> p.rssi, ts |-> now] IN
    /\ peers' = [peers EXCEPT ![s] = Set(@, p.from, seen)]
    /\ neigh' = [neigh EXCEPT ![s] =
                   IF "R" \in p.params THEN @ ELSE Set(@, p.from, seen)]
    /\ reptr' = [reptr EXCEPT ![s] = IF p.to # "QR" THEN @ ELSE Set(@, p.from, seen)]

UpdatePeerlist(s, p) ==
    LET seen == [rssi |-> p.rssi, ts |-> now] IN
    /\ peers' = [peers EXCEPT ![s] = Set(@, p.from, seen)]
    /\ neigh' = [neigh EXCEPT ![s] =
                   IF "R" \in p.params THEN @ ELSE Set(@, p.from, seen)]
    /\ reptr' = [reptr EXCEPT ![s] =
                   IF "R" \in p.params \/ p.to # "QR" THEN @ ELSE Set(@, p.from, seen)]

\* Mutant: layer 4 confirms before it checks the HMAC.
Recv_ConfirmFirst(s, p) ==
    IF HmacRejects(s, p)
    THEN SendAll(s, ConfirmAnswer(p), Tail(fwdq[s])) /\ UNCHANGED inbox
    ELSE /\ SendAll(s, Answers(s, p), Tail(fwdq[s]))
         /\ inbox' = [inbox EXCEPT ![s] = Append(@, [pkt |-> p, boot |-> boot[s]])]

\* Mutant: what a layer-7 protocol answers does not reach the application.
Recv_AnsweredIsConsumed(s, p) ==
    IF HmacRejects(s, p)
    THEN /\ fwdq' = [fwdq EXCEPT ![s] = Tail(@)]
         /\ UNCHANGED <<lastId, nvId, sent, inbox>>
    ELSE /\ SendAll(s, Answers(s, p), Tail(fwdq[s]))
         /\ inbox' = [inbox EXCEPT ![s] =
                        IF L7Answer(s, p) # <<>> THEN @
                        ELSE Append(@, [pkt |-> p, boot |-> boot[s]])]

\* The packet at the head of fwdq[s] is for s: layer 4, layer 7, application.
Recv(s, p) ==
    IF HmacRejects(s, p)
    THEN /\ fwdq' = [fwdq EXCEPT ![s] = Tail(@)]
         /\ UNCHANGED <<lastId, nvId, sent, inbox>>
    ELSE /\ SendAll(s, Answers(s, p), Tail(fwdq[s]))
         /\ inbox' = [inbox EXCEPT ![s] = Append(@, [pkt |-> p, boot |-> boot[s]])]

Skip(s) ==
    /\ fwdq' = [fwdq EXCEPT ![s] = Tail(@)]
    /\ UNCHANGED <<lastId, nvId, sent, inbox>>

IsLocal(s, p) == p.to \in {s, Localhost}

\* Own packet for this station: handled at once, no log.
RouteLocal(s, p) ==
    /\ IsLocal(s, p)
    /\ Recv(s, p)
    /\ UNCHANGED <<txq, recvLog, tables>>

\* Own packet for others.
RouteOrigin(s, p) ==
    /\ ~IsLocal(s, p)
    /\ Annotate(s, p)
    /\ Schedule(s, p)
    /\ Skip(s)
    /\ UNCHANGED tables

\* Mutant: only the loop check.
IsDuplicate_LoopOnly(s, p) == p.from = s

IsDuplicate(s, p) == p.from = s \/ Signature(p) \in DOMAIN recvLog[s]

\* Mutant: its task asks to run again.
RouteDuplicate_Kept(s, p) ==
    /\ IsDuplicate(s, p)
    /\ UNCHANGED <<fwdq, lastId, nvId, sent, inbox, txq, recvLog, tables>>

\* A packet of ours that came back, or one already handled.
RouteDuplicate(s, p) ==
    /\ IsDuplicate(s, p)
    /\ Skip(s)
    /\ UNCHANGED <<txq, recvLog, tables>>

RouteDestination(s, p) ==
    /\ ~IsDuplicate(s, p)
    /\ p.to = s
    /\ Annotate(s, p)
    /\ UpdatePeerlist(s, p)
    /\ Recv(s, p)
    /\ UNCHANGED txq

\* Not only for us: received if broadcast, relayed if we are a repeater.
RouteDiffusion(s, p) ==
    /\ ~IsDuplicate(s, p)
    /\ p.to # s
    /\ Annotate(s, p)
    /\ IF p.to \in Broadcasts
       THEN UpdatePeerlist(s, p) /\ Recv(s, p)
       ELSE Skip(s) /\ UNCHANGED tables
    /\ IF s \in Repeaters THEN Schedule(s, Modified(s, p)) ELSE UNCHANGED txq

Route(s) ==
    /\ fwdq[s] # <<>>
    /\ LET p == Head(fwdq[s]).pkt IN
       IF Head(fwdq[s]).origin
       THEN RouteLocal(s, p) \/ RouteOrigin(s, p)
       ELSE RouteDuplicate(s, p) \/ RouteDestination(s, p) \/ RouteDiffusion(s, p)
    /\ UNCHANGED <<now, boot, aired>>

-----------------------------------------------------------------------------
(* Transmission, reception, housekeeping, reboot *)

Hearers(s) == {r \in Stations : <<s, r>> \in Hears}

\* A PacketTx task gets the radio.  The stations of R receive the packet and
\* schedule a PacketFwd; the others miss it (collision, noise, busy sending).
Tx(s) ==
    \E e \in txq[s], R \in SUBSET Hearers(s) :
        /\ Reliable => R = Hearers(s)
        /\ txq' = [txq EXCEPT ![s] = @ \ {e}]
        /\ aired' = [aired EXCEPT ![s] = @ \cup {<<e.pkt.uid, boot[s]>>}]
        /\ fwdq' = [r \in Stations |->
                      IF r \in R
                      THEN Append(fwdq[r], [pkt    |-> Decode(e.pkt, Rssi[<<s, r>>]),
                                            origin |-> FALSE])
                      ELSE fwdq[r]]
        /\ UNCHANGED <<now, lastId, nvId, recvLog, tables, boot, sent, inbox>>

\* Mutant: the persistence time is forgotten.
Stale_AtOnce(f, persist) == {x \in DOMAIN f : f[x].ts < now}

\* The entries a cleaning task removes, and what it keeps.
Stale(f, persist) == {x \in DOMAIN f : f[x].ts + persist < now}
Fresh(f, persist) == [x \in DOMAIN f \ Stale(f, persist) |-> f[x]]

\* Each task runs every minute; a run that finds nothing stale changes nothing.
CleanRecvLog(s) ==
    /\ Stale(recvLog[s], RecvLogPersist) # {}
    /\ recvLog' = [recvLog EXCEPT ![s] = Fresh(@, RecvLogPersist)]
    /\ UNCHANGED <<now, lastId, nvId, fwdq, txq, tables, boot, sent, inbox, aired>>

CleanNeigh(s) ==
    /\ \E f \in {neigh[s], reptr[s], peers[s]} : Stale(f, NeighPersist) # {}
    /\ neigh' = [neigh EXCEPT ![s] = Fresh(@, NeighPersist)]
    /\ reptr' = [reptr EXCEPT ![s] = Fresh(@, NeighPersist)]
    /\ peers' = [peers EXCEPT ![s] = Fresh(@, NeighPersist)]
    /\ UNCHANGED <<now, lastId, nvId, fwdq, txq, recvLog, boot, sent, inbox, aired>>

\* Power failure or !reset: RAM is lost, the packet id is read from NVRAM.
Reboot(s) ==
    /\ boot[s] < MaxBoots[s]
    /\ boot' = [boot EXCEPT ![s] = @ + 1]
    /\ lastId' = [lastId EXCEPT ![s] = nvId[s]]
    /\ fwdq' = [fwdq EXCEPT ![s] = <<>>]
    /\ txq' = [txq EXCEPT ![s] = {}]
    /\ recvLog' = [recvLog EXCEPT ![s] = Empty]
    /\ peers' = [peers EXCEPT ![s] = Empty]
    /\ neigh' = [neigh EXCEPT ![s] = Empty]
    /\ reptr' = [reptr EXCEPT ![s] = Empty]
    /\ UNCHANGED <<now, nvId, sent, inbox, aired>>

\* A tick is long for a main loop: it finds no PacketFwd task waiting, and no
\* PacketTx task older than HopTime.
Tick ==
    /\ now < MaxNow
    /\ \A s \in Stations :
         /\ fwdq[s] = <<>>
         /\ \A e \in txq[s] : now < e.at + HopTime
    /\ now' = now + 1
    /\ UNCHANGED <<lastId, nvId, fwdq, txq, recvLog, tables, boot, sent, inbox, aired>>

Next ==
    \/ \E s \in Stations :
         \/ AppSend(s) \/ Beacon(s) \/ Route(s) \/ Tx(s)
         \/ CleanRecvLog(s) \/ CleanNeigh(s) \/ Reboot(s)
    \/ Tick

Spec == Init /\ [][Next]_vars

\* The main loop keeps running due tasks, and the radio is not busy forever.
Fairness == \A s \in Stations : WF_vars(Route(s)) /\ WF_vars(Tx(s))
FairSpec == Spec /\ Fairness

-----------------------------------------------------------------------------
(* Safety *)

FwdTasks == [pkt : PacketType, origin : BOOLEAN]
TxTasks  == [pkt : PacketType, at : Nat]

\* A table of the peer kind, and the receive log.
PeerTableOK(f) ==
    /\ DOMAIN f \subseteq Stations
    /\ f \in [DOMAIN f -> [rssi : Int, ts : 0..now]]
RecvLogOK(f) ==
    /\ DOMAIN f \subseteq Stations \X (1..MaxId)
    /\ f \in [DOMAIN f -> [ts : 0..now, uid : Stations \X (Nat \ {0})]]

\* Type invariant: among others, packet ids stay in 1..MAX_PACKET_ID through
\* increments, wrap and reboots, and no time stamp is in the future.
TypeOK ==
    /\ now \in 0..MaxNow
    /\ lastId \in [Stations -> 1..MaxId]
    /\ nvId \in [Stations -> 1..MaxId]
    /\ boot \in [Stations -> Nat]
    /\ fwdq \in [Stations -> Seq(FwdTasks)]
    /\ txq \in [Stations -> SUBSET TxTasks]
    /\ sent \in [Stations -> Seq(Requestables)]
    /\ inbox \in [Stations -> Seq([pkt : PacketType, boot : Nat])]
    /\ DOMAIN recvLog = Stations /\ \A s \in Stations : RecvLogOK(recvLog[s])
    /\ DOMAIN peers = Stations /\ \A s \in Stations : PeerTableOK(peers[s])
    /\ DOMAIN neigh = Stations /\ \A s \in Stations : PeerTableOK(neigh[s])
    /\ DOMAIN reptr = Stations /\ \A s \in Stations : PeerTableOK(reptr[s])
    /\ aired \in [Stations -> SUBSET ((Stations \X (Nat \ {0})) \X Nat)]

\* Between two reboots a station gives the same packet to its application once,
\* by however many ways it arrives (recv_log, Network.cpp:430).
AtMostOnceDelivery ==
    \A s \in Stations : \A i, j \in 1..Len(inbox[s]) :
        /\ inbox[s][i].pkt.uid = inbox[s][j].pkt.uid
        /\ inbox[s][i].boot = inbox[s][j].boot
        => i = j

\* Between two reboots a station transmits the same packet once: what waits for
\* the radio was not on the air yet, and does not wait twice.  This is what
\* keeps two repeaters from throwing a packet at each other forever.
AtMostOnceOnAir ==
    \A s \in Stations : \A e \in txq[s] :
        /\ <<e.pkt.uid, boot[s]>> \notin aired[s]
        /\ \A f \in txq[s] : f.pkt.uid = e.pkt.uid => f = e

\* A packet from the radio is taken for a duplicate only if it is one: another
\* packet of its source never has its signature, not even after a reboot, since
\* the id is in NVRAM before it is used (Network.cpp:206).
NoFalseDuplicate ==
    \A s \in Stations : \A i \in 1..Len(fwdq[s]) :
        LET p == fwdq[s][i].pkt IN
        Signature(p) \in DOMAIN recvLog[s] => recvLog[s][Signature(p)].uid = p.uid

\* A confirmation means what it says: the station it comes from gave the packet
\* with the confirmed id to its application (HMAC is checked before C answers,
\* Network.cpp:160).
ConfirmMeansDelivered ==
    \A s \in Stations : \A i \in 1..Len(inbox[s]) :
        LET co == inbox[s][i].pkt IN
        "CO" \in co.params =>
            \E j \in 1..Len(inbox[co.from]) :
                LET p == inbox[co.from][j].pkt IN
                p.from = s /\ <<Confirm(p.id)>> = co.msg

\* What a station with a key delivers is what was sent, even when a repeater had
\* to cut the message to make room for its R; route queries are not signed.
IntactWhenSigned ==
    \A s \in Stations : \A i \in 1..Len(inbox[s]) :
        LET p == inbox[s][i].pkt
            a == sent[p.uid[1]][p.uid[2]] IN
        Key[s] # NoKey /\ ~RouteQuery(p) => p.to = a.to /\ p.msg = a.msg

\* Every neighbour is a station we hear without a repeater in between, and its
\* RSSI is that of its own transmitter (no R = fresh from source,
\* Network.cpp:390).
NeighIsDirect ==
    \A s \in Stations : \A x \in DOMAIN neigh[s] :
        <<x, s>> \in Hears /\ neigh[s][x].rssi = Rssi[<<x, s>>]

\* A known repeater is a neighbour and a neighbour is a peer, through updates
\* and expiry alike, and the wider table is never older.
Within(f, g) == \A x \in DOMAIN f : x \in DOMAIN g /\ f[x].ts <= g[x].ts
TablesNested ==
    \A s \in Stations : Within(reptr[s], neigh[s]) /\ Within(neigh[s], peers[s])

\* An automatic answer is given only to a packet sent to this station alone, and
\* never to another automatic answer: stations do not keep each other busy.
AnswersAreNotAnswered ==
    [][\A s \in Stations :
         sent'[s] # sent[s] /\ inbox'[s] # inbox[s] =>
            LET p == inbox'[s][Len(inbox'[s])].pkt IN
            /\ p.to \in {s, Localhost}
            /\ p.params \cap {"CO", "PONG", "RRSP"} = {}]_vars

\* A request as Datagram sees it.
Plain(a) == [to |-> a.to, params |-> a.params]

\* The mesh is a datagram service.
Service == INSTANCE Datagram WITH
    Asked <- [s \in Stations |->
                {Plain(a) : a \in Requests[s] \cup
                             (IF s \in Beaconers THEN {BeaconRequest(s)} ELSE {})}],
    sent  <- [s \in Stations |-> [n \in 1..Len(sent[s]) |-> Plain(sent[s][n])]],
    inbox <- [s \in Stations |-> [i \in 1..Len(inbox[s]) |->
                [uid |-> inbox[s][i].pkt.uid, boot |-> inbox[s][i].boot]]]

DatagramService == Service!Spec

\* Each repeater in a route request's trail noted the RSSI it heard the packet
\* with ("the RSSI tagged to this packet upon reception", Packet.cpp:156).
RouteRssiIsHeard ==
    \A s \in Stations : \A i \in 1..Len(inbox[s]) :
        LET msg == inbox[s][i].pkt.msg IN
        \A k \in 1..Len(msg) : msg[k].kind = "hop" =>
            \E a \in Stations : <<a, msg[k].who>> \in Hears /\ Rssi[<<a, msg[k].who>>] = msg[k].n

-----------------------------------------------------------------------------
(* Liveness *)

Quiet == \A s \in Stations : fwdq[s] = <<>> /\ txq[s] = {}

\* The diffusion of whatever was sent comes to an end, repeaters in range of
\* each other included.
DiffusionEnds == []<>Quiet

\* Repeaters lead from a to b.
Connected(a, b) ==
    \/ <<a, b>> \in Hears
    \/ \E r \in Repeaters : <<a, r>> \in Hears /\ <<r, b>> \in Hears
    \/ \E r, q \in Repeaters : <<a, r>> \in Hears /\ <<r, q>> \in Hears /\ <<q, b>> \in Hears

Arrived(uid, b) == \E i \in 1..Len(inbox[b]) : inbox[b][i].pkt.uid = uid

\* When every transmission is heard, and nobody reboots, each unicast reaches
\* its destination through the repeaters, and so do the answers to it.
UnicastsArrive ==
    []<>(\A a \in Stations : \A n \in 1..Len(sent[a]) :
            LET b == sent[a][n].to IN
            b \in Stations \ {a} /\ Connected(a, b) => Arrived(<<a, n>>, b))
=============================================================================
