------------------------------- MODULE Relay --------------------------------
(***************************************************************************)
(* The life of one packet as a text: a line typed at a station is parsed,  *)
(* becomes a packet, goes on the air, is decoded by a station that hears   *)
(* it, and is encoded again by a repeater, hop after hop.  Texts that no   *)
(* station has written go on the air too.                                  *)
(***************************************************************************)
EXTENDS Codec

CONSTANTS
    Me,        \* callsign of the station where lines are typed
    Lines,     \* [text, meant]: a line, and the request it was written for, or NoPacket
    Noises,    \* other texts on the air
    Idents,    \* what Network::get_next_pkt_id() may give
    MaxHops    \* bound on the repetitions of a packet

\* Texts are sequences of codes, and no callsign or id is ever cut.
ASSUME RelayAssumption ==
    /\ {Me} \cup {l.text : l \in Lines} \cup Noises \subseteq Seq(Nat)
    /\ IsCallsign(Me) /\ Idents \subseteq 1..MaxIdent /\ MaxHops \in Nat
    /\ MaxPayload \in Nat /\ MaxPayload >= 10 + 1 + 10 + 1 + Len(Itoa(MaxIdent))

-----------------------------------------------------------------------------
(* What an operator writes for a request: the documented format             *)
(* (PacketFormat.md:10-42, TNC.md:46-59), in any case and order.            *)

\* "Any characters except those used as delimiters in the header".
Free == (1..255) \ {Equal, Space, Comma, Colon, Less}

IsKey(k)   == k \in Seq(Nat) /\ Len(k) # 0 /\ k[1] \in Upper /\ AllIn(k, Digits \cup Upper)
IsValue(v) == v = Naked \/ (v \in Seq(Nat) /\ AllIn(v, Free))

IsRequest(m) ==
    /\ m = [to |-> m.to, from |-> NoCallsign, msg |-> m.msg,
            params |-> [valid |-> TRUE, ident |-> 0, items |-> m.params.items]]
    /\ {m.to, m.msg} \subseteq Seq(Nat) /\ IsCallsign(m.to) /\ m.to \notin Reserved
    /\ m.params.items = [k \in DOMAIN m.params.items |-> m.params.items[k]]
    /\ \A k \in DOMAIN m.params.items : IsKey(k) /\ IsValue(m.params.items[k])

\* A naked key, or a key and a value.
Spells(piece, k, v) ==
    /\ Len(k) <= Len(piece) /\ Uppercase(SubSeq(piece, 1, Len(k))) = k
    /\ Cut(Len(k), piece) = IF v = Naked THEN <<>> ELSE <<Equal>> \o v

\* A number is the id of another time: the station gives its own.
Enumerates(s, items) ==
    /\ \A i \in Starts(s) :
          \/ PieceAt(s, i) \in {Itoa(n) : n \in 1..MaxIdent}
          \/ \E k \in DOMAIN items : Spells(PieceAt(s, i), k, items[k])
    /\ \A k \in DOMAIN items : \E i \in Starts(s) : Spells(PieceAt(s, i), k, items[k])

\* "There shall not be spaces within the header."
Says(cmd, m) ==
    \E d \in 0..Len(cmd) : Uppercase(SubSeq(cmd, 1, d)) = m.to /\ \E e \in d..Len(cmd) :
        /\ Space \notin {cmd[i] : i \in 1..e}
        /\ IF d = e THEN m.params.items = NoKeys
           ELSE cmd[d + 1] = Colon /\ Enumerates(SubSeq(cmd, d + 2, e), m.params.items)
        /\ IF e = Len(cmd) THEN m.msg = <<>>
           ELSE cmd[e + 1] = Space /\ m.msg = Cut(e + 1, cmd)

\* In plain text, or as hexadecimal digits.
Writes(text, m) ==
    \E n \in 0..Len(text) :
        LET cmd    == Cut(n, text)
            packet == FromHex(Cut(Len(Pktx), cmd))
        IN  /\ AllIn(SubSeq(text, 1, n), {Space})
            /\ Says(cmd, m) \/ (cmd = Pktx \o ToHex(packet) /\ Says(packet, m))

ASSUME LinesAssumption ==
    \A l \in Lines : l.meant # NoPacket => IsRequest(l.meant) /\ Writes(l.text, l.meant)

-----------------------------------------------------------------------------
VARIABLES
    at,      \* "idle", "refused" (a line), "air", "heard" or "lost"
    line,    \* the line that was typed, NoLine for a noise
    wire,    \* the text on the air
    origin,  \* the packet that was sent, or that a noise is decoded as
    heard,   \* what the last station that heard it decodes
    hops     \* how often the packet was repeated

vars == <<at, line, wire, origin, heard, hops>>

NoLine == [text |-> <<>>, meant |-> NoPacket]

Init ==
    /\ at = "idle" /\ line = NoLine /\ wire = <<>>
    /\ origin = NoPacket /\ heard = NoPacket /\ hops = 0

\* ENTER: cli_parse() and Network::send(), or an error message.
Type(l, id) ==
    LET request == ParsePacket(PacketText(l.text)) IN
    /\ at = "idle"
    /\ line' = l
    /\ IF request = NoPacket
       THEN at' = "refused" /\ UNCHANGED <<wire, origin>>
       ELSE /\ at' = "air"
            /\ origin' = Originated(request, Me, id)
            /\ wire' = EncodeL3(origin')
    /\ UNCHANGED <<heard, hops>>

Noise(w) ==
    /\ at = "idle"
    /\ at' = "air" /\ wire' = w /\ origin' = DecodeL3(w)
    /\ UNCHANGED <<line, heard, hops>>

\* Network::recv(LoRaL2Packet*): a packet, or "rx invalid pkt err".
Hear ==
    /\ at = "air"
    /\ heard' = DecodeL3(wire)
    /\ at' = IF heard' = NoPacket THEN "lost" ELSE "heard"
    /\ UNCHANGED <<line, wire, origin, hops>>

\* Network::route(): the earmark of a repeater, and the packet encoded again.
Repeat ==
    /\ at = "heard" /\ hops < MaxHops
    /\ at' = "air" /\ wire' = EncodeL3(WithR(heard)) /\ hops' = hops + 1
    /\ UNCHANGED <<line, origin, heard>>

\* Nobody else hears it, and the next text can come.
Fade ==
    /\ at \in {"refused", "heard", "lost"}
    /\ at' = "idle" /\ line' = NoLine /\ wire' = <<>>
    /\ origin' = NoPacket /\ heard' = NoPacket /\ hops' = 0

Next ==
    \/ \E l \in Lines, id \in Idents : Type(l, id)
    \/ \E w \in Noises : Noise(w)
    \/ Hear
    \/ Repeat
    \/ Fade

Spec == Init /\ [][Next]_vars

-----------------------------------------------------------------------------
(* Properties *)

\* Packets have callsigns of the stations' format, that NVRAM has room for, and
\* parameters whose keys begin with a capital.
TypeOK ==
    /\ at \in {"idle", "refused", "air", "heard", "lost"} /\ hops \in 0..MaxHops
    /\ \A p \in {origin, heard} \ {NoPacket} :
          /\ \A c \in {p.to, p.from} : Len(c) \in 2..10 /\ CallsignOf(c) = c
          /\ p.params.ident \in 1..MaxIdent
          /\ \A k \in DOMAIN p.params.items : k[1] \in Upper /\ Uppercase(k) = k

\* A packet as it is after its hops.
AfterHops(p) == IF hops = 0 THEN p ELSE WithR(p)

\* As sent and as repeated: an earmark may take less room than a value that a
\* packet has for R already.
Undivided(p) == Fits(p) /\ Fits(AfterHops(p))

\* A packet that fits is heard as it was sent, at every hop: what a station
\* writes is what it reads, and a text that is accepted is repeated as it was
\* understood (a key in small letters, an id written twice).
RepeatedAsHeard == at \in {"heard", "lost"} /\ Undivided(origin) => heard = AfterHops(origin)

\* What an operator writes in the documented format is accepted, and is what
\* every station hears, whatever the order and the case it was written in:
\* "in `A=,B`, B is naked while A has a value" (PacketFormat.md:40-42).
MeantIsHeard ==
    LET sent == Originated(line.meant, Me, origin.params.ident) IN
    line.meant # NoPacket =>
        /\ at # "refused"
        /\ at \in {"heard", "lost"} /\ Undivided(sent) => heard = AfterHops(sent)

\* A packet that is cut is still the same packet for all who hear it, one whose
\* message has lost its end; while there is something left of the message, the
\* parameters are those that were sent.
CutAtTheEnd ==
    at \in {"heard", "lost"} /\ origin # NoPacket =>
        /\ heard.to = origin.to /\ heard.from = origin.from
        /\ heard.params.ident = origin.params.ident
        /\ IsPrefix(heard.msg, origin.msg)
        /\ heard.msg # <<>> => heard.params = AfterHops(origin).params

\* The id of a packet is a number that its text has, not one that it wraps to:
\* two packets with different ids are not taken for copies of each other.
IdentIsWritten ==
    at = "heard" /\ hops = 0 =>
        \E i, j \in DOMAIN wire :
            AllIn(SubSeq(wire, i, j), Digits) /\ i <= j /\ Decimal(SubSeq(wire, i, j)) = heard.params.ident
            /\ (j = Len(wire) \/ wire[j + 1] \notin Digits) /\ (i = 1 \/ wire[i - 1] \notin Digits)
=============================================================================
