------------------------------ MODULE Packets ------------------------------
(***************************************************************************)
(* Packets and the pure protocol handlers a station applies to them:       *)
(* signature, layer-3 encoding, the layer-4 handlers (HMAC, confirmation), *)
(* the layer-7 handlers (ping, route request) and the two modifiers that a *)
(* repeater applies before relaying (Packet.cpp, Proto_*.cpp, Modf_*.cpp). *)
(*                                                                         *)
(* A message is a sequence of items; an item is an application text, the   *)
(* text "confirm <id>", or an annotation "<callsign> <rssi>" of a route    *)
(* request.  Sizes are counted in items and parameters, not in characters. *)
(***************************************************************************)
EXTENDS Integers, Sequences, FiniteSets

CONSTANTS
    Stations,    \* callsigns of the stations
    Texts,       \* what applications write in messages
    Key,         \* Key[s]: pre-shared key stored in the NVRAM of s, or NoKey
    NoKey,
    MaxId,       \* MAX_PACKET_ID (9999 in the code)
    MaxPayload   \* LoRaL2::max_payload(), in parameters and message items

Broadcasts == {"QB", "QC", "QR"}       \* Callsign::is_bcast
Localhost  == "QL"                     \* Callsign::is_lo
Callsigns  == Stations \cup Broadcasts \cup {Localhost}

ASSUME StationsAssumption ==
    /\ IsFiniteSet(Stations)
    /\ Stations \cap (Broadcasts \cup {Localhost}) = {}
ASSUME SizesAssumption == MaxId \in Nat \ {0} /\ MaxPayload \in Nat
ASSUME KeyAssumption == DOMAIN Key = Stations

ParamNames == {"C", "CO", "PING", "PONG", "RREQ", "RRSP", "R"}

\* Items of a message.
Text(x)       == [kind |-> "text",    who |-> x,  n |-> 0]
Confirm(id)   == [kind |-> "confirm", who |-> "", n |-> id]
Hop(s, rssi)  == [kind |-> "hop",     who |-> s,  n |-> rssi]
Dest(s, rssi) == [kind |-> "dest",    who |-> s,  n |-> rssi]

Items == [kind : {"text", "confirm", "hop", "dest"},
          who  : Stations \cup Texts \cup {""},
          n    : Int]
Messages == Seq(Items)

\* What a handler or an application passes to Network::send.  R is the
\* repeaters': "the user should not use it explicitly" (PacketFormat.md:55).
Requestables == [to     : Callsigns,
                 params : SUBSET (ParamNames \ {"R"}),
                 msg    : Messages]

Unicast(p)    == p.to \notin Broadcasts
RouteQuery(p) == p.params \cap {"RREQ", "RRSP"} # {}
Signature(p)  == <<p.from, p.id>>

(***************************************************************************)
(* Proto_HMAC.  The parameter H is the field mac: <<>> when absent, else   *)
(* what the keyed hash of to, from, id and msg is a hash of.               *)
(***************************************************************************)
\* Mutant: the hash covers the parameters, to which a repeater adds its R.
Digest_Params(key, p) ==
    <<[key |-> key, to |-> p.to, from |-> p.from, id |-> p.id,
       msg |-> <<p.msg, p.params>>]>>

Digest(key, p) ==
    <<[key |-> key, to |-> p.to, from |-> p.from, id |-> p.id, msg |-> p.msg]>>

Digests == [key  : {Key[s] : s \in Stations},
            to   : Callsigns,
            from : Stations,
            id   : 1..MaxId,
            msg  : Messages]

\* A packet; uid is a history field: <<s, n>> for the nth packet of station s.
PacketType == [to     : Callsigns,
               from   : Stations,
               id     : 1..MaxId,
               params : SUBSET ParamNames,
               mac    : Seq(Digests),
               msg    : Messages,
               rssi   : Int,
               uid    : Stations \X (Nat \ {0})]

HmacTx(s, p) ==
    IF Key[s] = NoKey \/ RouteQuery(p) THEN p
    ELSE [p EXCEPT !.mac = Digest(Key[s], p)]

\* Mutant: any H will do.
HmacRejects_Absent(s, p) == Key[s] # NoKey /\ ~RouteQuery(p) /\ p.mac = <<>>

HmacRejects(s, p) ==
    /\ Key[s] # NoKey
    /\ ~RouteQuery(p)
    /\ p.mac # Digest(Key[s], p)

(***************************************************************************)
(* Automatic answers.  An answer is what a handler passes to               *)
(* Network::send: destination, parameters, message.                        *)
(***************************************************************************)
ConfirmAnswer(p) ==
    IF "C" \in p.params /\ "CO" \notin p.params /\ Unicast(p)
    THEN <<[to |-> p.from, params |-> {"CO"}, msg |-> <<Confirm(p.id)>>]>>
    ELSE <<>>

\* Mutant: a broadcast ping is answered too.
PingAnswer_Broadcast(p) ==
    IF "PING" \in p.params
    THEN <<[to |-> p.from, params |-> {"PONG"}, msg |-> p.msg]>>
    ELSE <<>>

PingAnswer(p) ==
    IF Unicast(p) /\ "PING" \in p.params
    THEN <<[to |-> p.from, params |-> {"PONG"}, msg |-> p.msg]>>
    ELSE <<>>

RreqAnswer(s, p) ==
    IF Unicast(p) /\ "RREQ" \in p.params
    THEN <<[to     |-> p.from,
            params |-> {"RRSP"},
            msg    |-> Append(p.msg, Dest(s, p.rssi))]>>
    ELSE <<>>

\* The first layer-7 protocol that answers ends the search.
L7Answer(s, p) ==
    IF PingAnswer(p) # <<>> THEN PingAnswer(p) ELSE RreqAnswer(s, p)

Answers(s, p) == ConfirmAnswer(p) \o L7Answer(s, p)

(***************************************************************************)
(* Modifiers of a repeater, in the order Network's constructor adds them.  *)
(* Packet::change_params and change_msg build the new packet without the   *)
(* RSSI, which then has the constructor's default.                         *)
(***************************************************************************)
DefaultRssi == 0

ChangeParams(p, params) == [p EXCEPT !.params = params, !.rssi = DefaultRssi]
ChangeMsg(p, msg)       == [p EXCEPT !.msg = msg, !.rssi = DefaultRssi]

\* Mutant: no earmark.
ModfR_Nothing(p) == p

ModfR(p) == ChangeParams(p, p.params \cup {"R"})

ModfRreq(s, p) ==
    IF p.to \in Stations /\ RouteQuery(p)
    THEN ChangeMsg(p, Append(p.msg, Hop(s, p.rssi)))
    ELSE p

Modified(s, p) == ModfRreq(s, ModfR(p))

(***************************************************************************)
(* Packet::encode_l3 cuts the wire format at max_payload, that is at the   *)
(* tail of the message: each parameter, the mac and each item has size 1.  *)
(***************************************************************************)
HeaderSize(p) == Cardinality(p.params) + Len(p.mac)
Room(p)       == MaxPayload - HeaderSize(p)

Encode(p) ==
    [p EXCEPT !.msg = SubSeq(@, 1, IF Len(@) <= Room(p) THEN Len(@) ELSE Room(p))]

\* Packet::decode_l3 tags the packet with the RSSI of the reception.
Decode(p, rssi) == [p EXCEPT !.rssi = rssi]
=============================================================================
