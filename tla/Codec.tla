------------------------------- MODULE Codec --------------------------------
(***************************************************************************)
(* From texts to packets and back: callsigns, parameter lists, the layer-3 *)
(* format "to<from:params msg" and the packet that an operator types       *)
(* (Callsign.cpp, Params.cpp, Packet.cpp, CLI.cpp).                        *)
(***************************************************************************)
EXTENDS Buffers

CONSTANTS
    MaxIdent,    \* 999999: the largest packet id that is accepted
    Word,        \* 2^32: size of uint32_t
    LongMax,     \* LONG_MAX, where strtol() stops counting
    MaxPayload   \* LoRaL2::max_payload(), in characters

\* Numbers with as many digits as MaxIdent neither wrap nor saturate.
ASSUME IdentAssumption ==
    /\ {MaxIdent, Word, LongMax} \subseteq Nat \ {0}
    /\ 10 * MaxIdent <= Word /\ 10 * MaxIdent <= LongMax

-----------------------------------------------------------------------------
(* Callsign.  A callsign is its name, in capitals. *)

NoCallsign == <<>>
Named(a, b) == <<a, b>>
Reserved == {Named(81, 66), Named(81, 82)}   \* QB, QR

\* Mutant: a prefix may have eight characters.
IsCallsign_LongPrefix(s) ==
    LET prefix == Before(Dash, s)
        ssid   == After(Dash, s)
    IN  /\ Len(s) >= 2
        /\ s[1] \in Upper
        /\ s[1] = 81 => Len(s) = 2 /\ s[2] \in Upper
        /\ IndexOf(Dash, s) # 0 => Len(ssid) \in 1..2 /\ AllIn(ssid, Digits) /\ ssid[1] # 48
        /\ Len(prefix) \in 2..8 /\ AllIn(prefix, Digits \cup Upper)

\* check(): two letters if it begins with Q, else a prefix and maybe an SSID.
IsCallsign(s) ==
    LET prefix == Before(Dash, s)
        ssid   == After(Dash, s)
    IN  /\ Len(s) >= 2
        /\ s[1] \in Upper
        /\ s[1] = 81 => Len(s) = 2 /\ s[2] \in Upper
        /\ IndexOf(Dash, s) # 0 => Len(ssid) \in 1..2 /\ AllIn(ssid, Digits) /\ ssid[1] # 48
        /\ Len(prefix) \in 2..7 /\ AllIn(prefix, Digits \cup Upper)

CallsignOf(s) ==
    LET name == Strip(Uppercase(s)) IN IF IsCallsign(name) THEN name ELSE NoCallsign

-----------------------------------------------------------------------------
(* Params: the packet id, 0 if there is none, and the value of each key. *)

Naked  == <<Space, 110, 64, Space>>   \* the value of a key without one
NoKeys == [k \in {} |-> <<>>]
Invalid == [valid |-> FALSE, ident |-> 0, items |-> NoKeys]

\* Mutant: a numeral is not compared with the one its number is written as.
IdentOf_AnyLength(s) ==
    LET n == Decimal(s)
        v == (IF n > LongMax THEN LongMax ELSE n) % Word
    IN  IF AllIn(s, Digits) /\ v \in 1..MaxIdent THEN v ELSE 0

\* parse_ident_param(): the number that strtol() reads, in 32 bits, if it is
\* written as it would be written again; 0 if not.
IdentOf(s) ==
    LET n == Decimal(s)
        v == (IF n > LongMax THEN LongMax ELSE n) % Word
    IN  IF AllIn(s, Digits) /\ v \in 1..MaxIdent /\ Len(Itoa(v)) = Len(s) THEN v ELSE 0

\* parse_symbol_param(): a key, or a key, an equal sign and a value.
IsSymbol(s) ==
    /\ s[1] \in Upper \cup Lower
    /\ AllIn(Before(Equal, s), Digits \cup Upper \cup Lower)
    /\ AllIn(After(Equal, s), (1..255) \ {Equal, Space, Comma, Colon, Less})

IsNumeral(s) == s[1] \in Digits
IsParam(s)   == Len(s) > 0 /\ IF IsNumeral(s) THEN IdentOf(s) # 0 ELSE IsSymbol(s)

\* Where the texts between commas begin; the last comma may have none after it.
Starts(s)     == {i \in 1..Len(s) : i = 1 \/ s[i - 1] = Comma}
PieceAt(s, i) == Before(Comma, Cut(i - 1, s))

\* Mutant: the key is kept as it came.
KeyOf_AsTyped(piece) == Before(Equal, piece)

KeyOf(piece)   == Uppercase(Before(Equal, piece))
ValueOf(piece) == IF IndexOf(Equal, piece) = 0 THEN Naked ELSE After(Equal, piece)

\* parse_params(): of several ids the last counts, of equal keys the last value.
ParamsOf(s) ==
    LET numerals == {i \in Starts(s) : IsNumeral(PieceAt(s, i))}
        keyed    == Starts(s) \ numerals
        LastOf(k) == Max({i \in keyed : KeyOf(PieceAt(s, i)) = k})
    IN  IF \E i \in Starts(s) : ~IsParam(PieceAt(s, i)) THEN Invalid
        ELSE [valid |-> TRUE,
              ident |-> IF numerals = {} THEN 0 ELSE IdentOf(PieceAt(s, Max(numerals))),
              items |-> [k \in {KeyOf(PieceAt(s, i)) : i \in keyed} |-> ValueOf(PieceAt(s, LastOf(k)))]]

Put(items, key, value) ==
    LET upper == Uppercase(key) IN
    [k \in DOMAIN items \cup {upper} |-> IF k = upper THEN value ELSE items[k]]

\* Mutant: an empty value is written as no value.
Written_NoEmpty(key, value) ==
    <<Comma>> \o key \o IF value \in {Naked, <<>>} THEN <<>> ELSE <<Equal>> \o value

Written(key, value) ==
    <<Comma>> \o key \o IF value = Naked THEN <<>> ELSE <<Equal>> \o value

\* The i-th of the keys in order.
KeyAt(items, i) == CHOOSE k \in DOMAIN items :
    Cardinality({l \in DOMAIN items : Precedes(l, k)}) = i - 1

Listed(items) == FlattenSeq([i \in 1..Cardinality(DOMAIN items) |->
    Written(KeyAt(items, i), items[KeyAt(items, i)])])

\* Mutant: the id comes last.
Serialized_IdentLast(p) == Cut(1, Listed(p.items) \o <<Comma>> \o Itoa(p.ident))

Serialized(p) == Itoa(p.ident) \o Listed(p.items)

-----------------------------------------------------------------------------
(* Packet *)

NoPacket == [to |-> NoCallsign, from |-> NoCallsign, params |-> Invalid, msg |-> <<>>]

Whole(p) ==
    p.to \o <<Less>> \o p.from \o <<Colon>> \o Serialized(p.params) \o <<Space>> \o p.msg

Fits(p) == Len(Whole(p)) <= MaxPayload

EncodeL3(p) == IF Fits(p) THEN Whole(p) ELSE SubSeq(Whole(p), 1, MaxPayload)

\* decode_l3() and decode_preamble(); what they refuse is NoPacket.
DecodeL3(w) ==
    LET preamble == Before(Space, w)
        less     == IndexOf(Less, preamble)
        colon    == IndexOf(Colon, preamble)
        to       == CallsignOf(SubSeq(preamble, 1, less - 1))
        from     == CallsignOf(SubSeq(preamble, less + 1, colon - 1))
        params   == ParamsOf(Cut(colon, preamble))
    IN  IF less = 0 \/ colon < less \/ NoCallsign \in {to, from} \/ params.ident = 0
        THEN NoPacket
        ELSE [to |-> to, from |-> from, params |-> params, msg |-> After(Space, w)]

\* Modf_R: Params::put_naked.
WithR(p) == [p EXCEPT !.params.items = Put(@, <<82>>, Naked)]

-----------------------------------------------------------------------------
(* The packet typed on a line: "to:params msg", or all of it in hexadecimal. *)

Pktx == <<Bang, 112, 107, 116, 120, Space>>   \* "!pktx "

\* The text of the packet on a line, nothing for another command.
PacketText(line) ==
    LET cmd == LStrip(line) IN
    IF IsPrefix(Pktx, cmd) THEN FromHex(Strip(Cut(Len(Pktx), cmd)))
    ELSE IF IsPrefix(<<Bang>>, cmd) THEN <<>> ELSE cmd

\* cli_parse_packet(): the request for Network::send, NoPacket if it is refused.
ParsePacket(cmd) ==
    LET preamble == Before(Space, cmd)
        dest     == CallsignOf(Before(Colon, preamble))
        params   == ParamsOf(After(Colon, preamble))
    IN  IF dest = NoCallsign \/ dest \in Reserved \/ ~params.valid
        THEN NoPacket
        ELSE [to |-> dest, from |-> NoCallsign, params |-> params, msg |-> After(Space, cmd)]

\* Network::send: the station's callsign and the next id, whatever was typed.
\* The station has no pre-shared key, so that Proto_HMAC adds nothing.
Originated(request, me, id) == [request EXCEPT !.from = me, !.params.ident = id]
=============================================================================
