------------------------------ MODULE Settings ------------------------------
(***************************************************************************)
(* The settings of a station: the commands that change them (CLI.cpp), the *)
(* NVRAM they are kept in (NVRAM.cpp), the pre-shared key cached in RAM    *)
(* (HMACKeys.cpp) and the restart that puts them in force.                 *)
(*                                                                         *)
(* Texts stand for what is typed and stored; of a text only its length,    *)
(* the callsign made of it and its digest matter.                          *)
(***************************************************************************)
EXTENDS Integers

CONSTANTS
    Texts,      \* typed and stored texts, NoText, "None" and callsigns among them
    Length,     \* length of each text
    ShoutsQ,    \* texts that begin with a capital Q
    Callsign,   \* Callsign[w]: w in capitals, stripped, or NoText if check() fails
    HashKey,    \* HMACKeys::hash_key
    Stored,     \* what the NVRAM may hold when the station is switched on
    Commands    \* what operators type: [op, text, num]

\* The empty text.
NoText == "empty"

VARIABLES
    nvram,      \* what Preferences keeps; NoText and 0 when absent
    cache,      \* HMACKeys: [valid, psk]
    me,         \* Network::my_callsign
    repeater,   \* Network::repeater_function_activated
    asked       \* history: what operators set, and the defaults

svars == <<nvram, cache, me, repeater, asked>>

Blank == [callsign |-> NoText, repeater |-> 0, beacon |-> 0, psk |-> NoText, ssid |-> NoText, password |-> NoText]

Defaults == [callsign |-> "FIXMEE-1", repeater |-> 0, beacon |-> 600, psk |-> NoText,
             ssid |-> "None", password |-> "None"]

ASSUME TextsAssumption ==
    /\ Length \in [Texts -> Nat] /\ ShoutsQ \subseteq Texts
    /\ Callsign \in [Texts -> Texts] /\ HashKey \in [Texts -> Texts]
    /\ {NoText, "None", "FIXMEE-1", "FIXMEE-2"} \subseteq Texts
    /\ \A w \in Texts : Length[w] = 0 <=> w = NoText
    /\ Length["None"] = 4

\* Callsign::check() lets at most 10 characters pass, and passes what it passed
\* before; a digest is 32 characters long.
ASSUME FormatAssumption == \A w \in Texts :
    /\ Length[Callsign[w]] <= 10 /\ Callsign[Callsign[w]] = Callsign[w]
    /\ Length[HashKey[w]] = 32

ASSUME CommandsAssumption == Commands \subseteq
    [op : {"callsign", "repeater", "beacon", "hmacpsk", "ssid", "password",
           "restart", "defconfig", "send", "other"},
     text : Texts, num : Nat]

\* Contents of the NVRAM.
Nvrams == [callsign : Texts, repeater : {0, 1}, beacon : Nat, psk : Texts,
           ssid : Texts, password : Texts]

ASSUME StoredAssumption == Stored \subseteq Nvrams

-----------------------------------------------------------------------------
(* NVRAM *)

\* Preferences::getString into a buffer of size room, the final \0 included.
GetString(s, room) == IF Length[s] < room THEN s ELSE NoText

\* Mutant: a buffer without room for the \0.
CallsignLoad_Short(nv) ==
    LET s == GetString(nv.callsign, 10) IN
    IF s = NoText THEN "FIXMEE-1" ELSE IF Callsign[s] = NoText THEN "FIXMEE-2" ELSE Callsign[s]

CallsignLoad(nv) ==
    LET s == GetString(nv.callsign, 11) IN
    IF s = NoText THEN "FIXMEE-1" ELSE IF Callsign[s] = NoText THEN "FIXMEE-2" ELSE Callsign[s]

BeaconClamp(b) == IF b < 2 \/ b > 600 THEN 600 ELSE b

PskLoad(nv) == GetString(nv.psk, 33)

\* arduino_nvram_load: SSID and password of the Wi-Fi network.
WifiLoad(s) == LET v == GetString(s, 65) IN IF v = NoText THEN "None" ELSE v

\* What the load functions give.
Loaded(nv) ==
    [callsign |-> CallsignLoad(nv), repeater |-> nv.repeater, beacon |-> BeaconClamp(nv.beacon),
     psk |-> PskLoad(nv), ssid |-> WifiLoad(nv.ssid), password |-> WifiLoad(nv.password)]

-----------------------------------------------------------------------------
(* Commands *)

\* A command stores value if it is acceptable, and answers with an error if not.
Store(key, acceptable, value) ==
    IF acceptable
    THEN nvram' = [nvram EXCEPT ![key] = value] /\ asked' = [asked EXCEPT ![key] = value]
    ELSE UNCHANGED <<nvram, asked>>

\* The check for pseudo-callsigns looks at the text as it was typed.
SetCallsign(w) ==
    /\ Store("callsign", w \notin ShoutsQ /\ Callsign[w] # NoText, Callsign[w])
    /\ UNCHANGED <<cache, me, repeater>>

SetRepeater(v) == Store("repeater", v \in {0, 1}, v) /\ UNCHANGED <<cache, me, repeater>>

SetBeacon(b) == Store("beacon", b \in 2..600, BeaconClamp(b)) /\ UNCHANGED <<cache, me, repeater>>

PskAccepted(k) == k # NoText /\ Length[k] <= 32

\* Mutant: the cached key stays in use.
Invalidated_Never(k) == cache

\* HMACKeys::invalidate(), when a key is saved.
Invalidated(k) == IF PskAccepted(k) THEN [cache EXCEPT !.valid = FALSE] ELSE cache

\* The key "None" is no key.
SetPsk(k) ==
    /\ Store("psk", PskAccepted(k), IF k = "None" THEN NoText ELSE HashKey[k])
    /\ cache' = Invalidated(k)
    /\ UNCHANGED <<me, repeater>>

SetWifi(key, w) == Store(key, w # NoText /\ Length[w] <= 64, w) /\ UNCHANGED <<cache, me, repeater>>

\* HMACKeys::get_key_for() loads the key when the cache is not valid.
Cached == IF cache.valid THEN cache ELSE [valid |-> TRUE, psk |-> PskLoad(nvram)]

\* A packet is signed, or a signature checked.
UseKey == cache' = Cached /\ UNCHANGED <<nvram, me, repeater, asked>>

\* setup(), with nv in NVRAM.
Boot(nv) ==
    /\ nvram' = nv
    /\ cache' = [valid |-> FALSE, psk |-> NoText]
    /\ me' = CallsignLoad(nv)
    /\ repeater' = (nv.repeater # 0)

\* A command that only shows something, or that is not understood.
Show == UNCHANGED svars

Execute(c) ==
    \/ c.op = "callsign" /\ SetCallsign(c.text)
    \/ c.op = "repeater" /\ SetRepeater(c.num)
    \/ c.op = "beacon" /\ SetBeacon(c.num)
    \/ c.op = "hmacpsk" /\ SetPsk(c.text)
    \/ c.op \in {"ssid", "password"} /\ SetWifi(c.op, c.text)
    \/ c.op = "restart" /\ Boot(nvram) /\ UNCHANGED asked
    \/ c.op = "defconfig" /\ Boot(Blank) /\ asked' = Defaults
    \/ c.op = "send" /\ UseKey
    \/ c.op = "other" /\ Show

SettingsInit ==
    /\ nvram \in Stored
    /\ cache = [valid |-> FALSE, psk |-> NoText]
    /\ me = CallsignLoad(nvram)
    /\ repeater = (nvram.repeater # 0)
    /\ asked = Loaded(nvram)

SettingsNext == UseKey \/ \E c \in Commands : Execute(c)

SettingsSpec == SettingsInit /\ [][SettingsNext]_svars

-----------------------------------------------------------------------------
(* Properties *)

SettingsTypeOK ==
    /\ nvram \in Nvrams
    /\ cache \in [valid : BOOLEAN, psk : Texts]
    /\ me \in Texts /\ repeater \in BOOLEAN

\* What an operator sets is what the station will load, at the next restart, at
\* the next beacon or at once: what the commands accept fits the buffers and the
\* checks of the load functions, and only !defconfig takes it back.
SettingsKept == Loaded(nvram) = asked

\* "Pre-shared key saved, effective immediately" (CLI.cpp:173): the next packet is
\* signed, or checked, with the key in NVRAM, whatever was cached before.
KeyIsSaved == Cached.psk = PskLoad(nvram)

Pseudo == {"QB", "QC", "QR", "QL"}

\* A station does not take a pseudo-callsign: "Stations shall have 4 to 7 octets,
\* shall not start with Q" (PacketFormat.md:18), and !callsign refuses them
\* (CLI.cpp:92-96).
StationIsNoPseudo == me \notin Pseudo
=============================================================================
