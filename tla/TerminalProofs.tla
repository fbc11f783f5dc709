--------------------------- MODULE TerminalProofs ---------------------------
(***************************************************************************)
(* Proofs about Terminal: settings are kept and the key is the saved one,  *)
(* Telnet sessions end with the connection and get their own output, and   *)
(* the serial port tells who has the console.                              *)
(*                                                                         *)
(* The settings change in two ways only, a command and the use of the key, *)
(* so their invariant is proved for these and carried over to the steps of *)
(* the terminal by lemma SettingsSteps.                                    *)
(***************************************************************************)
EXTENDS Terminal, TLAPS

\* The settings after a step of the terminal.
SettingsStep == UseKey \/ (\E c \in Commands \cup {Control("other")} : Execute(c)) \/ UNCHANGED svars

SettingsInv ==
    /\ nvram \in Nvrams
    /\ cache \in [valid : BOOLEAN, psk : Texts]
    /\ SettingsKept
    /\ KeyIsSaved

\* The load functions undo what the commands store.
LEMMA LoadedCalls ==
    ASSUME NEW nv \in Nvrams, NEW w \in Texts, nv.callsign = Callsign[w], Callsign[w] # NoText
    PROVE  CallsignLoad(nv) = Callsign[w]
<1>1. Callsign[w] \in Texts /\ Length[Callsign[w]] <= 10 /\ Callsign[Callsign[w]] = Callsign[w]
         /\ Length[Callsign[w]] \in Nat
  BY TextsAssumption, FormatAssumption
<1>2. GetString(nv.callsign, 11) = Callsign[w]
  <2>1. Length[nv.callsign] < 11
    BY <1>1
  <2> QED BY <2>1 DEF GetString
<1> QED BY <1>1, <1>2 DEF CallsignLoad

LEMMA LoadedPsk ==
    ASSUME NEW w \in Texts
    PROVE  /\ GetString(HashKey[w], 33) = HashKey[w]
           /\ GetString(NoText, 33) = NoText
<1>1. Length[HashKey[w]] = 32 /\ Length[NoText] = 0
  BY TextsAssumption, FormatAssumption
<1> QED BY <1>1 DEF GetString

LEMMA LoadedWifi ==
    ASSUME NEW w \in Texts, w # NoText, Length[w] <= 64
    PROVE  WifiLoad(w) = w
<1>1. Length[w] \in Nat
  BY TextsAssumption
<1>2. GetString(w, 65) = w
  BY <1>1 DEF GetString
<1> QED BY <1>2 DEF WifiLoad

LEMMA LoadType ==
    ASSUME NEW nv \in Nvrams
    PROVE  PskLoad(nv) \in Texts
  BY TextsAssumption DEF PskLoad, GetString, Nvrams

LEMMA LoadedBlank == Loaded(Blank) = Defaults /\ Blank \in Nvrams
<1>1. Length[NoText] = 0 /\ NoText \in Texts
  BY TextsAssumption
<1>2. \A room \in Nat : room > 0 => GetString(NoText, room) = NoText
  BY <1>1 DEF GetString
<1>3. CallsignLoad(Blank) = "FIXMEE-1"
  BY <1>2 DEF CallsignLoad, Blank
<1>4. BeaconClamp(Blank.beacon) = 600
  BY DEF BeaconClamp, Blank
<1>5. PskLoad(Blank) = NoText /\ WifiLoad(Blank.ssid) = "None" /\ WifiLoad(Blank.password) = "None"
  BY <1>2 DEF PskLoad, WifiLoad, Blank
<1> QED BY <1>1, <1>3, <1>4, <1>5 DEF Loaded, Defaults, Blank, Nvrams

-----------------------------------------------------------------------------
(* Settings *)

USE DEF SettingsKept, KeyIsSaved, Cached

\* What a command needs to preserve the invariant: it stores a value of the right
\* type that loads as itself.
Fits(key, value) ==
    LET nv == [nvram EXCEPT ![key] = value]
    IN  nv \in Nvrams /\ Loaded(nv) = [asked EXCEPT ![key] = value]

LEMMA StoreKeeps ==
    ASSUME SettingsInv,
           NEW key \in {"callsign", "repeater", "beacon", "psk", "ssid", "password"},
           NEW value, NEW acceptable \in BOOLEAN,
           acceptable => Fits(key, value),
           Store(key, acceptable, value)
    PROVE  /\ nvram' \in Nvrams
           /\ SettingsKept'
           /\ key # "psk" \/ ~acceptable => PskLoad(nvram') = PskLoad(nvram)
<1>1. CASE acceptable
  <2>1. nvram' = [nvram EXCEPT ![key] = value] /\ asked' = [asked EXCEPT ![key] = value]
    BY <1>1 DEF Store
  <2>2. nvram' \in Nvrams /\ Loaded(nvram') = asked'
    BY <1>1, <2>1 DEF Fits
  <2>3. key # "psk" => nvram'.psk = nvram.psk
    BY <2>1 DEF SettingsInv, Nvrams
  <2> QED BY <1>1, <2>2, <2>3 DEF PskLoad
<1>2. CASE ~acceptable
  BY <1>2 DEF Store, SettingsInv
<1> QED BY <1>1, <1>2

LEMMA CallsignFits ==
    ASSUME SettingsInv, NEW w \in Texts, Callsign[w] # NoText
    PROVE  Fits("callsign", Callsign[w])
<1> DEFINE nv == [nvram EXCEPT !["callsign"] = Callsign[w]]
<1>1. nv \in Nvrams /\ nv.callsign = Callsign[w]
  BY TextsAssumption DEF SettingsInv, Nvrams
<1>2. /\ nv.repeater = nvram.repeater /\ nv.beacon = nvram.beacon /\ nv.psk = nvram.psk
      /\ nv.ssid = nvram.ssid /\ nv.password = nvram.password
  BY DEF SettingsInv, Nvrams
<1> HIDE DEF nv
<1>3. CallsignLoad(nv) = Callsign[w]
  BY <1>1, LoadedCalls
<1>4. Loaded(nv) = [Loaded(nvram) EXCEPT !["callsign"] = Callsign[w]]
  BY <1>2, <1>3 DEF Loaded, PskLoad
<1> QED BY <1>1, <1>4 DEF Fits, SettingsInv, nv

LEMMA RepeaterFits ==
    ASSUME SettingsInv, NEW v \in {0, 1}
    PROVE  Fits("repeater", v)
<1> DEFINE nv == [nvram EXCEPT !["repeater"] = v]
<1>1. nv \in Nvrams /\ nv.repeater = v
  BY DEF SettingsInv, Nvrams
<1>2. /\ nv.callsign = nvram.callsign /\ nv.beacon = nvram.beacon /\ nv.psk = nvram.psk
      /\ nv.ssid = nvram.ssid /\ nv.password = nvram.password
  BY DEF SettingsInv, Nvrams
<1> HIDE DEF nv
<1>3. Loaded(nv) = [Loaded(nvram) EXCEPT !["repeater"] = v]
  BY <1>1, <1>2 DEF Loaded, PskLoad, CallsignLoad
<1> QED BY <1>1, <1>3 DEF Fits, SettingsInv, nv

LEMMA BeaconFits ==
    ASSUME SettingsInv, NEW b \in 2..600
    PROVE  Fits("beacon", BeaconClamp(b))
<1>0. BeaconClamp(b) = b
  BY DEF BeaconClamp
<1> DEFINE nv == [nvram EXCEPT !["beacon"] = b]
<1>1. nv \in Nvrams /\ nv.beacon = b
  BY DEF SettingsInv, Nvrams
<1>2. /\ nv.callsign = nvram.callsign /\ nv.repeater = nvram.repeater /\ nv.psk = nvram.psk
      /\ nv.ssid = nvram.ssid /\ nv.password = nvram.password
  BY DEF SettingsInv, Nvrams
<1> HIDE DEF nv
<1>3. Loaded(nv) = [Loaded(nvram) EXCEPT !["beacon"] = b]
  BY <1>0, <1>1, <1>2 DEF Loaded, PskLoad, CallsignLoad
<1> QED BY <1>0, <1>1, <1>3 DEF Fits, SettingsInv, nv

LEMMA PskFits ==
    ASSUME SettingsInv, NEW w \in Texts, NEW d, d = NoText \/ d = HashKey[w]
    PROVE  Fits("psk", d)
<1>0. d \in Texts /\ GetString(d, 33) = d
  BY TextsAssumption, LoadedPsk
<1> DEFINE nv == [nvram EXCEPT !["psk"] = d]
<1>1. nv \in Nvrams /\ nv.psk = d
  BY <1>0 DEF SettingsInv, Nvrams
<1>2. /\ nv.callsign = nvram.callsign /\ nv.repeater = nvram.repeater /\ nv.beacon = nvram.beacon
      /\ nv.ssid = nvram.ssid /\ nv.password = nvram.password
  BY DEF SettingsInv, Nvrams
<1> HIDE DEF nv
<1>3. Loaded(nv) = [Loaded(nvram) EXCEPT !["psk"] = d]
  BY <1>0, <1>1, <1>2 DEF Loaded, PskLoad, CallsignLoad
<1> QED BY <1>1, <1>3 DEF Fits, SettingsInv, nv

LEMMA WifiFits ==
    ASSUME SettingsInv, NEW key \in {"ssid", "password"},
           NEW w \in Texts, w # NoText, Length[w] <= 64
    PROVE  Fits(key, w)
<1> DEFINE nv == [nvram EXCEPT ![key] = w]
<1>1. nv \in Nvrams /\ nv[key] = w
  BY DEF SettingsInv, Nvrams
<1>2. /\ nv.callsign = nvram.callsign /\ nv.repeater = nvram.repeater /\ nv.beacon = nvram.beacon
      /\ nv.psk = nvram.psk
      /\ key = "ssid" => nv.password = nvram.password
      /\ key = "password" => nv.ssid = nvram.ssid
  BY DEF SettingsInv, Nvrams
<1> HIDE DEF nv
<1>3. WifiLoad(nv[key]) = w
  BY <1>1, LoadedWifi
<1>4. Loaded(nv) = [Loaded(nvram) EXCEPT ![key] = w]
  <2>1. CASE key = "ssid"
    BY <2>1, <1>2, <1>3 DEF Loaded, PskLoad, CallsignLoad
  <2>2. CASE key = "password"
    BY <2>2, <1>2, <1>3 DEF Loaded, PskLoad, CallsignLoad
  <2> QED BY <2>1, <2>2
<1> QED BY <1>1, <1>4 DEF Fits, SettingsInv, nv

\* A stored setting other than the key leaves the key in use as it is.
LEMMA StoreKeepsInv ==
    ASSUME SettingsInv,
           NEW key \in {"callsign", "repeater", "beacon", "ssid", "password"},
           NEW value, NEW acceptable \in BOOLEAN,
           acceptable => Fits(key, value),
           Store(key, acceptable, value), cache' = cache
    PROVE  SettingsInv'
<1>1. nvram' \in Nvrams /\ SettingsKept' /\ PskLoad(nvram') = PskLoad(nvram)
  BY StoreKeeps
<1> QED BY <1>1 DEF SettingsInv

LEMMA SetPskKeeps ==
    ASSUME SettingsInv, NEW k \in Texts, SetPsk(k)
    PROVE  SettingsInv'
<1> DEFINE d == IF k = "None" THEN NoText ELSE HashKey[k]
<1>1. Store("psk", PskAccepted(k), d) /\ cache' = Invalidated(k)
  BY DEF SetPsk
<1>2. Fits("psk", d)
  BY PskFits
<1>3. PskAccepted(k) \in BOOLEAN
  BY DEF PskAccepted
<1> HIDE DEF d
<1>4. nvram' \in Nvrams /\ SettingsKept' /\ (~PskAccepted(k) => PskLoad(nvram') = PskLoad(nvram))
  BY <1>1, <1>2, <1>3, StoreKeeps
<1>5. CASE PskAccepted(k)
  <2>1. cache' \in [valid : BOOLEAN, psk : Texts] /\ ~cache'.valid
    BY <1>1, <1>5 DEF Invalidated, SettingsInv
  <2>2. KeyIsSaved'
    BY <1>4, <2>1, LoadType DEF PskLoad
  <2> QED BY <1>4, <2>1, <2>2 DEF SettingsInv
<1>6. CASE ~PskAccepted(k)
  <2>1. cache' = cache
    BY <1>1, <1>6 DEF Invalidated
  <2> QED BY <1>4, <1>6, <2>1 DEF SettingsInv
<1> QED BY <1>5, <1>6

LEMMA BootKeeps ==
    ASSUME NEW nv \in Nvrams, Loaded(nv) = asked', Boot(nv)
    PROVE  SettingsInv'
<1>1. nvram' = nv /\ cache' = [valid |-> FALSE, psk |-> NoText]
  BY DEF Boot
<1>2. cache' \in [valid : BOOLEAN, psk : Texts] /\ ~cache'.valid
  BY <1>1, TextsAssumption
<1>3. KeyIsSaved'
  BY <1>1, <1>2 DEF PskLoad
<1> QED BY <1>1, <1>2, <1>3 DEF SettingsInv

LEMMA UseKeyKeeps ==
    ASSUME SettingsInv, UseKey
    PROVE  SettingsInv'
<1>1. cache' = Cached /\ nvram' = nvram /\ asked' = asked
  BY DEF UseKey
<1>2. Cached \in [valid : BOOLEAN, psk : Texts] /\ Cached.valid
  <2>1. CASE cache.valid
    BY <2>1 DEF SettingsInv
  <2>2. CASE ~cache.valid
    BY <2>2, LoadType DEF SettingsInv
  <2> QED BY <2>1, <2>2
<1>3. KeyIsSaved'
  <2>1. cache'.valid /\ cache'.psk = PskLoad(nvram)
    BY <1>1, <1>2 DEF SettingsInv
  <2> QED BY <1>1, <2>1
<1>4. SettingsKept'
  BY <1>1 DEF SettingsInv
<1> QED BY <1>1, <1>2, <1>3, <1>4 DEF SettingsInv

\* Each command preserves the invariant of the settings.
LEMMA ExecuteKeeps ==
    ASSUME SettingsInv, NEW c \in Commands, Execute(c)
    PROVE  SettingsInv'
<1>0. c.text \in Texts /\ c.num \in Nat
  BY CommandsAssumption
<1>1. CASE c.op = "callsign" /\ SetCallsign(c.text)
  <2> DEFINE good == c.text \notin ShoutsQ /\ Callsign[c.text] # NoText
  <2>1. Store("callsign", good, Callsign[c.text]) /\ cache' = cache
    BY <1>1 DEF SetCallsign
  <2>2. good => Fits("callsign", Callsign[c.text])
    BY <1>0, CallsignFits
  <2> QED BY <2>1, <2>2, StoreKeepsInv
<1>2. CASE c.op = "repeater" /\ SetRepeater(c.num)
  <2> DEFINE good == c.num \in {0, 1}
  <2>1. Store("repeater", good, c.num) /\ cache' = cache
    BY <1>2 DEF SetRepeater
  <2>2. good \in BOOLEAN /\ (good => Fits("repeater", c.num))
    BY RepeaterFits
  <2> HIDE DEF good
  <2> QED BY <2>1, <2>2, StoreKeepsInv
<1>3. CASE c.op = "beacon" /\ SetBeacon(c.num)
  <2> DEFINE good == c.num \in 2..600
  <2>1. Store("beacon", good, BeaconClamp(c.num)) /\ cache' = cache
    BY <1>3 DEF SetBeacon
  <2>2. good \in BOOLEAN /\ (good => Fits("beacon", BeaconClamp(c.num)))
    BY BeaconFits
  <2> HIDE DEF good
  <2> QED BY <2>1, <2>2, StoreKeepsInv
<1>4. CASE c.op = "hmacpsk" /\ SetPsk(c.text)
  BY <1>0, <1>4, SetPskKeeps
<1>5. CASE c.op \in {"ssid", "password"} /\ SetWifi(c.op, c.text)
  <2> DEFINE good == c.text # NoText /\ Length[c.text] <= 64
  <2>1. Store(c.op, good, c.text) /\ cache' = cache
    BY <1>5 DEF SetWifi
  <2>2. good \in BOOLEAN /\ (good => Fits(c.op, c.text))
    BY <1>0, <1>5, WifiFits
  <2>3. c.op \in {"callsign", "repeater", "beacon", "ssid", "password"}
    BY <1>5
  <2> HIDE DEF good
  <2> QED BY <2>3, <1>5, <2>1, <2>2, StoreKeepsInv
<1>6. CASE c.op = "restart" /\ Boot(nvram) /\ UNCHANGED asked
  <2>1. nvram \in Nvrams /\ Loaded(nvram) = asked'
    BY <1>6 DEF SettingsInv
  <2> QED BY <1>6, <2>1, BootKeeps
<1>7. CASE c.op = "defconfig" /\ Boot(Blank) /\ asked' = Defaults
  BY <1>7, LoadedBlank, BootKeeps
<1>8. CASE c.op = "send" /\ UseKey
  BY <1>8, UseKeyKeeps
<1>9. CASE c.op = "other" /\ Show
  BY <1>9 DEF Show, svars, SettingsInv
<1> QED BY <1>1, <1>2, <1>3, <1>4, <1>5, <1>6, <1>7, <1>8, <1>9 DEF Execute

LEMMA SettingsStepKeeps ==
    ASSUME SettingsInv, SettingsStep
    PROVE  SettingsInv'
<1>1. CASE UseKey
  BY <1>1, UseKeyKeeps
<1>2. CASE \E c \in Commands : Execute(c)
  BY <1>2, ExecuteKeeps
<1>3. CASE Execute(Control("other"))
  BY <1>3 DEF Execute, Control, Show, svars, SettingsInv
<1>4. CASE UNCHANGED svars
  BY <1>4 DEF svars, SettingsInv
<1> QED BY <1>1, <1>2, <1>3, <1>4 DEF SettingsStep

LEMMA SettingsStart ==
    ASSUME SettingsInit
    PROVE  SettingsInv
<1>1. nvram \in Nvrams /\ asked = Loaded(nvram)
  BY StoredAssumption DEF SettingsInit
<1>2. cache \in [valid : BOOLEAN, psk : Texts] /\ ~cache.valid
  BY TextsAssumption DEF SettingsInit
<1> QED BY <1>1, <1>2 DEF SettingsInv

-----------------------------------------------------------------------------
(* The terminal: its steps change the settings in these ways only *)

LEMMA CommandIsKnown == Command \in Commands \cup {Control("other")}
  BY DEF Command

LEMMA ReadIsSettingsStep ==
    ASSUME Read
    PROVE  SettingsStep
<1>1. PICK k \in Keys : CliType(k)
  BY DEF Read, Typeable
<1>2. CASE iac = 0 /\ k = Enter
  <2>1. CliEnter
    BY <1>1, <1>2 DEF CliType
  <2>2. UNCHANGED svars \/ Execute(Command)
    BY <2>1 DEF CliEnter
  <2> QED BY <2>2, CommandIsKnown DEF SettingsStep
<1>3. CASE ~(iac = 0 /\ k = Enter)
  BY <1>1, <1>3 DEF CliType, SettingsStep
<1> QED BY <1>2, <1>3

LEMMA SettingsSteps ==
    ASSUME [Next]_vars
    PROVE  SettingsStep
<1>1. CASE WifiStep
  BY <1>1 DEF WifiStep, SettingsStep
<1>2. CASE Drop
  BY <1>2 DEF Drop, SettingsStep
<1>3. CASE Accept
  BY <1>3 DEF Accept, SettingsStep
<1>4. CASE Serve
  BY <1>4, ReadIsSettingsStep DEF Serve, SettingsStep
<1>5. CASE Send
  BY <1>5 DEF Send, SettingsStep
<1>6. CASE Serial
  BY <1>6, ReadIsSettingsStep DEF Serial, SettingsStep
<1>7. CASE Run
  BY <1>7 DEF Run, Show, SettingsStep
<1>8. CASE Elapse \/ Link \/ Arrive \/ Close
  BY <1>8 DEF Elapse, Link, Arrive, Close, Outside, SettingsStep
<1>9. CASE UNCHANGED vars
  BY <1>9 DEF vars, SettingsStep
<1>10. CASE Drain
  BY <1>10 DEF Drain, SettingsStep
<1> QED BY <1>1, <1>2, <1>3, <1>4, <1>5, <1>6, <1>7, <1>8, <1>9, <1>10 DEF Next, Loop

\* Whatever is typed at the serial port and over Telnet, in any order: what the
\* operators set is what the station loads.
THEOREM SettingsAreKept == Spec => []SettingsKept
<1>1. Init => SettingsInv
  BY SettingsStart DEF Init
<1>2. SettingsInv /\ [Next]_vars => SettingsInv'
  BY SettingsSteps, SettingsStepKeeps
<1>3. SettingsInv => SettingsKept
  BY DEF SettingsInv
<1> QED BY <1>1, <1>2, <1>3, PTL DEF Spec

\* The cached key is never another one than the key in NVRAM.
THEOREM SavedKeyIsUsed == Spec => []KeyIsSaved
<1>1. Init => SettingsInv
  BY SettingsStart DEF Init
<1>2. SettingsInv /\ [Next]_vars => SettingsInv'
  BY SettingsSteps, SettingsStepKeeps
<1>3. SettingsInv => KeyIsSaved
  BY DEF SettingsInv
<1> QED BY <1>1, <1>2, <1>3, PTL DEF Spec

-----------------------------------------------------------------------------
(* Telnet sessions *)

\* What makes the two invariants of a session inductive: the step that finds the
\* network gone also stops the client, so that the next one ends the session.
SessionInv ==
    /\ OwnOutput
    /\ telnet /\ wifi # 3 => at = "drop" /\ client # "open"

\* A step of the command line, or of the tasks, that may print.
LEMMA PrintingKeeps ==
    ASSUME SessionInv, at # "drop", MayPrint, UNCHANGED <<wvars, telnet>>
    PROVE  SessionInv'
<1>1. telnet => wifi = 3 /\ telnetOut \subseteq {session}
  BY DEF SessionInv, OwnOutput
<1>2. wifi' = wifi /\ telnet' = telnet /\ session' = session
  BY DEF wvars
<1>3. telnet => telnetOut' \subseteq {session}
  BY <1>1 DEF MayPrint, PlatformPrint, Quiet
<1> QED BY <1>1, <1>2, <1>3 DEF SessionInv, OwnOutput

\* So does reading a key, unless the station restarts and the session is lost.
LEMMA ReadKeeps ==
    ASSUME SessionInv, at # "drop", Read
    PROVE  SessionInv'
<1>1. PICK k \in Keys : CliType(k)
  BY DEF Read, Typeable
<1>2. CASE MayPrint /\ UNCHANGED <<wvars, telnet>>
  BY <1>2, PrintingKeeps
<1>3. CASE TerminalBoot(nvram')
  BY <1>3 DEF TerminalBoot, SessionInv, OwnOutput
<1> QED BY <1>1, <1>2, <1>3 DEF CliType, CliEnter

LEMMA QuietKeeps ==
    ASSUME SessionInv, at # "drop", Quiet, UNCHANGED <<wvars, telnet>>
    PROVE  SessionInv'
  BY PrintingKeeps DEF MayPrint

\* The outside world changes neither the session nor what it is sent.
LEMMA OutsideKeeps ==
    ASSUME SessionInv, Outside, session' = session, client' \in {client, "closed"}
    PROVE  SessionInv'
  BY DEF SessionInv, OwnOutput, Outside, Quiet

LEMMA SessionSteps ==
    ASSUME SessionInv, [Next]_vars
    PROVE  SessionInv'
<1>1. CASE WifiStep
  <2>1. /\ at = "wifi" /\ at' = "drop"
        /\ telnet' = telnet /\ session' = session /\ telnetOut' = telnetOut
    BY <1>1 DEF WifiStep, Quiet, Go, Then
  <2>2. telnet => wifi = 3
    BY <2>1 DEF SessionInv
  <2>3. CASE Down
    BY <2>1, <2>3 DEF Down, Stopped, SessionInv, OwnOutput
  <2>4. CASE Steady
    BY <2>1, <2>2, <2>4 DEF Steady, SessionInv, OwnOutput
  <2>5. CASE Connect \/ Up \/ Fail
    <3>1. wifi # 3
      BY <2>5 DEF Connect, Up, Fail, Connected
    <3> QED BY <2>1, <2>2, <3>1 DEF SessionInv, OwnOutput
  <2> QED BY <1>1, <2>3, <2>4, <2>5 DEF WifiStep
<1>2. CASE Drop
  <2>1. wifi' = wifi /\ session' = session /\ client' = client
    BY <1>2 DEF Drop, wvars
  <2>2. CASE Finished
    BY <1>2, <2>2 DEF Drop, SessionInv, OwnOutput
  <2>3. CASE ~Finished
    BY <1>2, <2>1, <2>3 DEF Drop, Finished, Quiet, SessionInv, OwnOutput
  <2> QED BY <2>2, <2>3
<1>3. CASE Accept
  <2>1. wifi' = wifi
    BY <1>3 DEF Accept
  <2>2. CASE ~telnet /\ wifi = 3 /\ arriving
    BY <1>3, <2>1, <2>2 DEF Accept, Emptied, SessionInv, OwnOutput
  <2>3. CASE ~(~telnet /\ wifi = 3 /\ arriving)
    BY <1>3, <2>1, <2>3 DEF Accept, Quiet, SessionInv, OwnOutput
  <2> QED BY <2>2, <2>3
<1>4. CASE Serve
  BY <1>4, ReadKeeps, QuietKeeps DEF Serve
<1>5. CASE Send
  <2>1. wifi' = wifi /\ session' = session /\ client' = client /\ telnet' = telnet
    BY <1>5 DEF Send, wvars
  <2>2. telnetOut' \subseteq telnetOut /\ at = "send"
    BY <1>5 DEF Send
  <2> QED BY <2>1, <2>2 DEF SessionInv, OwnOutput
<1>6. CASE Serial
  BY <1>6, ReadKeeps, QuietKeeps DEF Serial
<1>7. CASE Run
  BY <1>7, PrintingKeeps DEF Run
<1>8. CASE Elapse \/ Link \/ Arrive \/ Close
  BY <1>8, OutsideKeeps DEF Elapse, Link, Arrive, Close
<1>9. CASE Drain
  BY <1>9 DEF Drain, wvars, SessionInv, OwnOutput
<1>10. CASE UNCHANGED vars
  BY <1>10 DEF vars, tvars, wvars, SessionInv, OwnOutput
<1> QED BY <1>1, <1>2, <1>3, <1>4, <1>5, <1>6, <1>7, <1>8, <1>9, <1>10 DEF Next, Loop

LEMMA SessionStart ==
    ASSUME Init
    PROVE  SessionInv
  BY DEF Init, SessionInv, OwnOutput

\* However sessions end and begin, none is sent the output of another.
THEOREM SessionsOwnOutput == Spec => []OwnOutput
<1>1. Init => SessionInv
  BY SessionStart
<1>2. SessionInv /\ [Next]_vars => SessionInv'
  BY SessionSteps
<1>3. SessionInv => OwnOutput
  BY DEF SessionInv
<1> QED BY <1>1, <1>2, <1>3, PTL DEF Spec

\* Whenever the network goes, the session goes with it.
THEOREM SessionsNeedWifi == Spec => []SessionNeedsWifi
<1>1. Init => SessionInv
  BY SessionStart
<1>2. SessionInv /\ [Next]_vars => SessionInv'
  BY SessionSteps
<1>3. SessionInv => SessionNeedsWifi
  BY DEF SessionInv, SessionNeedsWifi
<1> QED BY <1>1, <1>2, <1>3, PTL DEF Spec

-----------------------------------------------------------------------------
(* Types *)

\* TypeOK is inductive with what is known of the settings, and with two facts
\* about sessions: one that is open was counted, and one that waits will be.
TermInv ==
    /\ SettingsInv /\ TypeOK
    /\ telnet => session >= 1
    /\ arriving => session < MaxSessions

LEMMA CallsignLoads ==
    ASSUME NEW nv \in Nvrams
    PROVE  CallsignLoad(nv) \in Texts
  BY TextsAssumption DEF CallsignLoad, GetString, Nvrams

\* The name of the station and its role change at a restart only.
LEMMA NameKeeps ==
    ASSUME SettingsInv, me \in Texts, repeater \in BOOLEAN, SettingsStep
    PROVE  me' \in Texts /\ repeater' \in BOOLEAN
<1>1. ASSUME NEW nv \in Nvrams, Boot(nv) PROVE me' \in Texts /\ repeater' \in BOOLEAN
  BY <1>1, CallsignLoads DEF Boot
<1>2. nvram \in Nvrams /\ Blank \in Nvrams
  BY LoadedBlank DEF SettingsInv
<1>3. ASSUME NEW c, Execute(c) PROVE me' \in Texts /\ repeater' \in BOOLEAN
  BY <1>1, <1>2, <1>3
  DEF Execute, SetCallsign, SetRepeater, SetBeacon, SetPsk, SetWifi, UseKey, Show, svars
<1>4. CASE UseKey \/ UNCHANGED svars
  BY <1>4 DEF UseKey, svars
<1> QED BY <1>3, <1>4 DEF SettingsStep

LEMMA SettingsTypes ==
    ASSUME TermInv, SettingsStep
    PROVE  SettingsInv' /\ SettingsTypeOK'
<1>1. SettingsInv' /\ me' \in Texts /\ repeater' \in BOOLEAN
  BY SettingsStepKeeps, NameKeeps DEF TermInv, TypeOK, SettingsTypeOK
<1> QED BY <1>1 DEF SettingsInv, SettingsTypeOK

LEMMA SeqShorter ==
    ASSUME NEW S, NEW q \in Seq(S)
    PROVE  SubSeq(q, 1, Len(q) - 1) \in Seq(S)
  OBVIOUS

LEMMA TypedType ==
    ASSUME NEW k \in Keys, line \in Seq(Keys), iac \in 0..2
    PROVE  Typed(k).line \in Seq(Keys) /\ Typed(k).iac \in 0..2
<1>1. /\ Append(line, k) \in Seq(Keys)
      /\ SubSeq(line, 1, Len(line) - 1) \in Seq(Keys)
  BY SeqShorter
<1> DEFINE shorter == SubSeq(line, 1, Len(line) - 1)
           longer == Append(line, k)
           full == Len(line) > LineMax
<1>2. Typed(k) = CASE iac = 2 /\ k = Iac -> [line |-> longer, iac |-> 0]
                   [] iac = 2 /\ k # Iac -> [line |-> line, iac |-> 1]
                   [] iac = 1             -> [line |-> line, iac |-> 0]
                   [] iac = 0 /\ k = Iac -> [line |-> line, iac |-> 2]
                   [] iac = 0 /\ k = Erase -> [line |-> shorter, iac |-> 0]
                   [] iac = 0 /\ (k = Ignored \/ full) -> [line |-> line, iac |-> 0]
                   [] OTHER -> [line |-> longer, iac |-> 0]
  BY DEF Typed
<1>3. longer \in Seq(Keys) /\ shorter \in Seq(Keys)
  BY <1>1
<1> HIDE DEF shorter, longer, full
<1>4. Typed(k) \in {[line |-> l, iac |-> i] : l \in {line, longer, shorter}, i \in {0, 1, 2}}
  BY <1>2
<1> QED BY <1>3, <1>4

\* What the terminal writes.
LEMMA ConsoleOutType ==
    ASSUME serialOut \in Seq(Messages)
    PROVE  ConsoleOut \in Seq(Messages)
  BY DEF ConsoleOut, Messages

LEMMA PrintType ==
    ASSUME TermInv, MayPrint \/ Quiet
    PROVE  serialOut' \in Seq(Messages) /\ telnetOut' \subseteq 1..session
<1>1. /\ telnetOut \subseteq 1..session /\ session \in Nat
      /\ telnet => session \in 1..session
      /\ serialOut \in Seq(Messages)
  BY TerminalAssumption DEF TermInv, TypeOK
<1> QED BY <1>1, ConsoleOutType DEF MayPrint, PlatformPrint, Quiet

LEMMA ToSerialType ==
    ASSUME serialOut \in Seq(Messages), NEW m \in Messages, ToSerial(m)
    PROVE  serialOut' \in Seq(Messages)
  BY DEF ToSerial

LEMMA DrainType ==
    ASSUME serialOut \in Seq(Messages), told \in BOOLEAN, Drain
    PROVE  serialOut' \in Seq(Messages) /\ told' \in BOOLEAN
<1>1. PICK n \in 0..Len(serialOut) :
        told' = Tells(n) /\ serialOut' = SubSeq(serialOut, n + 1, Len(serialOut))
  BY DEF Drain
<1>2. Tells(n) \in BOOLEAN
  BY DEF Tells
<1> QED BY <1>1, <1>2

LEMMA GoType ==
    ASSUME at \in DOMAIN Then, Go
    PROVE  at' \in DOMAIN Then
  BY DEF Go, Then

LEMMA TypedKeepsType ==
    ASSUME TermInv, Read
    PROVE  TermInv'
<1>1. PICK k \in Keys : CliType(k) /\ keys < MaxKeys /\ keys' = keys + 1
  BY DEF Read, Typeable
<1>2. SettingsInv' /\ SettingsTypeOK' /\ keys' \in 0..MaxKeys
  BY <1>1, ReadIsSettingsStep, SettingsTypes, TerminalAssumption DEF TermInv, TypeOK
<1>3. ASSUME MayPrint, Go, UNCHANGED <<wvars, telnet, told>>, line' \in Seq(Keys), iac' \in 0..2
      PROVE  TermInv'
  <2>1. at' \in DOMAIN Then
    BY <1>3, GoType DEF TermInv, TypeOK
  <2>2. serialOut' \in Seq(Messages) /\ telnetOut' \subseteq 1..session
    BY <1>3, PrintType
  <2> QED BY <1>2, <1>3, <2>1, <2>2 DEF TermInv, TypeOK, wvars
<1>4. ASSUME TerminalBoot(nvram')
      PROVE  TermInv'
  <2>1. /\ at' = "wifi" /\ wifi' \in {0, 1} /\ elapsed' = FALSE /\ client' = "none"
        /\ telnet' = FALSE /\ arriving' = FALSE
        /\ serialOut' = <<"console">> /\ told' = FALSE /\ telnetOut' = {}
        /\ line' = <<>> /\ iac' = 0 /\ link' = link /\ session' = session
    BY <1>4 DEF TerminalBoot
  <2>2. session' \in 0..MaxSessions /\ link' \in BOOLEAN /\ wifi' \in 0..3
    BY <2>1 DEF TermInv, TypeOK
  <2>3. at' \in DOMAIN Then /\ line' \in Seq(Keys) /\ iac' \in 0..2
    BY <2>1 DEF Then
  <2>4. serialOut' \in Seq(Messages)
    BY <2>1 DEF Messages
  <2>5. told' \in BOOLEAN
    BY <2>1
  <2>6. TypeOK'
    BY <1>2, <2>1, <2>2, <2>3, <2>4, <2>5 DEF TypeOK
  <2> QED BY <1>2, <2>1, <2>6 DEF TermInv
<1>5. line \in Seq(Keys) /\ iac \in 0..2
  BY DEF TermInv, TypeOK
<1>6. CASE iac = 0 /\ k = Enter
  <2>1. CliEnter
    BY <1>1, <1>6 DEF CliType
  <2>2. \/ MayPrint /\ Go /\ UNCHANGED <<wvars, telnet, told>> /\ line' \in Seq(Keys) /\ iac' \in 0..2
        \/ TerminalBoot(nvram')
    <3>1. <<>> \in Seq(Keys)
      OBVIOUS
    <3>2. CASE line = <<>>
      <4>1. MayPrint /\ Go /\ UNCHANGED <<wvars, telnet, told>> /\ line' = line /\ iac' = iac
        BY <2>1, <3>2 DEF CliEnter
      <4> QED BY <1>5, <4>1
    <3>3. CASE line # <<>>
      <4>1. \/ TerminalBoot(nvram')
            \/ MayPrint /\ Go /\ UNCHANGED <<wvars, telnet, told>> /\ line' = <<>> /\ iac' = iac
        BY <2>1, <3>3 DEF CliEnter
      <4> QED BY <1>5, <3>1, <4>1
    <3> QED BY <3>2, <3>3
  <2> QED BY <1>3, <1>4, <2>2
<1>7. CASE ~(iac = 0 /\ k = Enter)
  BY <1>1, <1>3, <1>5, <1>7, TypedType DEF CliType
<1> QED BY <1>6, <1>7

\* A step that reads no key.
LEMMA OtherKeepsType ==
    ASSUME TermInv, [Next]_vars, UNCHANGED cvars,
           at' \in DOMAIN Then,
           wifi' \in 0..3, elapsed' \in BOOLEAN, link' \in BOOLEAN,
           client' \in {"none", "open", "closed"}, arriving' \in BOOLEAN, telnet' \in BOOLEAN,
           serialOut' \in Seq(Messages), told' \in BOOLEAN, telnetOut' \subseteq 1..session',
           session' \in 0..MaxSessions,
           telnet' => session' >= 1,
           arriving' => session' < MaxSessions
    PROVE  TermInv'
<1>1. SettingsInv' /\ SettingsTypeOK'
  BY SettingsSteps, SettingsTypes
<1> QED BY <1>1 DEF TermInv, TypeOK, cvars

LEMMA TermStep ==
    ASSUME TermInv, [Next]_vars
    PROVE  TermInv'
<1>1. /\ at \in DOMAIN Then /\ wifi \in 0..3 /\ elapsed \in BOOLEAN /\ link \in BOOLEAN
      /\ client \in {"none", "open", "closed"} /\ arriving \in BOOLEAN /\ telnet \in BOOLEAN
      /\ serialOut \in Seq(Messages) /\ told \in BOOLEAN /\ telnetOut \subseteq 1..session
      /\ session \in 0..MaxSessions /\ MaxSessions \in Nat
      /\ telnet => session >= 1
      /\ arriving => session < MaxSessions
  BY TerminalAssumption DEF TermInv, TypeOK
<1>2. CASE WifiStep
  <2>1. /\ at' \in DOMAIN Then
        /\ UNCHANGED <<link, arriving, session, telnet, serialOut, told, telnetOut, cvars>>
    BY <1>1, <1>2, GoType DEF WifiStep, Quiet
  <2>2. /\ wifi' \in 0..3 /\ elapsed' \in BOOLEAN /\ client' \in {"none", "open", "closed"}
    <3>1. CASE Connect
      <4>1. elapsed' \in BOOLEAN
        BY <3>1 DEF Connect
      <4>2. wifi' \in 0..3 /\ client' \in {"none", "open", "closed"}
        BY <1>1, <3>1 DEF Connect
      <4> QED BY <4>1, <4>2
    <3>2. CASE Up
      BY <1>1, <3>2 DEF Up
    <3>3. CASE Fail
      <4>1. elapsed' \in BOOLEAN
        BY <3>3 DEF Fail
      <4>2. wifi' \in 0..3 /\ client' \in {"none", "open", "closed"}
        BY <1>1, <3>3 DEF Fail
      <4> QED BY <4>1, <4>2
    <3>4. CASE Down
      <4>1. elapsed' \in BOOLEAN
        BY <3>4 DEF Down
      <4>2. wifi' \in 0..3 /\ client' \in {"none", "open", "closed"}
        BY <1>1, <3>4 DEF Down, Stopped
      <4> QED BY <4>1, <4>2
    <3>5. CASE Steady
      BY <1>1, <3>5 DEF Steady
    <3> QED BY <1>2, <3>1, <3>2, <3>3, <3>4, <3>5 DEF WifiStep
  <2> QED BY <1>1, <2>1, <2>2, OtherKeepsType
<1>3. CASE Drop
  <2>1. /\ at' \in DOMAIN Then
        /\ UNCHANGED <<wifi, elapsed, link, client, arriving, session, told, cvars>>
    BY <1>1, <1>3, GoType DEF Drop, wvars
  <2>2. /\ telnet' \in BOOLEAN /\ (telnet' => telnet)
        /\ serialOut' \in Seq(Messages) /\ telnetOut' \subseteq 1..session
    BY <1>1, <1>3, ToSerialType DEF Drop, Quiet, Emptied, Messages
  <2> QED BY <1>1, <2>1, <2>2, OtherKeepsType
<1>4. CASE Accept
  <2>1. at' \in DOMAIN Then /\ UNCHANGED <<wifi, elapsed, link, told, cvars>>
    BY <1>1, <1>4, GoType DEF Accept
  <2>2. CASE ~telnet /\ wifi = 3 /\ arriving
    <3>1. /\ telnet' = TRUE /\ client' = "open" /\ arriving' = FALSE /\ session' = session + 1
          /\ telnetOut' = {} /\ serialOut' \in Seq(Messages)
      BY <1>1, <1>4, <2>2, ToSerialType DEF Accept, Emptied, Messages
    <3>2. session' \in 0..MaxSessions /\ session' >= 1
      BY <1>1, <2>2, <3>1
    <3> QED BY <1>1, <2>1, <3>1, <3>2, OtherKeepsType
  <2>3. CASE ~(~telnet /\ wifi = 3 /\ arriving)
    <3>1. /\ client' \in {"none", "open", "closed"}
          /\ UNCHANGED <<serialOut, telnetOut, telnet, arriving, session>>
      BY <1>1, <1>4, <2>3 DEF Accept, Quiet
    <3> QED BY <1>1, <2>1, <3>1, OtherKeepsType
  <2> QED BY <2>2, <2>3
<1>5. ASSUME Go, MayPrint \/ Quiet, UNCHANGED <<wvars, telnet, told, cvars>>
      PROVE  TermInv'
  <2>1. /\ at' \in DOMAIN Then
        /\ UNCHANGED <<wifi, elapsed, link, client, arriving, session, telnet>>
    BY <1>1, <1>5, GoType DEF wvars
  <2>2. serialOut' \in Seq(Messages) /\ telnetOut' \subseteq 1..session
    BY <1>5, PrintType
  <2> QED BY <1>1, <1>5, <2>1, <2>2, OtherKeepsType
<1>6. CASE Serve
  BY <1>5, <1>6, TypedKeepsType DEF Serve
<1>7. CASE Send
  <2>1. /\ at' \in DOMAIN Then /\ telnetOut' \subseteq telnetOut
        /\ UNCHANGED <<wifi, elapsed, link, client, arriving, session, telnet, serialOut, told, cvars>>
    BY <1>1, <1>7, GoType DEF Send, wvars
  <2> QED BY <1>1, <2>1, OtherKeepsType
<1>8. CASE Serial
  BY <1>5, <1>8, TypedKeepsType DEF Serial
<1>9. CASE Run
  BY <1>5, <1>9 DEF Run
<1>10. CASE Elapse \/ Link \/ Arrive \/ Close
  <2>1. UNCHANGED <<at, wifi, telnet, cvars, serialOut, told, telnetOut, session>>
    BY <1>10 DEF Elapse, Link, Arrive, Close, Outside, Quiet
  <2>2. /\ elapsed' \in BOOLEAN /\ link' \in BOOLEAN /\ arriving' \in BOOLEAN
        /\ client' \in {"none", "open", "closed"} /\ (arriving' => session < MaxSessions)
    <3>1. CASE Elapse
      BY <1>1, <3>1 DEF Elapse
    <3>2. CASE Link
      <4>1. link' = ~link /\ UNCHANGED <<elapsed, client, arriving>>
        BY <3>2 DEF Link
      <4>2. link' \in BOOLEAN
        BY <4>1
      <4> QED BY <1>1, <4>1, <4>2
    <3>3. CASE Arrive
      BY <1>1, <3>3 DEF Arrive
    <3>4. CASE Close
      BY <1>1, <3>4 DEF Close
    <3> QED BY <1>10, <3>1, <3>2, <3>3, <3>4
  <2> QED BY <1>1, <2>1, <2>2, OtherKeepsType
<1>11. CASE Drain
  <2>1. /\ at' \in DOMAIN Then
        /\ UNCHANGED <<wifi, elapsed, link, client, arriving, session, telnet, telnetOut, cvars>>
    BY <1>1, <1>11, GoType DEF Drain, wvars
  <2>2. serialOut' \in Seq(Messages) /\ told' \in BOOLEAN
    BY <1>1, <1>11, DrainType
  <2> QED BY <1>1, <2>1, <2>2, OtherKeepsType
<1>12. CASE UNCHANGED vars
  BY <1>1, <1>12, OtherKeepsType DEF vars, tvars, wvars, cvars
<1> QED
  BY <1>2, <1>3, <1>4, <1>6, <1>7, <1>8, <1>9, <1>10, <1>11, <1>12 DEF Next, Loop

LEMMA TermStart ==
    ASSUME Init
    PROVE  TermInv
<1>1. SettingsInv
  BY SettingsStart DEF Init
<1>2. SettingsTypeOK
  BY <1>1, CallsignLoads DEF Init, SettingsInit, SettingsTypeOK, SettingsInv
<1>3. /\ at = "wifi" /\ wifi \in {0, 1} /\ elapsed = FALSE /\ link = FALSE /\ client = "none"
      /\ arriving = FALSE /\ telnet = FALSE /\ session = 0
      /\ serialOut = <<"console">> /\ told = FALSE /\ telnetOut = {}
      /\ line = <<>> /\ iac = 0 /\ keys = 0
  BY DEF Init
<1>4. at \in DOMAIN Then /\ line \in Seq(Keys) /\ serialOut \in Seq(Messages)
  BY <1>3 DEF Then, Messages
<1>5. told \in BOOLEAN /\ elapsed \in BOOLEAN /\ link \in BOOLEAN /\ arriving \in BOOLEAN /\ telnet \in BOOLEAN
  BY <1>3
<1>6. /\ wifi \in 0..3 /\ client \in {"none", "open", "closed"} /\ session \in 0..MaxSessions
      /\ telnetOut \subseteq 1..session
      /\ iac \in 0..2 /\ keys \in 0..MaxKeys
  BY <1>3, TerminalAssumption
<1>7. TypeOK
  BY <1>2, <1>4, <1>5, <1>6 DEF TypeOK
<1> QED BY <1>1, <1>3, <1>7 DEF TermInv

\* Types: among others the command line holds keys only, whatever a negotiation
\* or an erasure did to it, and the buffer of the session only what was written
\* for a session that began.
THEOREM TerminalTypeCorrect == Spec => []TypeOK
<1>1. Init => TermInv
  BY TermStart
<1>2. TermInv /\ [Next]_vars => TermInv'
  BY TermStep
<1>3. TermInv => TypeOK
  BY DEF TermInv
<1> QED BY <1>1, <1>2, <1>3, PTL DEF Spec

-----------------------------------------------------------------------------
(* What the serial port says *)

LEMMA MessageAdded ==
    ASSUME serialOut \in Seq(Messages), NEW m \in Messages, ToSerial(m),
           told \in BOOLEAN, told' = told, SerialSaysWho,
           telnet => m = "disconnected",
           telnet' <=> m = "connected"
    PROVE  SerialSaysWho'
<1>1. PICK last \in Nat : last = Len(serialOut)
  OBVIOUS
<1>2. /\ Len(serialOut') = last + 1 /\ serialOut'[last + 1] = m
      /\ \A i \in 1..last : serialOut'[i] = serialOut[i]
  BY <1>1 DEF ToSerial
<1>3. \A i \in 0..last : Tells(i)' <=> Tells(i)
  BY <1>1, <1>2 DEF Tells
<1>4. ASSUME NEW i \in 0..last, Tells(i)'
      PROVE  serialOut'[i + 1] = "disconnected"
  <2>1. CASE i = last
    <3>1. Tells(last)
      BY <1>3, <1>4, <2>1
    <3>2. telnet
      BY <1>1, <3>1 DEF SerialSaysWho
    <3> QED BY <1>2, <2>1, <3>2
  <2>2. CASE i # last
    <3>1. i \in 0..last - 1 /\ i + 1 \in 1..last
      BY <1>1, <2>2
    <3>2. serialOut[i + 1] = "disconnected"
      BY <1>1, <1>3, <1>4, <3>1 DEF SerialSaysWho
    <3> QED BY <1>2, <3>1, <3>2
  <2> QED BY <2>1, <2>2
<1>5. telnet' <=> Tells(Len(serialOut))'
  BY <1>2 DEF Tells
<1>6. \A i \in 0..Len(serialOut') - 1 : Tells(i)' => serialOut'[i + 1] = "disconnected"
  <2>1. Len(serialOut') - 1 = last
    BY <1>2
  <2> QED BY <1>4, <2>1
<1> QED BY <1>5, <1>6 DEF SerialSaysWho

\* A run of console output that goes on, or begins; there is no session.
LEMMA PrintingTells ==
    ASSUME serialOut \in Seq(Messages), told \in BOOLEAN, MayPrint,
           UNCHANGED <<telnet, told>>, SerialSaysWho
    PROVE  SerialSaysWho'
<1>1. CASE UNCHANGED serialOut
  BY <1>1 DEF SerialSaysWho, Tells
<1>2. CASE ~telnet /\ serialOut' = ConsoleOut
  <2>1. UNCHANGED serialOut \/ ToSerial("console")
    BY <1>2 DEF ConsoleOut, ToSerial
  <2>2. CASE ToSerial("console")
    BY <1>2, <2>2, MessageAdded DEF Messages
  <2> QED BY <1>1, <2>1, <2>2
<1> QED BY <1>1, <1>2 DEF MayPrint, PlatformPrint, Quiet

LEMMA ReadingTells ==
    ASSUME serialOut \in Seq(Messages), told \in BOOLEAN, Read, SerialSaysWho
    PROVE  SerialSaysWho'
<1>1. PICK k \in Keys : CliType(k)
  BY DEF Read, Typeable
<1>2. CASE MayPrint /\ UNCHANGED <<telnet, told>>
  BY <1>2, PrintingTells
<1>3. CASE TerminalBoot(nvram')
  <2>1. telnet' = FALSE /\ told' = FALSE /\ serialOut' = <<"console">>
    BY <1>3 DEF TerminalBoot
  <2>2. Len(serialOut') = 1 /\ serialOut'[1] = "console"
    BY <2>1
  <2>3. ~Tells(0)' /\ ~Tells(1)'
    BY <2>1, <2>2 DEF Tells
  <2> QED BY <2>1, <2>2, <2>3 DEF SerialSaysWho
<1> QED BY <1>1, <1>2, <1>3 DEF CliType, CliEnter

\* What is said leaves the front of the buffer; the order of the rest stays.
LEMMA DrainingTells ==
    ASSUME serialOut \in Seq(Messages), told \in BOOLEAN, Drain, SerialSaysWho
    PROVE  SerialSaysWho'
<1>1. PICK last \in Nat : last = Len(serialOut)
  OBVIOUS
<1>2. PICK n \in 0..last : told' = Tells(n) /\ serialOut' = SubSeq(serialOut, n + 1, last)
  BY <1>1 DEF Drain
<1>3. /\ Len(serialOut') = last - n
      /\ \A i \in 1..last - n : serialOut'[i] = serialOut[i + n]
  BY <1>1, <1>2
<1>4. telnet' = telnet
  BY DEF Drain
<1>5. ASSUME NEW i \in 0..last - n
      PROVE  Tells(i)' <=> Tells(i + n)
  <2>1. CASE i = 0
    <3>1. i + n = n
      BY <2>1
    <3>2. Tells(i)' <=> told'
      BY <2>1 DEF Tells
    <3> QED BY <1>2, <3>1, <3>2
  <2>2. CASE i # 0
    <3>1. i \in 1..last - n /\ i + n # 0
      BY <2>2
    <3>2. serialOut'[i] = serialOut[i + n]
      BY <1>3, <3>1
    <3> QED BY <2>2, <3>1, <3>2 DEF Tells
  <2> QED BY <2>1, <2>2
<1>6. telnet' <=> Tells(Len(serialOut))'
  <2>1. PICK rest \in Nat : rest = last - n /\ rest \in 0..last - n /\ rest + n = last
    BY <1>1
  <2>2. Tells(rest)' <=> Tells(last)
    BY <1>5, <2>1
  <2>3. telnet <=> Tells(last)
    BY <1>1 DEF SerialSaysWho
  <2>4. Tells(Len(serialOut))' <=> Tells(rest)'
    BY <1>3, <2>1 DEF Tells
  <2> QED BY <1>4, <2>2, <2>3, <2>4
<1>7. ASSUME NEW i \in 0..(last - n) - 1, Tells(i)'
      PROVE  serialOut'[i + 1] = "disconnected"
  <2>1. /\ i \in 0..last - n /\ i + n \in 0..last - 1
        /\ i + 1 \in 1..last - n /\ (i + 1) + n = (i + n) + 1
    OBVIOUS
  <2>2. Tells(i + n)
    BY <1>5, <1>7, <2>1
  <2>3. serialOut[(i + n) + 1] = "disconnected"
    BY <1>1, <2>1, <2>2 DEF SerialSaysWho
  <2> QED BY <1>3, <2>1, <2>3
<1>8. \A i \in 0..Len(serialOut') - 1 : Tells(i)' => serialOut'[i + 1] = "disconnected"
  BY <1>3, <1>7
<1> QED BY <1>6, <1>8 DEF SerialSaysWho

LEMMA SaysStep ==
    ASSUME TermInv, SerialSaysWho, [Next]_vars
    PROVE  SerialSaysWho'
<1>1. serialOut \in Seq(Messages) /\ told \in BOOLEAN
  BY DEF TermInv, TypeOK
<1>2. ASSUME UNCHANGED <<telnet, told, serialOut>>
      PROVE  SerialSaysWho'
  BY <1>2 DEF SerialSaysWho, Tells
<1>3. CASE WifiStep \/ Send \/ Elapse \/ Link \/ Arrive \/ Close \/ UNCHANGED vars
  <2>1. UNCHANGED <<telnet, told, serialOut>>
    BY <1>3 DEF WifiStep, Send, Elapse, Link, Arrive, Close, Outside, Quiet, vars, tvars
  <2> QED BY <1>2, <2>1
<1>4. CASE Drop
  <2>1. CASE Finished
    <3>1. /\ telnet /\ telnet' = FALSE /\ told' = told
          /\ ToSerial("disconnected") /\ "disconnected" \in Messages
      BY <1>4, <2>1 DEF Drop, Finished, Messages
    <3> QED BY <1>1, <3>1, MessageAdded
  <2>2. CASE ~Finished
    BY <1>2, <1>4, <2>2 DEF Drop, Quiet
  <2> QED BY <2>1, <2>2
<1>5. CASE Accept
  <2>1. CASE ~telnet /\ wifi = 3 /\ arriving
    <3>1. /\ ~telnet /\ telnet' = TRUE /\ told' = told
          /\ ToSerial("connected") /\ "connected" \in Messages
      BY <1>5, <2>1 DEF Accept, Messages
    <3> QED BY <1>1, <3>1, MessageAdded
  <2>2. CASE ~(~telnet /\ wifi = 3 /\ arriving)
    BY <1>2, <1>5, <2>2 DEF Accept, Quiet
  <2> QED BY <2>1, <2>2
<1>6. CASE Serve
  BY <1>1, <1>2, <1>6, ReadingTells DEF Serve, Quiet
<1>7. CASE Serial
  BY <1>1, <1>2, <1>7, ReadingTells DEF Serial, Quiet
<1>8. CASE Drain
  BY <1>1, <1>8, DrainingTells
<1>9. CASE Run
  BY <1>1, <1>9, PrintingTells DEF Run
<1> QED BY <1>3, <1>4, <1>5, <1>6, <1>7, <1>8, <1>9 DEF Next, Loop

LEMMA SaysStart ==
    ASSUME Init
    PROVE  SerialSaysWho
<1>1. telnet = FALSE /\ told = FALSE /\ serialOut = <<"console">>
  BY DEF Init
<1>2. Len(serialOut) = 1 /\ serialOut[1] = "console"
  BY <1>1
<1>3. ~Tells(0) /\ ~Tells(1)
  BY <1>1, <1>2 DEF Tells
<1> QED BY <1>1, <1>2, <1>3 DEF SerialSaysWho

\* However slowly the serial port takes its output, and whatever was waiting when a
\* session began: between the message that a client is connected and the one that
\* it is disconnected the port says nothing of the console, and the last of them
\* tells who has the console.
THEOREM SerialTellsWho == Spec => []SerialSaysWho
<1>1. Init => TermInv /\ SerialSaysWho
  BY TermStart, SaysStart
<1>2. TermInv /\ SerialSaysWho /\ [Next]_vars => (TermInv /\ SerialSaysWho)'
  BY TermStep, SaysStep
<1> QED BY <1>1, <1>2, PTL DEF Spec


=============================================================================
