------------------------------ MODULE Terminal ------------------------------
(***************************************************************************)
(* The console of a station: the serial port and a Telnet session share    *)
(* one command line (Console.cpp, Telnet.cpp, CLI.cpp).  loop() calls      *)
(* wifi_handle(), console_handle() and the tasks in turn.  wifi_handle()   *)
(* is five steps, since the network changes at any time between its tests, *)
(* and console_handle() two: a key, then the output.                       *)
(*                                                                         *)
(* A key is a piece of text, typed in one go, or a control character.  Of  *)
(* a session's output only matters for which session it was written; of    *)
(* the serial port's, the order of console output and of the two messages  *)
(* about sessions.  Messages about the Wi-Fi network are left out.         *)
(***************************************************************************)
EXTENDS Settings, Sequences

CONSTANTS
    LineMax,      \* 600
    MaxSessions,  \* bound: Telnet sessions
    MaxKeys       \* bound: keys typed

ASSUME TerminalAssumption ==
    LineMax \in Nat \ {0} /\ MaxSessions \in Nat /\ MaxKeys \in Nat

VARIABLES
    at,          \* the next step of loop()
    wifi,        \* wifi_status
    elapsed,     \* wifi_timeout has passed
    link,        \* WiFi.status() = WL_CONNECTED
    client,      \* telnet_client: "none", "open" or "closed"
    arriving,    \* a client waits in wifiServer
    telnet,      \* is_telnet and redirect_to_telnet, always set together
    session,     \* history: the number of the Telnet session
    serialOut,   \* the output_buffer of Console.cpp, a run of console output as one
    told,        \* history: the serial port's last words since the reset were "connected"
    telnetOut,   \* sessions in the output_buffer of Telnet.cpp
    line,        \* cli_buf
    iac,         \* telnet_iac
    keys         \* keys typed so far

wvars == <<wifi, elapsed, link, client, arriving, session>>
cvars == <<line, iac, keys>>
tvars == <<at, wvars, telnet, serialOut, told, telnetOut, cvars>>
vars  == <<tvars, svars>>

Then == [wifi |-> "drop", drop |-> "accept", accept |-> "serve", serve |-> "send",
         send |-> "serial", serial |-> "drain", drain |-> "tasks",
         tasks |-> "wifi"]
Go == at' = Then[at]

\* Keys that are not part of a command: [op, text, num] as the commands.
Control(op) == [op |-> op, text |-> NoText, num |-> 0]
Enter   == Control("enter")
Erase   == Control("erase")
Ignored == Control("control")   \* LF, for one
Iac     == Control("iac")       \* 0xff
Option  == Control("option")    \* another text, or byte of a Telnet negotiation
Keys    == Commands \cup {Enter, Erase, Ignored, Iac, Option}

-----------------------------------------------------------------------------
(* Console.cpp: output *)

\* What the serial port says: console output and two messages.
Messages == {"console", "connected", "disconnected"}

\* Console output at the end of the serial port's buffer: serial_print().
ConsoleOut ==
    IF serialOut # <<>> /\ serialOut[Len(serialOut)] = "console"
    THEN serialOut
    ELSE Append(serialOut, "console")

\* Mutant: what counts is whether the client is still there.
PlatformPrint_ToClient ==
    IF client = "open"
    THEN telnetOut' = telnetOut \cup {session} /\ UNCHANGED serialOut
    ELSE serialOut' = ConsoleOut /\ UNCHANGED telnetOut

\* Mutant: telnet_print() does not ask whether there is a session.
PlatformPrint_Always == telnetOut' = telnetOut \cup {session} /\ UNCHANGED serialOut

\* platform_print(): to the session if there is one, or to the serial port; both
\* only put it into their buffer.
PlatformPrint ==
    IF telnet
    THEN telnetOut' = telnetOut \cup {session} /\ UNCHANGED serialOut
    ELSE serialOut' = ConsoleOut /\ UNCHANGED telnetOut

Quiet == UNCHANGED <<serialOut, telnetOut>>

\* TNC and debug mode decide what is printed; here, whether anything is.
MayPrint == PlatformPrint \/ Quiet

-----------------------------------------------------------------------------
(* CLI.cpp: the command line *)

\* setup() once more: all is lost but the NVRAM.
TerminalBoot(nv) ==
    /\ at' = "wifi"
    /\ wifi' = (IF WifiLoad(nv.ssid) = "None" THEN 0 ELSE 1)
    /\ elapsed' = FALSE
    /\ client' = "none" /\ telnet' = FALSE
    /\ arriving' = FALSE
    /\ serialOut' = <<"console">> /\ told' = FALSE /\ telnetOut' = {}
    /\ line' = <<>> /\ iac' = 0
    /\ UNCHANGED <<link, session>>

\* What is on the line, if it is a command and nothing else.
Command == IF Len(line) = 1 /\ line[1] \in Commands THEN line[1] ELSE Control("other")

\* cli_enter().  A command that restarts the station does not come back.
CliEnter ==
    IF line = <<>>
    THEN MayPrint /\ Go /\ UNCHANGED <<wvars, telnet, told, line, iac, svars>>
    ELSE IF Command.op \in {"restart", "defconfig"}
    THEN Execute(Command) /\ TerminalBoot(nvram')
    ELSE /\ Execute(Command)
         /\ MayPrint /\ Go
         /\ line' = <<>>
         /\ UNCHANGED <<wvars, telnet, told, iac>>

\* cli_type() of a key that does not end the line: the line and the state of a
\* Telnet negotiation after it.
Typed(k) ==
    CASE iac = 2 /\ k = Iac -> [line |-> Append(line, k), iac |-> 0]
      [] iac = 2 /\ k # Iac -> [line |-> line, iac |-> 1]
      [] iac = 1             -> [line |-> line, iac |-> 0]
      [] iac = 0 /\ k = Iac -> [line |-> line, iac |-> 2]
      [] iac = 0 /\ k = Erase -> [line |-> SubSeq(line, 1, Len(line) - 1), iac |-> 0]
      [] iac = 0 /\ (k = Ignored \/ Len(line) > LineMax) -> [line |-> line, iac |-> 0]
      [] OTHER -> [line |-> Append(line, k), iac |-> 0]

CliType(k) ==
    IF iac = 0 /\ k = Enter
    THEN CliEnter
    ELSE /\ line' = Typed(k).line /\ iac' = Typed(k).iac
         /\ MayPrint /\ Go
         /\ UNCHANGED <<wvars, telnet, told, svars>>

\* What may be typed.  After another text a command is a text like any other.
Typeable == IF line = <<>> THEN Keys ELSE Keys \ Commands

\* A key is read and typed.
Read == keys < MaxKeys /\ keys' = keys + 1 /\ \E k \in Typeable : CliType(k)

-----------------------------------------------------------------------------
(* Telnet.cpp: wifi_handle() *)

\* serial_println(), whoever has the console.
ToSerial(message) == serialOut' = Append(serialOut, message)

\* Mutant: the client's socket is left alone.
Stopped_Not == client

\* telnet_client.stop(), when the network is gone.
Stopped == "none"

Connect ==
    /\ wifi = 1 /\ elapsed
    /\ wifi' = 2 /\ elapsed' = FALSE
    /\ UNCHANGED client

\* Mutant: the timeout is looked at first.
Connected_Late == wifi = 2 /\ link /\ ~elapsed

Connected == wifi = 2 /\ link

Up   == Connected /\ wifi' = 3 /\ UNCHANGED <<elapsed, client>>
Fail ==
    /\ wifi = 2 /\ ~Connected /\ elapsed
    /\ wifi' = 1 /\ elapsed' = FALSE
    /\ UNCHANGED client
Down ==
    /\ wifi = 3 /\ ~link
    /\ wifi' = 1 /\ elapsed' = FALSE
    /\ client' = Stopped
Steady ==
    /\ \/ wifi = 0
       \/ wifi = 1 /\ ~elapsed
       \/ wifi = 2 /\ ~Connected /\ ~elapsed
       \/ wifi = 3 /\ link
    /\ UNCHANGED <<wifi, elapsed, client>>

WifiStep ==
    /\ at = "wifi"
    /\ Connect \/ Up \/ Fail \/ Down \/ Steady
    /\ Quiet /\ Go
    /\ UNCHANGED <<link, arriving, session, telnet, told, cvars, svars>>

\* Mutant: what was written for the last session is kept.
Emptied_Not == telnetOut

\* The output buffer when a session ends, and when one begins.
Emptied == {}

\* Mutant: a session ends with the Wi-Fi connection only.
Finished_WithWifi == telnet /\ wifi # 3

\* The client has closed the session, or was stopped.
Finished == telnet /\ client # "open"

Drop ==
    /\ at = "drop"
    /\ IF Finished
       THEN telnet' = FALSE /\ telnetOut' = Emptied /\ ToSerial("disconnected")
       ELSE Quiet /\ UNCHANGED telnet
    /\ Go /\ UNCHANGED <<wvars, told, cvars, svars>>

Accept ==
    /\ at = "accept"
    /\ IF ~telnet /\ wifi = 3 /\ arriving
       THEN /\ telnet' = TRUE /\ client' = "open" /\ arriving' = FALSE
            /\ session' = session + 1
            /\ telnetOut' = Emptied
            /\ ToSerial("connected")
       ELSE /\ client' = IF ~telnet /\ wifi = 3 THEN "none" ELSE client
            /\ Quiet
            /\ UNCHANGED <<telnet, arriving, session>>
    /\ Go /\ UNCHANGED <<wifi, elapsed, link, told, cvars, svars>>

\* A key from the session, or none.
Serve ==
    /\ at = "serve"
    /\ \/ telnet /\ client = "open" /\ Read
       \/ Go /\ Quiet /\ UNCHANGED <<wvars, telnet, told, cvars, svars>>

\* Output goes to the session, as much as the socket takes.
Send ==
    /\ at = "send"
    /\ telnetOut' \in IF telnet /\ client = "open" THEN {{}, telnetOut} ELSE {telnetOut}
    /\ Go /\ UNCHANGED <<wvars, telnet, serialOut, told, cvars, svars>>

-----------------------------------------------------------------------------
(* Console.cpp: console_handle(), and the tasks *)

\* A key from the serial port.  While there is a Telnet session a key is read as
\* well, and lost.
Serial ==
    /\ at = "serial"
    /\ \/ ~telnet /\ Read
       \/ Go /\ Quiet /\ UNCHANGED <<wvars, telnet, told, cvars, svars>>

\* Whether the i-th thing the serial port has to say is that a client is connected;
\* the 0th is what it said last.
Tells(i) == IF i = 0 THEN told ELSE serialOut[i] = "connected"

\* Output goes to the serial port, as much as it takes, whoever has the console.
Drain ==
    /\ at = "drain"
    /\ \E n \in 0..Len(serialOut) :
        told' = Tells(n) /\ serialOut' = SubSeq(serialOut, n + 1, Len(serialOut))
    /\ Go /\ UNCHANGED <<wvars, telnet, telnetOut, cvars, svars>>

\* A packet comes or goes: it may use the key, and may be printed.
Run ==
    /\ at = "tasks"
    /\ UseKey \/ Show
    /\ MayPrint
    /\ Go /\ UNCHANGED <<wvars, telnet, told, cvars>>

-----------------------------------------------------------------------------
(* The Wi-Fi network and its clients *)

Outside == Quiet /\ UNCHANGED <<at, wifi, telnet, told, cvars, svars>>

Elapse == ~elapsed /\ elapsed' = TRUE /\ Outside /\ UNCHANGED <<link, client, arriving, session>>
Link   == link' = ~link /\ Outside /\ UNCHANGED <<elapsed, client, arriving, session>>
Arrive ==
    /\ wifi = 3 /\ link /\ ~arriving /\ session < MaxSessions
    /\ arriving' = TRUE
    /\ Outside /\ UNCHANGED <<elapsed, link, client, session>>
Close  ==
    /\ client = "open"
    /\ client' = "closed"
    /\ Outside /\ UNCHANGED <<elapsed, link, arriving, session>>

Init ==
    /\ SettingsInit
    /\ at = "wifi"
    /\ wifi = (IF WifiLoad(nvram.ssid) = "None" THEN 0 ELSE 1)
    /\ elapsed = FALSE /\ link = FALSE
    /\ client = "none" /\ arriving = FALSE /\ telnet = FALSE /\ session = 0
    /\ serialOut = <<"console">> /\ told = FALSE /\ telnetOut = {}
    /\ line = <<>> /\ iac = 0 /\ keys = 0

Loop == WifiStep \/ Drop \/ Accept \/ Serve \/ Send \/ Serial \/ Drain \/ Run
Next == Loop \/ Elapse \/ Link \/ Arrive \/ Close

Spec == Init /\ [][Next]_vars

\* The processor keeps executing loop(), and time passes.
FairSpec == Spec /\ WF_vars(Loop) /\ WF_vars(Elapse)

-----------------------------------------------------------------------------
(* Properties *)

TypeOK ==
    /\ SettingsTypeOK
    /\ at \in DOMAIN Then
    /\ wifi \in 0..3 /\ elapsed \in BOOLEAN /\ link \in BOOLEAN
    /\ client \in {"none", "open", "closed"} /\ arriving \in BOOLEAN /\ telnet \in BOOLEAN
    /\ session \in 0..MaxSessions
    /\ serialOut \in Seq(Messages) /\ told \in BOOLEAN
    /\ telnetOut \subseteq 1..session
    /\ line \in Seq(Keys) /\ iac \in 0..2 /\ keys \in 0..MaxKeys

\* A Telnet session is never sent what was written for the one before.
OwnOutput == telnet => telnetOut \subseteq {session}

\* "While a Telnet client is connected, the serial console is silenced" (README.md:
\* 145-146), as far as this is so: output still in the buffer when a session begins
\* comes out during it, but before the message that the client is connected.  From
\* that message on the port says nothing of the console until the message that the
\* client is disconnected, and the last of the two, said or still to be said, tells
\* who has the console.  A reset begins anew.
SerialSaysWho ==
    /\ telnet <=> Tells(Len(serialOut))
    /\ \A i \in 0..Len(serialOut) - 1 : Tells(i) => serialOut[i + 1] = "disconnected"

\* A session does not outlive the Wi-Fi connection: the step that finds the
\* connection gone is followed by the one that ends the session.
SessionNeedsWifi == telnet /\ wifi # 3 => at = "drop"

\* "Once the Telnet connection is closed, the serial console is reenabled"
\* (README.md:146-147).
SerialReturns == client = "closed" ~> ~telnet

\* While there is a network, the station gets into it, whatever went before.
WifiReturns == <>[](link /\ wifi # 0) => <>[](wifi = 3)
=============================================================================
