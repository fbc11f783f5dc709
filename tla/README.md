# A verification of the LoRaMaDoR firmware

LoRaMaDoR is a mesh network of LoRa stations for radio amateurs. This directory
holds TLA+ models of its firmware (`src/src`, and `src/test/lora_switch.py`, the
client of the switch protocol), the TLC runs that check them on small instances,
and theorems that TLAPS proves for every value of the constants. Line numbers
below are those of the files in the repository.

## The system

A station is one thread: `setup()` builds the `Network`, and `loop()`
(LoRaMaDoR.ino) calls `wifi_handle()`, `console_handle()` and `run_tasks()` for
ever. Nothing is preempted, so that the hard behaviours come from elsewhere:
from the order of tasks and packets, from the radio that loses and repeats them,
from reboots that keep the NVRAM only, from clocks and expiry, and from two
consoles for one command line.

| Part | State | Operations | What makes it correct |
|---|---|---|---|
| Mesh (Network.cpp) | packet id in RAM and NVRAM, pending PacketFwd and PacketTx tasks, receive log, peer, neighbour and repeater tables | send, beacon, route, receive, transmit, clean, reboot | ids are not reused within the memory of others; delivery at most once; diffusion ends; tables tell the truth; answers are given exactly for what is delivered |
| Packets and protocols (Packet, Proto_*, Modf_*) | none | sign, verify, confirm, pong, answer a route request, modify, cut, decode | a repeater's changes do not break the signature; a confirmation follows verification; automatic answers cause no further ones |
| Task manager (Task.cpp) | vector of tasks with time base and offset | schedule, one pass of `run()` | a set of timers: nothing lost, early, out of order or left behind |
| Clock (Timestamp.cpp) | epoch and last counter | `sys_timestamp()` | is the true time over wraps of the counter |
| Switch protocol (Proto_Switch.cpp, lora_switch.py) | switches, transactions; the client's state | packets A, B, C, D, repetition, expiry | commands executed once, results true |
| Settings (NVRAM.cpp, HMACKeys.cpp, CLI.cpp) | NVRAM, cached key, callsign and repeater flag in force | `!callsign` ... `!defconfig`, signing | what is set is loaded; the saved key is the one used |
| Console, Telnet, Wi-Fi (Console.cpp, Telnet.cpp, CLI.cpp) | Wi-Fi status, session, output buffers, line being typed | `wifi_handle()`, `console_handle()`, typing, printing | one console at a time; a session gets its own output and ends with the network |
| Callsigns, parameters, packets as text (Callsign.cpp, Params.cpp, Packet.cpp, CLI.cpp, Buffer.cpp) | none | parse, print | what is meant is what every station reads; what one station prints the next one accepts; a cut costs the tail only |
| Containers (Vector, Dict, Pointer) | the sorted keys, the values, what is allocated | has, get, put, remove, subscript, copy | an associative array; room for every element |

Interactions. The command line calls `Network::send`, and the settings change
what `Network` and `HMACKeys` load; `Network` schedules tasks and is called by
them; `recv` calls the protocol handlers, which return answers that `recv` sends,
and the handlers of HMAC read the cached key; what arrives is printed on the
console that is in force. Every part reads the clock.

## Modules

The abstract specifications are `Datagram`, `Timers`, `Assoc` and `RemoteSwitch`.

- `Packets`: the pure part. A packet is a record; parameters are a set of names;
  the signature H is the field `mac`, which holds the hashed data itself (a hash
  without collisions, of the concatenation taken as injective). A message is a
  sequence of items; sizes are counted in items and parameters, and `Encode` cuts
  the tail as `encode_l3` does. The header is never longer than a packet here. A
  history field `uid` tells packets apart whatever their ids are.
- `Mesh` (extends Packets): stations, with `fwdq` for the PacketFwd tasks and
  `txq` for the PacketTx tasks. `Route` is a whole run of a PacketFwd task,
  handlers and answers included; `Tx` is a PacketTx task that gets the radio, with
  any subset of the stations in range receiving it; `CleanRecvLog`, `CleanNeigh`,
  `Beacon`, `AppSend`, `Reboot`. `fwdq` may be a queue because tasks with offset
  0 run in the order of their scheduling, which is `FirstDueFirst` of TaskManager.
  The order within `txq` is open (random delays).
- `Datagram`: a best-effort service. A packet is delivered to its addressees, at
  most once between two reboots, and its answers are sent in the step that
  delivers it; nothing else is sent but what applications and beacons ask for. `Mesh` implements it (`DatagramService`).
- `TaskManager` and `Timers`: one action per turn of the loops of `run()`, during
  which the clock moves and handlers schedule tasks; `Timers` is a set of alarms.
- `Timestamp`: `sys_timestamp()` and the counter below it; true time is
  `hi * Wrap + lo`.
- `Scheduler` (extends TaskManager and Timestamp) composes the two: the clock of
  TaskManager is true time, and each place where the main loop or the task manager
  calls `sys_timestamp()` is a `Call`, also in the middle of a pass. The
  environment lets at most `MaxGap` pass between two calls.
- `Dict` and `Assoc`: the two vectors of Dict.h with what they have allocated, and
  one action per activation of the recursive `indexOf()`; `put()` searches twice,
  and a subscript of an unknown key up to three times. Keys are ranks in the order of
  `compareTo`. `Assoc` is a set of pairs with one value for a key, on which each
  call takes effect at once: the refinement hides the searches, and the default
  value that a subscript inserts before its result is assigned to.
- `Buffers`, `Codec`, `Relay`: texts as sequences of character codes. `Buffers` are
  the operations of Buffer.cpp that the parsers use, `Codec` the parsers and
  printers of callsigns, ids, parameter lists, packets and typed lines. `Relay`
  takes one text through them: a line is typed at a station or a foreign text comes
  from the air, is decoded by whoever hears it, and encoded again by repeaters that
  add their R. Its stations have no pre-shared key, and its packets are no route
  requests: HMAC and Modf_Rreq are those of Packets. Packets has the same packets as abstract records; what it assumes of
  `Encode` and `Decode` (a packet that fits is decoded as it was, a cut takes the
  tail of the message) is what `RepeatedAsHeard` and `CutAtTheEnd` check here.
- `Switch` and `RemoteSwitch`: server, client and the copies of their packets under
  way; the abstract one executes a command once and ends with a value that the
  execution gave. The packets travel as Datagram allows, reordered and repeated:
  retransmissions of the client are new datagrams with the same content.
- `Settings`: the commands that change something. A text is an element of a set
  with a length, a callsign made of it and a digest.
- `Terminal` (extends Settings): `loop()` in eight steps, of which five are
  `wifi_handle()` (the network may change between its tests) and two
  `console_handle()`, and the typing and printing of both consoles. A key is a whole
  piece of a command, or a control character; after another piece, all commands are
  the same piece (`Typeable`). TNC and debug mode only decide whether something is
  printed, which is left open (`MayPrint`). Printing fills one of the two output
  buffers (`PlatformPrint`): of the session's (`telnetOut`) only the sessions for
  which it was written are kept, of the serial port's (`serialOut`) the order of
  console output and of the messages "Telnet client connected" and "disconnected".
  `Send` and `Drain` empty them at the pace of the socket and of the port, `Drain`
  whoever has the console, and `told` is what the port's last words were. What is
  said about the Wi-Fi network is left out, since it is said at any time.

State corresponds to the code's variables by name, as the comments at VARIABLES
say; an action is one handler or one loop turn, and its mutants (operators named
`X_Something` before `X`) are the bugs that the properties were tried against.

## Runs

| Run | Question | Bounds |
|---|---|---|
| `mesh_answers` | Do signed packets, confirmations and pings keep their promises over a lossy repeater with reboots? | A-R-B, 2 sends, ids that wrap at 9, a message that the repeater must cut, one reboot of A and of B |
| `mesh_diffusion` | Does diffusion end, once per station, with true neighbours, and is expiry safe for duplicates and tables? | a station and two repeaters that all hear each other, a unicast or a broadcast and a beacon, losses, a clock of four ticks against persistences of two (receive log) and one (peer tables) |
| `mesh_reliable` | Without losses, do unicasts and answers arrive? | two repeaters in range of each other between two stations, every transmission heard |
| `task_manager` | Is the task manager a set of timers in order, on a clock that is right over wraps of its counter? | three tasks, offsets 0 and 1, time up to 10, a counter that wraps at 5 and calls as rare as the threshold allows |
| `dict` | Are two vectors and a halving search an associative array? | six keys, every sequence of calls, linear search up to 1 |
| `relay` | Is what is typed what every station reads, over repeaters, cuts and foreign texts? | every parameter list of up to four of six characters, headers of up to five pieces, requests with up to two parameters in every order, case and encoding, two repetitions |
| `switch_rivals` | Does each command act once, with true results, among rivals? | two commands and a query for one switch, expiry, every packet received again at any time |
| `switch_end` | Do transactions end, and do wrong ones change nothing? | a command for a missing switch, one without signature; losses, expiry, a restart |
| `terminal` | Do consoles, sessions and settings keep apart, and does the serial port tell who has the console? | two sessions, three keys, every command, restarts and `!defconfig`, a serial port that takes any part of its output at a time |
| `mesh_trail` (violation) | Is the RSSI in a route request's trail the one heard? | A-R-B, one request |
| `switch_off` (violation) | Can a switch be set to 0? | one command on, one off |
| `terminal_calls` (violation) | Can a station take a pseudo-callsign? | four keys |

Why the bounds are enough. Duplicates need two ways to one station, which the
triangle and the diamond have; an id wraps at the second packet of A; a late copy
needs a clock beyond persistence and a relay still waiting (the environment
assumption on the clock is below); the persistences differ so that a station may
be forgotten as a peer while its packet is still in the receive log. A pass of the task manager treats tasks by
index only: three tasks have a first, a last, and one removed between. In Switch
the interesting orders need two clients and a third that reads; `net` is a set, so
that the number of copies is not bounded at all. In `dict` the linear search
takes over at one key (`MaxLinear`, 3 in the code): with six keys the range is
then halved twice, on either side, in even and odd lengths, and four elements are
where a vector first grows; the proofs hold for 3 and for every other length. In
`relay` the integers are scaled: ids up to 50 in words of 640 with a `strtol` that
stops at 1279 (999999, 2^32 and 2^31 - 1 in the code), so that numerals of three
digits already wrap and those of four saturate, and leading zeros occur; as in the code, a numeral
as long as the greatest id does neither (`IdentAssumption`). The room of 27
characters cuts messages and parameters of the longest callsigns, but never what
precedes the parameters, which the firmware's limit of some two hundred characters
exceeds by far (`RelayAssumption`). Some packets have a value for R already, which a
repeater's earmark replaces: such a packet may need more room before than after
(`Undivided`). Two sessions are one that ends
and one that must not see the first one's output; three keys type a command, end
the line and leave one more; the length limit `LineMax` is 1 piece.

Deadlock is not checked in Mesh and Switch: a mesh in which all is sent and
delivered, or a switch whose transactions have ended, really stops within the
bounds.

Fairness and environment.
- `WF(Route)`, `WF(Tx)`, `WF(Loop)`: the processor keeps executing `loop()`, the
  task manager runs due tasks (`DueTasksRun`), and the radio is not busy for ever
  (a PacketTx task is retried, Network.cpp:368-377).
- `mesh_reliable` sets `Reliable`: collisions are then excluded, because no
  property can promise arrival over a radio that loses packets.
- Mesh's `Tick`: a PacketTx task gets the radio within `HopTime`, and PacketFwd
  tasks do not wait for a whole tick. Without the first, `AtMostOnceDelivery`
  would not hold: a copy that waits at a repeater longer than the receive log
  remembers is delivered again. The code's figures (10 minutes of memory, a delay
  of a few packet times) make the assumption reasonable, not certain.
- Switch: the client's timers run (`WF(Timeout)`), and a packet that is sent again
  and again is received again and again (`SF(Receives)`), that is, the mesh does
  not lose every copy. No fairness is put on `Start`, `Tick` or `Reboot`.
  `switch_rivals` has `Lossy = FALSE`, which loses nothing for safety: a packet
  that is never received again behaves as a lost one.
- Terminal: the loop runs and time passes; nothing is assumed of the network or
  of operators.

## What disagrees

- The trail of a route request: Modf_R runs first and its new packet has RSSI 0,
  so that Modf_Rreq writes 0 (run `mesh_trail`).
- Value 0 of the switch protocol: the comment and the error text say 0..65535, `parse()`
  refuses 0, and a switch that is on cannot be set to 0 (run `switch_off`).
- `!callsign qc`: the check for Q looks at the text before it is put in capitals,
  and the station becomes QC (run `terminal_calls`).
- "While a Telnet client is connected, the serial console is silenced (save for Wi-Fi
  disconnection messages)" (README.md:145-146): `console_handle()` writes its buffer
  to the port whoever has the console (Console.cpp:42-48), so that output which waits
  when a session begins, the tail of `!help` or `!neigh` for instance, comes out
  during the session. In `Terminal`: `Run` prints, `Accept` opens a session while
  `serialOut` is still `<<"console">>`, and the next `Drain` writes it. What does hold
  is `SerialSaysWho`: such output comes before the message that a client is
  connected, and after that message the port is silent until the one that the
  client is disconnected.
- Callsigns: PacketFormat.md:18 says that stations have 4 to 7 octets;
  `Callsign::check()` accepts 2 to 7, and test.cpp:281 and 291 want two to be valid.
- PacketFormat.md:31 says "one and only one naked number"; `Params` takes several and
  the last one counts, as test.cpp:159-161 wants.
- PacketFormat.md:33 says that ids are unique in a 20-minute window; the receive log
  remembers for 10 (`RECV_LOG_PERSIST`, Network.cpp:30).
- `!help` says `!beacon [10..600]` (CLI.cpp:304); the command accepts 2..600
  (CLI.cpp:141).

The first three are runs that TLC finds violated; the others were met in the code
while it was modelled, and the models do what the code does.

## Theorems

Assumptions are the named ASSUMEs of the modules (finiteness of Tasks, types of
constants, limits of lengths, `MaxGap < Wrap - Threshold`); TLC evaluates them in
the runs. The bounds on clocks, sends and keys are constants like the others, so
that the theorems hold for all of them. Four theorems of Mesh have a hypothesis of
their own, named where it is used, which the instances of the runs satisfy:

| Hypothesis | Theorems | Why |
|---|---|---|
| `LogOutlastsDiffusion`: `HopTime` for each repeater and each of its lives is no more than `RecvLogPersist` | `RelayedOnce`, `DeliveredOnce`, `MeshIsDatagramService` | Ten minutes of memory against a delay of a few packet times at each repeater (Network.cpp:467-476). It is needed: where `HopTime` times the relays is 3 and the log remembers 0 or 1, TLC finds a repeater that transmits a packet twice. |
| `RecentIds`: what a log remembers of a source and what arrives from it are less than MAX_PACKET_ID packets apart | `DuplicatesAreDuplicates` (a condition on each state, inside the `[]`) | 9999 ids (Network.h:20) against ten minutes of one station's packets. |
| `NoForgedConfirms`: applications do not send CO; `MaxPayload >= 4` | `ConfirmedIsDelivered` | The command line lets an operator type a CO by hand; then it confirms nothing. A CO with its id, MAC and R must fit, or a cut would take it for another packet. |
| `PureRequests`: no request asks for an answer and claims to be one | `NoAnswerIsAnswered` | Likewise: `C` next to `CO` comes only from an operator. |

- `MeshProofs`: `TypeCorrect` (TypeOK is inductive, by
  lemmas on what the pure operators of Packets return) and `TablesAreNested`:
  TablesNested is inductive given that no time stamp is in the future, so that an
  entry that is expired in a wider table is expired in the narrower one too.
- `MeshRadioProofs`: `NeighboursAreDirect`. The invariant had to be strengthened
  with what is in the queues: a packet without R in `fwdq` that is not of the
  station's own making comes from a station in range, with its RSSI, and one
  without R in `txq` is the station's own. `SignedIsIntact` and
  `DuplicatesAreDuplicates` rest on `TracedInv`: every packet in a queue or an inbox, and
  every entry of a log, belongs to a request in the source's `sent` and has the id that
  the counter gave to it, and the MAC of a packet is of what was sent; so a packet
  whose MAC still fits has not been cut. `ConfirmedIsDelivered` adds that a CO
  which any station holds was made by `Proto_C`, after its delivery.
- `MeshServiceProofs`: `RelayedOnce`, `DeliveredOnce`, `MeshIsDatagramService`
  and `NoAnswerIsAnswered`. The invariant `Base` (TypeOK, TracedInv, FwdqDirect and
  OnceInv) follows a packet: its source takes it from the queue once, and before that
  has neither delivered nor transmitted it (`AtSource`); what others hold or have logged was on
  the air (`Outside`); a repeater waits `HopTime` at most (`Timely`), so that what
  is under way is not older than a log's entry by more than `HopTime` for
  each relay (`Age`); therefore what a station delivered or transmitted since its last
  reboot is in its log while a copy is under way (`LogRemembers`). The refinement
  forgets queues, logs and tables: `Send` is a request, a step of
  `Route` that delivers is a delivery with its answers, and the rest stutters.
- `TaskManagerProofs`: `TypeCorrect`, `LiveAtRest` and `ImplementsTimers`, from
  one inductive invariant: the vector holds no task twice and only scheduled
  ones, a task scheduled and not in the vector is cancelled, and when `dirty` is
  not set all tasks seen in this pass are live. `ImplementsTimers` is a step
  simulation: `RunTask` maps to `Fire` with all that its handler schedules.
  `FirstDueRunsFirst` needs in addition that the vector keeps the order in which tasks were
  scheduled, and that what a pass has looked at and left is not due at the time
  the pass began. `ClockStaysTrue`: the invariant relates `last_millis` and
  `epoch` to the time of the last call, which is `gap` ago, and in which the
  counter wrapped at most once. `SchedulerIsTaskManager`: every step of the
  composition is one of TaskManager, so that its theorems hold with the real clock.
- `DictProofs`: `DictTypeCorrect`, `KeysStaySorted`, `RoomStaysEnough` and
  `ImplementsAssoc`, for every set of keys and every `MaxLinear`, from one
  inductive invariant: during a search, the keys left of the range are smaller than
  the one that is sought and those right of it are greater; in a search for a place
  the key is not there; in a search repeated after a subscript's insertion it
  is. So a search that fails has seen every key, and the place it
  gives keeps the order.
- `SwitchProofs`: `SwitchTypeCorrect` and `ImplementsSwitch`. The invariant ties
  client, packets and server together: every copy of packet C has the response that
  its client has chosen (`CommandsHeld`); what was executed can be found again only as
  done, because a transaction that the server opens anew has another response
  (`ExecutedIsDone`, `DoneIsExecuted`); a command gives only the value that it wants, and
  packet D has only values that were given. No hypothesis on delays is needed.
- `TerminalProofs`: `TerminalTypeCorrect`; `SettingsAreKept` and
  `SavedKeyIsUsed` are proved for the ways
  in which settings change at all, and lemma `SettingsSteps` shows that no step
  of the terminal changes them otherwise. `SessionsOwnOutput` and
  `SessionsNeedWifi` need to know in addition that the step that finds the
  network gone has stopped the client, so that the next one ends the session.
  `SerialTellsWho`: `SerialSaysWho` is inductive over what the port said last and all
  that it has yet to say. A message or output is added at the end (`MessageAdded`,
  `PrintingTells`), what is written leaves the front (`DrainingTells`), and the order
  between stays.
- `RelayProofs`: `RelayTypeCorrect`, `HeardAsSent`, `CutCostsTheEnd`,
  `IdsAreWritten` and `MeantIsRead`, for all texts of any length, keys, values and messages, on
  two assumptions on constants: ten times MaxIdent is at most a word and LONG_MAX
  (`IdentAssumption`), and the header and the id of a packet always have
  room (`RelayAssumption`); the code's numbers satisfy both. For `MeantIsRead`, what a line was
  written for is not left to the instance: `LinesAssumption` demands that the line
  is the request in the documented format (`Writes`: spaces, then plain text or hexadecimal;
  keys in any case and order, repeated or not, with or without ids), which says what
  stands between the separators, and takes from the parsers only the split at commas.
  Then the packet under way is the one that was asked for (`SentAsMeant`). The invariant says that
  what is heard is what is left of what was sent (`Travels`). Its step from a text to the packet
  that is decoded is the lemma `TextIsHeard`: of any beginning of an encoded
  packet that still has the id, decoding gives the callsigns, the id and the
  beginning of the message, and all parameters if the message has begun. Recursive
  functions (the numeral of a number, the number of a numeral, the list of keys in
  order) are reasoned about by the least counterexample: a set of naturals that is not
  empty has a least element, which the library's well-foundedness of `<` gives.
  `DecimalOfItoa` says that an id is read as it was written, `SerializedIsRead`
  that a list of parameters is, and `ListBegins` that a list that was cut is still
  accepted, which lets the stations far away hear a packet without its end.
  `IdsAreWritten` needs that no numeral longer than the id it gives is accepted.

Only model-checked: all liveness (`DiffusionEnds`, `UnicastsArrive`, `DueTasksRun`,
`TransactionsEnd`, `SerialReturns`, `WifiReturns`): liveness under fairness and
ENABLED are out of reach of the prover.

## Not modelled

- Of the parsers: the names of commands, the arguments of the switch protocol, and
  the signs and white space that `strtol` accepts before a hexadecimal digit. NUL
  characters inside a text.
- Of the containers: `Vector::clear` by itself, its move constructor and assignment (the
  latter has no return statement and forgets spare room; nothing in the firmware
  moves into a Dict's vectors), `Pointer.h`, the allocation of `Buffer`.
- LoRaL2 (a submodule that is not in the repository), SHA-256, the flash: external.
- `next_task()`, `stop()`, the display and what the commands print.
- The Python tools, the prototypes and the test emulation.
- Reuse of an id within the persistence of others' receive logs by ten thousand
  packets in ten minutes: the bounds exclude it. `!defconfig` together with the
  packet id (see the hazards): not composed yet.
- `Params::remove`, which does not put its key in capitals as its siblings do: only
  tests call it, with capitals.
- `fwdq` and the task manager are separate modules; their link is the argument
  with `FirstDueFirst` above, not a composition.

## Plan

1. Done: Packets, Mesh with Datagram, TaskManager with Timers, Timestamp and
   Scheduler, Switch with RemoteSwitch, Settings, Terminal, Dict with Assoc,
   Buffers, Codec and Relay; their runs and the theorems above.
2. Next, models: the packet id in Settings, so that `!defconfig` and the receive
   logs of others meet; a composition of Mesh with the order of tasks; the receive
   log of Mesh as a Dict, through Assoc.
3. Next, proofs: every safety property and every refinement that a run checks is a
   theorem. What is left is to prove about the compositions of 2, and to replace
   hypotheses by models: `RecentIds` by a bound on how fast a station sends,
   `LogOutlastsDiffusion` by the delays of the tasks.
