----------------------------- MODULE MCTerminal -----------------------------
(* Instances of Terminal for TLC. *)
EXTENDS Terminal

MCTexts == {NoText, "None", "FIXMEE-1", "FIXMEE-2", "pu5abcd-11", "PU5ABCD-11", "qc", "QC", "x!",
            "net", "key", "#key", "key of 33", "#"}

MCLength == [w \in MCTexts |->
    CASE w = NoText -> 0 [] w \in {"qc", "QC", "x!"} -> 2 [] w \in {"net", "key"} -> 3
      [] w = "None" -> 4 [] w \in {"FIXMEE-1", "FIXMEE-2"} -> 8
      [] w \in {"pu5abcd-11", "PU5ABCD-11"} -> 10 [] w \in {"#key", "#"} -> 32 [] w = "key of 33" -> 33]

MCCallsign == [w \in MCTexts |->
    CASE w \in {"FIXMEE-1", "FIXMEE-2"} -> w
      [] w \in {"pu5abcd-11", "PU5ABCD-11"} -> "PU5ABCD-11"
      [] w \in {"qc", "QC"} -> "QC"
      [] OTHER -> NoText]

MCHashKey == [w \in MCTexts |-> IF w = "key" THEN "#key" ELSE "#"]

\* A station that was in use, whose callsign got damaged.
Used == [callsign |-> "x!", repeater |-> 1, beacon |-> 601, psk |-> "#", ssid |-> "net",
         password |-> "None"]

MCStored == {Used}

Cmd(op, text, num) == [op |-> op, text |-> text, num |-> num]

UseCommands ==
    {Cmd("callsign", "pu5abcd-11", 0), Cmd("repeater", NoText, 1), Cmd("beacon", NoText, 600),
     Cmd("beacon", NoText, 601), Cmd("hmacpsk", "key", 0), Cmd("hmacpsk", "key of 33", 0),
     Cmd("ssid", "None", 0),
     Cmd("restart", NoText, 0), Cmd("defconfig", NoText, 0), Cmd("send", NoText, 0)}

CallCommands ==
    {Cmd("callsign", "pu5abcd-11", 0), Cmd("callsign", "QC", 0), Cmd("callsign", "qc", 0),
     Cmd("callsign", "x!", 0), Cmd("restart", NoText, 0)}
=============================================================================
