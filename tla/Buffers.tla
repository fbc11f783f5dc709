------------------------------ MODULE Buffers -------------------------------
(* The operations on texts that the parsers use (Buffer.cpp).  A text is a *)
(* sequence of character codes.                                            *)
EXTENDS Integers, Sequences, SequencesExt

Nul    == 0
Space  == 32
Bang   == 33
Comma  == 44
Dash   == 45
Colon  == 58
Less   == 60
Equal  == 61
Digits == 48..57
Upper  == 65..90
Lower  == 97..122

AllIn(s, S) == \A i \in DOMAIN s : s[i] \in S

\* indexOf() and memchr(): the place of the first c, 0 if there is none.
IndexOf(c, s) == SelectInSeq(s, LAMBDA x : x = c)

\* What substr() gives around the first c: all of s and nothing if there is none.
Before(c, s) == IF IndexOf(c, s) = 0 THEN s ELSE SubSeq(s, 1, IndexOf(c, s) - 1)
After(c, s)  == IF IndexOf(c, s) = 0 THEN <<>> ELSE SubSeq(s, IndexOf(c, s) + 1, Len(s))

Cut(n, s) == SubSeq(s, n + 1, Len(s))

IsSpace(c) == c = Space
LStrip(s)  == IF AllIn(s, {Space}) THEN <<>>
              ELSE Cut(SelectInSeq(s, LAMBDA c : ~IsSpace(c)) - 1, s)
RStrip(s)  == SubSeq(s, 1, SelectLastInSeq(s, LAMBDA c : ~IsSpace(c)))
Strip(s)   == RStrip(LStrip(s))

Uppercase(s) == [i \in DOMAIN s |-> IF s[i] \in Lower THEN s[i] - 32 ELSE s[i]]

\* compareTo(t) < 0
Precedes(s, t) ==
    \/ IsStrictPrefix(s, t)
    \/ \E i \in DOMAIN s \cap DOMAIN t : s[i] < t[i] /\ \A j \in 1..(i - 1) : s[j] = t[j]

\* The numeral of n, and the number of a numeral.
Itoa(n) ==
    LET digits[m \in 0..n] ==
            IF m < 10 THEN <<48 + m>> ELSE Append(digits[m \div 10], 48 + (m % 10))
    IN  digits[n]
Decimal(s) ==
    LET read[i \in 0..Len(s)] == IF i = 0 THEN 0 ELSE 10 * read[i - 1] + (s[i] - 48)
    IN  read[Len(s)]

\* strtol(.., 16) of two characters stops at the first that is no hex digit.
HexDigit(c) ==
    CASE c \in Digits -> c - 48
      [] c \in 65..70  -> c - 55
      [] c \in 97..102 -> c - 87
      [] OTHER -> -1
HexByte(a, b) ==
    IF HexDigit(a) = -1 THEN 0
    ELSE IF HexDigit(b) = -1 THEN HexDigit(a) ELSE 16 * HexDigit(a) + HexDigit(b)

FromHex(s) == [i \in 1..(Len(s) \div 2) |-> HexByte(s[2 * i - 1], s[2 * i])]
ToHex(s) ==
    LET Digit(n) == IF n < 10 THEN 48 + n ELSE 87 + n
    IN  [i \in 1..(2 * Len(s)) |->
            LET c == s[(i + 1) \div 2] IN Digit(IF i % 2 = 1 THEN c \div 16 ELSE c % 16)]
=============================================================================
