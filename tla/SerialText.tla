----------------------------- MODULE SerialText -----------------------------
(***************************************************************************)
(* The serial as the text it is stored in, digit by digit: how it is       *)
(* written ("0x%06X"), how SQLite reads it back (REPLACE, CAST), and how   *)
(* the X.509 leaf of a certificate takes it over.  The closed form         *)
(* Serials!DecimalReading is compared with this definition.                *)
(***************************************************************************)
EXTENDS Serials, Sequences

CONSTANT MaxSerial   \* the largest serial looked at
ASSUME MaxSerialAssumption == MaxSerial \in Serial

Width == 6

\* The hexadecimal digits of "%06X", the most significant one first.
Text(n) == [i \in 1..Width |-> (n \div 16 ^ (Width - i)) % 16]

\* The number of characters CAST reads: up to the first that is no decimal digit.
PrefixLength(text) ==
    CHOOSE k \in 0..Width :
        /\ \A i \in 1..k : text[i] <= 9
        /\ k = Width \/ text[k + 1] > 9

\* The value of the first k digits, in base 10.
CastInteger(text) ==
    LET value[k \in 0..Width] == IF k = 0 THEN 0 ELSE 10 * value[k - 1] + text[k]
    IN  value[PrefixLength(text)]

-----------------------------------------------------------------------------
(* The serial of the X.509 leaf *)

\* A port whose parser refuses the text takes a random serial instead.
Random == -1

\* The number that bytes stand for, the most significant byte first.
FromBytes(bytes) ==
    LET value[k \in 0..Len(bytes)] == IF k = 0 THEN 0 ELSE 256 * value[k - 1] + bytes[k]
    IN  value[Len(bytes)]

\* A character that is no hexadecimal digit, as the x of the prefix is.
Letter == 16

\* The serial as rows and frames hold it: "0x" and the digits.
Wire(n) == <<0, Letter>> \o Text(n)

\* Mutant: no port takes the prefix away.
LeafTextWhole(port, text) == text

\* What a port's number parser reads: Rust and Java strip the prefix, Python's
\* int skips it, Go and TypeScript hand over the whole text.
LeafText(port, text) ==
    IF port \in {"go", "ts"} THEN text ELSE SubSeq(text, 3, Len(text))

IsHex(text) == \A i \in 1..Len(text) : text[i] < Letter

\* The number the leaf gets, two digits to a byte; a text that is not
\* hexadecimal is refused, and the serial is random then.  TypeScript's text
\* goes to a library, which this does not describe.
LeafSerial(port, text) ==
    LET hex == LeafText(port, text)
    IN  IF IsHex(hex)
        THEN FromBytes([i \in 1..(Len(hex) \div 2) |-> 16 * hex[2 * i - 1] + hex[2 * i]])
        ELSE Random

-----------------------------------------------------------------------------
(* One serial after the other *)

VARIABLES serial,   \* the serial looked at
          used      \* the serials next_serial would store, one after the other

SerialInit == serial = 0 /\ used = {}

SerialNext ==
    /\ serial < MaxSerial
    /\ serial' = serial + 1
    /\ used' = used \cup {NextSerial(used)}

\* The closed form the other modules use is what SQLite computes.
ReadingIsCast == DecimalReading(serial) = CastInteger(Text(serial))

\* Serials written one after the other go from 1 to 10 and no further.
StopsAtTen == used = 1..(IF serial < 10 THEN serial ELSE 10)

\* The X.509 leaf of Rust, Java and Python carries the serial of its row, by
\* which it would be revoked.  Go and TypeScript hand over the text with its
\* prefix, which is not hexadecimal: Go's parser refuses it (ca.go), and
\* TypeScript's parameter asks for a text without it (ca.ts).
LeafSerialIsRows ==
    \A port \in {"rust", "java", "python", "go", "ts"} :
        /\ IsHex(LeafText(port, Wire(serial))) <=> port \notin {"go", "ts"}
        /\ port \notin {"go", "ts"} => LeafSerial(port, Wire(serial)) = serial

=============================================================================
