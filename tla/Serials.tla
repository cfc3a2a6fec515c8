------------------------------ MODULE Serials ------------------------------
(***************************************************************************)
(* The serial numbers of the certificate table.                            *)
(*                                                                         *)
(* A serial is stored as text, "0x" and six upper-case hexadecimal digits, *)
(* and the next one is computed by SQLite from all the texts stored:       *)
(*                                                                         *)
(*   SELECT COALESCE(MAX(CAST(REPLACE(serial,'0x','') AS INTEGER)),0)+1    *)
(*                                                                         *)
(* CAST of a text to INTEGER reads its longest DECIMAL prefix, so a text   *)
(* written in base 16 is read back in base 10, up to its first letter.     *)
(* A serial is represented here by the number it was formatted from.       *)
(***************************************************************************)
EXTENDS Integers

\* The serials of at most two significant hexadecimal digits.  The set is
\* closed under NextSerial: a reading is at most 99.
Serial == 0..255

\* Mutant: a letter in the last place is read as a zero.
DecimalReadingPadded(n) ==
    IF n \div 16 > 9 THEN 0 ELSE 10 * (n \div 16) + IF n % 16 > 9 THEN 0 ELSE n % 16

\* Mutant: the text is read back in the base it was written in.
DecimalReadingHex(n) == n

\* What the CAST reads from the text of serial n.  The four leading zeros of
\* "0000hl" add nothing; a letter at h ends the prefix with the value 0, a
\* letter at l ends it with the value of h.
DecimalReading(n) ==
    LET h == n \div 16
        l == n % 16
    IN  IF h > 9 THEN 0 ELSE IF l > 9 THEN h ELSE 10 * h + l

\* m is the largest element of the set S.
IsLargest(m, S) == m \in S /\ \A x \in S : x <= m

\* The readings of a set of stored serials, with the 0 of COALESCE.
Readings(stored) == {0} \cup {DecimalReading(s) : s \in stored}

\* Mutant: one is added twice.
NextSerialSkipping(stored) ==
    2 + CHOOSE m \in Readings(stored) : IsLargest(m, Readings(stored))

\* The serial next_serial returns when the table holds the serials of stored.
NextSerial(stored) == 1 + CHOOSE m \in Readings(stored) : IsLargest(m, Readings(stored))

=============================================================================
