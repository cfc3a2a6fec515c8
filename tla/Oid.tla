--------------------------------- MODULE Oid ---------------------------------
(***************************************************************************)
(* The object identifiers of the Rust port's X.509 leaf, which are encoded *)
(* byte by byte: the extended key usage says whether a certificate is an   *)
(* agent's or a node's, and a relying party must read the same identifier. *)
(***************************************************************************)
EXTENDS Integers, Sequences, SequencesExt

\* LabAcacia's arc under 1.3.6.1.4.1, and the two key usages below it.
Pen == 65715
EkuOid(arc, entity) == <<1, 3, 6, 1, 4, 1, arc, 1, IF entity = "node" THEN 2 ELSE 1>>

\* n after i shifts by seven bits, of which a 64-bit number survives nine.
Shifted(n, i) ==
    LET v[j \in 0..10] == IF j = 0 THEN n ELSE v[j - 1] \div 128
    IN  v[i]

\* The number of base-128 digits of n.
Septets(n) == CHOOSE k \in 1..10 : Shifted(n, k) = 0 /\ (k = 1 \/ Shifted(n, k - 1) > 0)

\* Mutant: the high bit is set on the last byte as well.
EncodeArcUnended(n) ==
    LET k == Septets(n)
    IN  [i \in 1..k |-> (Shifted(n, k - i) % 128) + (IF k > 1 THEN 128 ELSE 0)]

\* The bytes of one arc: base 128, every byte but the last with its high bit set.
EncodeArc(n) ==
    LET k == Septets(n)
    IN  [i \in 1..k |-> (Shifted(n, k - i) % 128) + (IF i < k THEN 128 ELSE 0)]

\* encode_oid_content: the first two arcs share a byte.
EncodeOidContent(oid) ==
    <<(oid[1] * 40 + oid[2]) % 256>>
        \o FlattenSeq([i \in 1..(Len(oid) - 2) |-> EncodeArc(oid[i + 2])])

\* build_eku_extension_value: a SEQUENCE of one OBJECT IDENTIFIER.
EkuExtension(oid) ==
    LET content == EncodeOidContent(oid)
        tlv == <<6, Len(content) % 256>> \o content
    IN  <<48, Len(tlv) % 256>> \o tlv

-----------------------------------------------------------------------------
(* How a relying party reads it *)

\* The arcs read so far and the one begun, after one more byte: an arc ends with
\* a byte below 128.
ReadByte(acc, b) ==
    IF b < 128
    THEN [arcs |-> Append(acc.arcs, acc.n * 128 + b), n |-> 0]
    ELSE [acc EXCEPT !.n = @ * 128 + b - 128]

\* The arcs of bytes after the first.
DecodeArcs(bytes) ==
    LET read[k \in 0..Len(bytes)] ==
            IF k = 0 THEN [arcs |-> <<>>, n |-> 0] ELSE ReadByte(read[k - 1], bytes[k])
    IN  read[Len(bytes)].arcs

DecodeOid(bytes) == <<Head(bytes) \div 40, Head(bytes) % 40>> \o DecodeArcs(Tail(bytes))

\* The value is what its lengths say it is.
WellFormed(value) ==
    /\ value[1] = 48 /\ value[2] = Len(value) - 2
    /\ value[3] = 6 /\ value[4] = Len(value) - 4

=============================================================================
