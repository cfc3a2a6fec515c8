----------------------------- MODULE Conversions -----------------------------
(***************************************************************************)
(* The conversions the ports do without a library, each compared with a    *)
(* definition of its own: dates (Calendar), serials and their texts        *)
(* (SerialText), object identifiers (Oid).  One number is looked at after  *)
(* the other: as a day, as an arc, and up to MaxSerial as a serial.        *)
(***************************************************************************)
EXTENDS Calendar, SerialText, Oid

ConversionsInit == Init /\ SerialInit

ConversionsNext ==
    /\ Next
    /\ SerialNext \/ (serial = MaxSerial /\ UNCHANGED <<serial, used>>)

ConversionsSpec == ConversionsInit /\ [][ConversionsNext]_<<day, date, serial, used>>

\* A relying party reads from the leaf the key usage it was issued for, and
\* the lengths in the extension are those of what follows (encode_oid_content,
\* build_eku_extension_value).
EkuReadsBack ==
    \A entity \in {"agent", "node"}, arc \in {day, Pen} :
        LET oid   == EkuOid(arc, entity)
            value == EkuExtension(oid)
        IN  DecodeOid(EncodeOidContent(oid)) = oid /\ WellFormed(value)

=============================================================================
