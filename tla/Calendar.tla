------------------------------- MODULE Calendar -------------------------------
(***************************************************************************)
(* The calendar of the Rust port, which formats and parses its dates       *)
(* without a library: seconds since 1970 to year, month, day and time, the *)
(* text stored in issued_at, expires_at and revoked_at, and back.  The     *)
(* table is ordered by these texts, and verify and the renewal window      *)
(* compare with what they parse to.  It is compared with a calendar that   *)
(* only knows the lengths of the months and turns one day after the other. *)
(***************************************************************************)
EXTENDS Integers, Sequences

CONSTANT LastDay   \* the last day looked at, counted from 1970-01-01
ASSUME LastDayAssumption == LastDay \in Nat

-----------------------------------------------------------------------------
(* From days and seconds to a date *)

\* Mutant: the last day of the 400 years is not held back.
YearOfEraEarly(doe) == (doe - doe \div 1460 + doe \div 36524) \div 365

\* The year, from March on, in which day doe of an era of 400 years lies.
YearOfEra(doe) == (doe - doe \div 1460 + doe \div 36524 - doe \div 146096) \div 365

\* The days of an era before its year yoe.
DaysBefore(yoe) == 365 * yoe + yoe \div 4 - yoe \div 100

\* Year, month and day of a day since 1970.  January and February belong to
\* the year before; month 0 is March.
Civil(days) ==
    LET z   == days + 719468
        era == z \div 146097
        doe == z - era * 146097
        yoe == YearOfEra(doe)
        doy == doe - DaysBefore(yoe)
        mp  == (5 * doy + 2) \div 153
        mo  == IF mp < 10 THEN mp + 3 ELSE mp - 9
    IN  <<yoe + era * 400 + (IF mo <= 2 THEN 1 ELSE 0),
          mo,
          doy - (153 * mp + 2) \div 5 + 1>>

\* epoch_to_parts.
EpochToParts(secs) ==
    LET mins  == secs \div 60
        hours == mins \div 60
        civil == Civil(hours \div 24)
    IN  <<civil[1], civil[2], civil[3], hours % 24, mins % 60, secs % 60>>

-----------------------------------------------------------------------------
(* From a date to days and seconds *)

\* Mutant: the centuries are counted as leap years.
DaysSinceEpochJulian(date) ==
    LET y   == IF date[2] <= 2 THEN date[1] - 1 ELSE date[1]
        mp  == IF date[2] <= 2 THEN date[2] + 9 ELSE date[2] - 3
        era == y \div 400
        yoe == y - era * 400
        doy == (153 * mp + 2) \div 5 + date[3] - 1
    IN  era * 146097 + 365 * yoe + yoe \div 4 + doy - 719468

DaysSinceEpoch(date) ==
    LET y   == IF date[2] <= 2 THEN date[1] - 1 ELSE date[1]
        mp  == IF date[2] <= 2 THEN date[2] + 9 ELSE date[2] - 3
        era == y \div 400
        yoe == y - era * 400
        doy == (153 * mp + 2) \div 5 + date[3] - 1
    IN  era * 146097 + DaysBefore(yoe) + doy - 719468

\* iso_to_epoch, of the numbers parsed.
PartsToEpoch(parts) ==
    DaysSinceEpoch(parts) * 86400 + parts[4] * 3600 + parts[5] * 60 + parts[6]

-----------------------------------------------------------------------------
(* The text *)

\* The digits of n, w at least, as "%04d" and "%02d" write them.
Digits(n, w) == [i \in 1..w |-> (n \div 10 ^ (w - i)) % 10]

\* Mutant: the fields are not padded.
IsoTextUnpadded(parts) ==
    [i \in DOMAIN parts |->
        Digits(parts[i], IF i = 1 THEN 4 ELSE IF parts[i] < 10 THEN 1 ELSE 2)]

\* fmt_iso: the six fields between the separators, for years up to 9999.
IsoText(parts) == [i \in DOMAIN parts |-> Digits(parts[i], IF i = 1 THEN 4 ELSE 2)]

\* The number a field is parsed to.
Number(digits) ==
    LET value[k \in 0..Len(digits)] == IF k = 0 THEN 0 ELSE 10 * value[k - 1] + digits[k]
    IN  value[Len(digits)]

IsoParts(text) == [i \in DOMAIN text |-> Number(text[i])]

\* The order of sequences of numbers: the first difference decides.
Less(s, t, LessAt(_, _)) ==
    \E i \in DOMAIN s : LessAt(s[i], t[i]) /\ \A j \in 1..(i - 1) : s[j] = t[j]

DigitLess(a, b) == a < b
FieldLess(s, t) == Len(s) = Len(t) /\ Less(s, t, DigitLess)

\* The order of texts in ORDER BY issued_at, field by field.
TextLess(s, t) == Less(s, t, FieldLess)

-----------------------------------------------------------------------------
(* The days go by *)

IsLeap(y) == y % 4 = 0 /\ (y % 100 # 0 \/ y % 400 = 0)

MonthLength(y, m) ==
    IF m = 2 THEN IF IsLeap(y) THEN 29 ELSE 28
    ELSE IF m \in {4, 6, 9, 11} THEN 30 ELSE 31

\* The date after <<y, m, d>>.
NextDate(date) ==
    LET y == date[1]
        m == date[2]
    IN  IF date[3] < MonthLength(y, m) THEN <<y, m, date[3] + 1>>
        ELSE IF m < 12 THEN <<y, m + 1, 1>>
        ELSE <<y + 1, 1, 1>>

VARIABLES day,    \* a day since 1970-01-01
          date    \* its date

Init == day = 0 /\ date = <<1970, 1, 1>>

Next ==
    /\ day < LastDay
    /\ day' = day + 1
    /\ date' = NextDate(date)

Spec == Init /\ [][Next]_<<day, date>>

-----------------------------------------------------------------------------
(* What the arithmetic promises *)

\* Year, month and day are those of the Gregorian calendar, leap years and
\* centuries included (epoch_to_parts).
CivilIsCalendar == Civil(day) = date

\* The two conversions the port has are inverse to each other: the X.509 leaf
\* and verify take a date for the day the certificate was dated with.
DaysRoundTrip == DaysSinceEpoch(Civil(day)) = day

\* Seconds of a day at the edges of its minutes and hours.
Edges == {0, 1, 59, 60, 3599, 3600, 43199, 86340, 86399}

\* The last day whose seconds are 31-bit numbers, as TLC's are.
LastShortDay == 24854

\* An instant survives being stored as a text and parsed again, to the second.
InstantRoundTrip ==
    day < LastShortDay => \A s \in Edges :
        LET secs == day * 86400 + s
        IN  PartsToEpoch(IsoParts(IsoText(EpochToParts(secs)))) = secs

\* A later day has a later text, so ORDER BY issued_at, which compares texts,
\* puts the most recent certificate first.
TextOrderIsTimeOrder ==
    [][TextLess(IsoText(Civil(day)), IsoText(Civil(day')))]_<<day, date>>

=============================================================================
