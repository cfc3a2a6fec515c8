---------------------------- MODULE ConversionsProofs ----------------------------
(***************************************************************************)
(* The conversions of the Rust port, proved: its calendar for every day    *)
(* and second since 1970, of which TLC looks at the days of one era of 400 *)
(* years; the texts of instants and of serials for every value that has    *)
(* one.                                                                    *)
(***************************************************************************)
EXTENDS Conversions, TLAPS, WellFoundedInduction

\* The divisions of Civil and DaysSinceEpoch.
LEMMA Quotients ==
    ASSUME NEW n \in Nat
    PROVE  /\ n \div 4 \in Nat /\ 4 * (n \div 4) <= n /\ n < 4 * (n \div 4) + 4
           /\ n \div 5 \in Nat /\ 5 * (n \div 5) <= n /\ n < 5 * (n \div 5) + 5
           /\ n \div 100 \in Nat /\ 100 * (n \div 100) <= n /\ n < 100 * (n \div 100) + 100
           /\ n \div 153 \in Nat /\ 153 * (n \div 153) <= n /\ n < 153 * (n \div 153) + 153
           /\ n \div 365 \in Nat /\ 365 * (n \div 365) <= n /\ n < 365 * (n \div 365) + 365
           /\ n \div 400 \in Nat /\ 400 * (n \div 400) <= n /\ n < 400 * (n \div 400) + 400
           /\ n \div 1460 \in Nat /\ 1460 * (n \div 1460) <= n /\ n < 1460 * (n \div 1460) + 1460
           /\ n \div 36524 \in Nat /\ 36524 * (n \div 36524) <= n
              /\ n < 36524 * (n \div 36524) + 36524
           /\ n \div 146096 \in Nat /\ 146096 * (n \div 146096) <= n
              /\ n < 146096 * (n \div 146096) + 146096
           /\ n \div 146097 \in Nat /\ 146097 * (n \div 146097) <= n
              /\ n < 146097 * (n \div 146097) + 146097
PROOF OBVIOUS

\* A day of an era lies in one of its 400 years, at most 365 days in.
LEMMA YearOfEraBounds ==
    ASSUME NEW doe \in Nat, doe <= 146096
    PROVE  /\ YearOfEra(doe) \in Nat /\ YearOfEra(doe) <= 399
           /\ doe - DaysBefore(YearOfEra(doe)) \in Nat
           /\ doe - DaysBefore(YearOfEra(doe)) <= 365
PROOF
  <1>1. PICK a \in Nat : a = doe \div 1460 /\ 1460 * a <= doe /\ doe < 1460 * a + 1460
    BY Quotients
  <1>2. PICK b \in Nat : b = doe \div 36524 /\ 36524 * b <= doe /\ doe < 36524 * b + 36524
    BY Quotients
  <1>3. PICK c \in Nat : c = doe \div 146096 /\ 146096 * c <= doe /\ doe < 146096 * c + 146096
    BY Quotients
  <1>4. PICK n \in Nat : n = doe - a + b - c
    BY <1>1, <1>2, <1>3
  <1>5. PICK y \in Nat : y = n \div 365 /\ 365 * y <= n /\ n < 365 * y + 365
    BY Quotients
  <1>6. y = YearOfEra(doe)
    BY <1>1, <1>2, <1>3, <1>4, <1>5 DEF YearOfEra
  <1>7. PICK e \in Nat : e = y \div 4 /\ 4 * e <= y /\ y < 4 * e + 4
    BY Quotients
  <1>8. PICK f \in Nat : f = y \div 100 /\ 100 * f <= y /\ y < 100 * f + 100
    BY Quotients
  <1>9. DaysBefore(y) = 365 * y + e - f
    BY <1>7, <1>8 DEF DaysBefore
  <1>10. y <= 399
    BY <1>1, <1>2, <1>3, <1>4, <1>5
  <1>11. 365 * y + e - f <= doe
    BY <1>1, <1>2, <1>3, <1>4, <1>5, <1>7, <1>8
  <1>12. doe - (365 * y + e - f) <= 365
    BY <1>1, <1>2, <1>3, <1>4, <1>5, <1>7, <1>8
  <1> QED BY <1>6, <1>9, <1>10, <1>11, <1>12

\* A day of the year lies in one of twelve months.
LEMMA MonthBounds ==
    ASSUME NEW doy \in Nat, doy <= 365
    PROVE  (5 * doy + 2) \div 153 \in Nat /\ (5 * doy + 2) \div 153 <= 11
PROOF
  <1>1. PICK n \in Nat : n = 5 * doy + 2
    OBVIOUS
  <1>2. PICK m \in Nat : m = n \div 153 /\ 153 * m <= n /\ n < 153 * m + 153
    BY Quotients
  <1> QED BY <1>1, <1>2

LEMMA EraFound ==
    ASSUME NEW era \in Nat, NEW yoe \in Nat, yoe <= 399
    PROVE  (yoe + era * 400) \div 400 = era
PROOF
  <1>1. PICK n \in Nat : n = yoe + era * 400
    OBVIOUS
  <1>2. PICK q \in Nat : q = n \div 400 /\ 400 * q <= n /\ n < 400 * q + 400
    BY Quotients
  <1> QED BY <1>1, <1>2

\* The two conversions are inverse for every day since 1970 (epoch_to_parts,
\* days_since_epoch), leap years and centuries included.
THEOREM DayIsFound == \A days \in Nat : DaysSinceEpoch(Civil(days)) = days
PROOF
  <1> SUFFICES ASSUME NEW days \in Nat PROVE DaysSinceEpoch(Civil(days)) = days
    OBVIOUS
  <1>1. PICK z \in Nat : z = days + 719468
    OBVIOUS
  <1>2. PICK era \in Nat : era = z \div 146097 /\ 146097 * era <= z /\ z < 146097 * era + 146097
    BY Quotients
  <1>3. PICK doe \in Nat : doe = z - era * 146097 /\ doe <= 146096
    BY <1>2
  <1>4. PICK yoe \in Nat : yoe = YearOfEra(doe) /\ yoe <= 399
    BY <1>3, YearOfEraBounds
  <1>5. PICK doy \in Nat : doy = doe - DaysBefore(yoe) /\ doy <= 365
    BY <1>3, <1>4, YearOfEraBounds
  <1>6. PICK mp \in Nat : mp = (5 * doy + 2) \div 153 /\ mp <= 11
    BY <1>5, MonthBounds
  <1>7. PICK k \in Int : k = (153 * mp + 2) \div 5
    OBVIOUS
  <1>8. PICK mo \in Nat : mo = IF mp < 10 THEN mp + 3 ELSE mp - 9
    BY <1>6
  <1>9. PICK y \in Nat : y = yoe + era * 400
    OBVIOUS
  <1>10. Civil(days) = <<y + (IF mo <= 2 THEN 1 ELSE 0), mo, doy - k + 1>>
    BY <1>1, <1>2, <1>3, <1>4, <1>5, <1>6, <1>7, <1>8, <1>9 DEF Civil
  <1>11. mo <= 2 <=> mp >= 10
    BY <1>6, <1>8
  <1>12. (IF mo <= 2 THEN mo + 9 ELSE mo - 3) = mp
    BY <1>6, <1>8
  <1>13. (IF mo <= 2 THEN (y + (IF mo <= 2 THEN 1 ELSE 0)) - 1
                     ELSE y + (IF mo <= 2 THEN 1 ELSE 0)) = y
    OBVIOUS
  <1>14. y \div 400 = era
    BY <1>4, <1>9, EraFound
  <1>15. y - era * 400 = yoe
    BY <1>9
  <1>16. DaysBefore(yoe) \in Int /\ k + (doy - k + 1) - 1 = doy
    BY DEF DaysBefore
  <1>17. DaysSinceEpoch(Civil(days)) = era * 146097 + DaysBefore(yoe) + (k + (doy - k + 1) - 1) - 719468
    BY <1>7, <1>10, <1>12, <1>13, <1>14, <1>15 DEF DaysSinceEpoch
  <1> QED BY <1>1, <1>3, <1>5, <1>16, <1>17

LEMMA Remainders ==
    ASSUME NEW n \in Nat
    PROVE  /\ n \div 60 \in Nat /\ n % 60 \in Nat /\ n = 60 * (n \div 60) + (n % 60)
           /\ n \div 24 \in Nat /\ n % 24 \in Nat /\ n = 24 * (n \div 24) + (n % 24)
PROOF
  <1>1. n \div 60 \in Nat /\ n \div 24 \in Nat
    BY SMT
  <1>2. n % 60 \in Nat /\ n % 24 \in Nat
    BY SMT
  <1>3. n = 60 * (n \div 60) + (n % 60)
    BY SMT
  <1>4. n = 24 * (n \div 24) + (n % 24)
    BY SMT
  <1> QED BY <1>1, <1>2, <1>3, <1>4

\* What iso_to_epoch computes of the parts of an instant is that instant, for
\* every second since 1970 (epoch_to_parts): verify and the renewal window
\* compare with the second the certificate was dated with.
THEOREM InstantIsFound == \A secs \in Nat : PartsToEpoch(EpochToParts(secs)) = secs
PROOF
  <1> SUFFICES ASSUME NEW secs \in Nat PROVE PartsToEpoch(EpochToParts(secs)) = secs
    OBVIOUS
  <1>1. PICK mins \in Nat, sec \in Nat :
            mins = secs \div 60 /\ sec = secs % 60 /\ secs = 60 * mins + sec
    BY Remainders
  <1>2. PICK hours \in Nat, min \in Nat :
            hours = mins \div 60 /\ min = mins % 60 /\ mins = 60 * hours + min
    BY Remainders
  <1>3. PICK days \in Nat, hour \in Nat :
            days = hours \div 24 /\ hour = hours % 24 /\ hours = 24 * days + hour
    BY Remainders
  <1>4. PICK civil : civil = Civil(days)
    OBVIOUS
  <1>5. PICK parts : parts = <<civil[1], civil[2], civil[3], hour, min, sec>>
    OBVIOUS
  <1>6. EpochToParts(secs) = parts
    BY <1>1, <1>2, <1>3, <1>4, <1>5 DEF EpochToParts
  <1>7. DaysSinceEpoch(parts) = DaysSinceEpoch(civil)
    BY <1>5 DEF DaysSinceEpoch
  <1>8. DaysSinceEpoch(parts) = days
    BY <1>4, <1>7, DayIsFound
  <1>9. PartsToEpoch(parts) = days * 86400 + hour * 3600 + min * 60 + sec
    BY <1>5, <1>8 DEF PartsToEpoch
  <1> QED BY <1>1, <1>2, <1>3, <1>6, <1>9

\* The two conversions are inverse on every day the calendar reaches.
THEOREM DaysStayRoundTrip == Spec => []DaysRoundTrip
PROOF
  <1>1. Init => day \in Nat
    BY DEF Init
  <1>2. day \in Nat /\ [Next]_<<day, date>> => (day \in Nat)'
    BY DEF Next
  <1>3. day \in Nat => DaysRoundTrip
    BY DayIsFound DEF DaysRoundTrip
  <1> QED BY <1>1, <1>2, <1>3, PTL DEF Spec

-----------------------------------------------------------------------------
(* The calendar: years counted from March, by era, year and day *)

\* The days of year yoe of an era, which ends with the February of yoe + 1.
YearLength(yoe) == IF IsLeap(yoe + 1) THEN 366 ELSE 365

\* The month in which day doy of a year lies, counted from March as 0.
MonthOf(doy) == (5 * doy + 2) \div 153

\* The day month mp begins with.
MonthStart(mp) == (153 * mp + 2) \div 5

\* The date of day doy of year yoe.
DateOf(era, yoe, doy) ==
    LET mp == MonthOf(doy)
        mo == IF mp < 10 THEN mp + 3 ELSE mp - 9
    IN  <<yoe + era * 400 + (IF mo <= 2 THEN 1 ELSE 0), mo, doy - MonthStart(mp) + 1>>

\* 0 or 1: the leap day that year yoe ends with.
LEMMA LeapDay ==
    ASSUME NEW yoe \in Nat, yoe <= 399
    PROVE  IsLeap(yoe + 1) <=> /\ yoe + 1 = 4 * (yoe \div 4 + 1)
                               /\ yoe + 1 # 100 * (yoe \div 100 + 1) \/ yoe = 399
PROOF
  <1>1. PICK e \in Nat : e = yoe \div 4 /\ 4 * e <= yoe /\ yoe < 4 * e + 4
    BY Quotients
  <1>2. PICK f \in Nat : f = yoe \div 100 /\ 100 * f <= yoe /\ yoe < 100 * f + 100
    BY Quotients
  <1>3. PICK y \in Nat : y = yoe + 1
    OBVIOUS
  <1>4. y % 4 = 0 <=> y = 4 * (e + 1)
    BY <1>1, <1>3
  <1>5. y % 100 = 0 <=> y = 100 * (f + 1)
    BY <1>2, <1>3
  <1>6. y % 400 = 0 <=> y = 400
    BY <1>3
  <1> QED BY <1>1, <1>2, <1>3, <1>4, <1>5, <1>6 DEF IsLeap

LEMMA LeapPeriod ==
    ASSUME NEW era \in Nat, NEW y \in Nat
    PROVE  IsLeap(y + era * 400) <=> IsLeap(y)
PROOF
  <1>1. PICK n \in Nat : n = y + 400 * era
    OBVIOUS
  <1>2. n % 4 = y % 4
    BY <1>1
  <1>3. n % 100 = y % 100
    BY <1>1
  <1>4. n % 400 = y % 400
    BY <1>1
  <1>5. n = y + era * 400
    BY <1>1
  <1> QED BY <1>2, <1>3, <1>4, <1>5 DEF IsLeap

\* YearOfEra finds the year a day was counted in.
LEMMA YearUnique ==
    ASSUME NEW yoe \in Nat, yoe <= 399, NEW doy \in Nat, doy < YearLength(yoe)
    PROVE  /\ DaysBefore(yoe) + doy \in Nat /\ DaysBefore(yoe) + doy <= 146096
           /\ YearOfEra(DaysBefore(yoe) + doy) = yoe
PROOF
  <1>1. PICK e \in Nat : e = yoe \div 4 /\ 4 * e <= yoe /\ yoe < 4 * e + 4
    BY Quotients
  <1>2. PICK f \in Nat : f = yoe \div 100 /\ 100 * f <= yoe /\ yoe < 100 * f + 100
    BY Quotients
  <1>3. doy <= 364 \/ (doy = 365 /\ yoe + 1 = 4 * (e + 1) /\ (yoe + 1 # 100 * (f + 1) \/ yoe = 399))
    <2>1. IsLeap(yoe + 1) <=> yoe + 1 = 4 * (e + 1) /\ (yoe + 1 # 100 * (f + 1) \/ yoe = 399)
      BY <1>1, <1>2, LeapDay
    <2>2. doy < 365 \/ (IsLeap(yoe + 1) /\ doy < 366)
      BY DEF YearLength
    <2> QED BY <2>1, <2>2
  <1>4. PICK doe \in Nat : doe = 365 * yoe + e - f + doy
    BY <1>1, <1>2
  <1>5. doe = DaysBefore(yoe) + doy
    BY <1>1, <1>2, <1>4 DEF DaysBefore
  <1>6. doe <= 146096
    BY <1>1, <1>2, <1>3, <1>4
  <1>7. PICK a \in Nat : a = doe \div 1460 /\ 1460 * a <= doe /\ doe < 1460 * a + 1460
    BY Quotients
  <1>8. PICK b \in Nat : b = doe \div 36524 /\ 36524 * b <= doe /\ doe < 36524 * b + 36524
    BY Quotients
  <1>9. PICK c \in Nat : c = doe \div 146096 /\ 146096 * c <= doe /\ doe < 146096 * c + 146096
    BY Quotients
  <1>10. PICK n \in Nat : n = doe - a + b - c
    BY <1>7, <1>8, <1>9
  <1>11. PICK y \in Nat : y = n \div 365 /\ 365 * y <= n /\ n < 365 * y + 365
    BY Quotients
  <1>12. y = YearOfEra(doe)
    BY <1>7, <1>8, <1>9, <1>10, <1>11 DEF YearOfEra
  <1>13. 365 * yoe <= n
    BY <1>1, <1>2, <1>3, <1>4, <1>6, <1>7, <1>8, <1>9, <1>10
  <1>14. n < 365 * yoe + 365
    BY <1>1, <1>2, <1>3, <1>4, <1>6, <1>7, <1>8, <1>9, <1>10
  <1>15. y = yoe
    BY <1>11, <1>13, <1>14
  <1> QED BY <1>5, <1>6, <1>12, <1>15

\* Every day of an era is counted in a year, and is one of its days.
LEMMA YearFound ==
    ASSUME NEW doe \in Nat, doe <= 146096
    PROVE  doe - DaysBefore(YearOfEra(doe)) < YearLength(YearOfEra(doe))
PROOF
  <1>1. PICK y \in Nat : y = YearOfEra(doe) /\ y <= 399
    BY YearOfEraBounds
  <1>2. PICK doy \in Nat : doy = doe - DaysBefore(y) /\ doy <= 365
    BY <1>1, YearOfEraBounds
  <1>3. PICK e \in Nat : e = y \div 4 /\ 4 * e <= y /\ y < 4 * e + 4
    BY Quotients
  <1>4. PICK f \in Nat : f = y \div 100 /\ 100 * f <= y /\ y < 100 * f + 100
    BY Quotients
  <1>5. doe = 365 * y + e - f + doy
    BY <1>2, <1>3, <1>4 DEF DaysBefore
  <1>6. CASE doy = 365
    <2>1. PICK a \in Nat : a = doe \div 1460 /\ 1460 * a <= doe /\ doe < 1460 * a + 1460
      BY Quotients
    <2>2. PICK b \in Nat : b = doe \div 36524 /\ 36524 * b <= doe /\ doe < 36524 * b + 36524
      BY Quotients
    <2>3. PICK c \in Nat : c = doe \div 146096 /\ 146096 * c <= doe /\ doe < 146096 * c + 146096
      BY Quotients
    <2>4. PICK n \in Nat : n = doe - a + b - c
      BY <2>1, <2>2, <2>3
    <2>5. PICK y1 \in Nat : y1 = n \div 365 /\ 365 * y1 <= n /\ n < 365 * y1 + 365
      BY Quotients
    <2>6. y1 = y
      BY <1>1, <2>1, <2>2, <2>3, <2>4, <2>5 DEF YearOfEra
    <2>7. y + 1 = 4 * (e + 1) /\ (y + 1 # 100 * (f + 1) \/ y = 399)
      <3>1. doe = 365 * (y + 1) + e - f
        BY <1>5, <1>6
      <3>2. e + b < f + a + c
        BY <2>4, <2>5, <2>6, <3>1
      <3>3. y <= 399 /\ e <= 99 /\ f <= 3 /\ 25 * f <= e /\ (y + 1 = 4 * (e + 1) \/ y + 1 <= 4 * e + 3)
        BY <1>1, <1>3, <1>4
      <3>4. y <= 398 => c = 0
        BY <2>3, <3>1, <3>3
      <3>5. f <= b
        BY <1>4, <2>2, <3>1, <3>3
      <3>6. a <= e + 1 /\ (y + 1 <= 4 * e + 3 => a <= e)
        BY <1>3, <2>1, <3>1, <3>3
      <3>7. y + 1 = 4 * (e + 1)
        BY <1>3, <3>2, <3>3, <3>4, <3>5, <3>6
      <3>8. y + 1 = 100 * (f + 1) => f + 1 <= b
        BY <2>2, <3>1, <3>7
      <3> QED BY <3>2, <3>3, <3>4, <3>6, <3>7, <3>8
    <2>8. IsLeap(y + 1)
      BY <1>1, <1>3, <1>4, <2>7, LeapDay
    <2> QED BY <1>1, <1>2, <1>6, <2>8 DEF YearLength
  <1>7. CASE doy # 365
    BY <1>1, <1>2, <1>7 DEF YearLength
  <1> QED BY <1>6, <1>7

\* The day of the year is found in its month.
LEMMA MonthUnique ==
    ASSUME NEW doy \in Nat, doy <= 365, NEW mp \in 0..11,
           MonthStart(mp) <= doy, mp = 11 \/ doy < MonthStart(mp + 1)
    PROVE  MonthOf(doy) = mp
PROOF
  <1>1. PICK s \in Nat : s = MonthStart(mp) /\ 5 * s <= 153 * mp + 2 /\ 153 * mp + 2 < 5 * s + 5
    BY Quotients DEF MonthStart
  <1>2. PICK t \in Nat : /\ t = MonthStart(mp + 1)
                         /\ 5 * t <= 153 * (mp + 1) + 2 /\ 153 * (mp + 1) + 2 < 5 * t + 5
    BY Quotients DEF MonthStart
  <1>3. PICK n \in Nat : n = 5 * doy + 2
    OBVIOUS
  <1>4. PICK m \in Nat : m = n \div 153 /\ 153 * m <= n /\ n < 153 * m + 153
    BY Quotients
  <1>5. m = mp
    BY <1>1, <1>2, <1>3, <1>4
  <1> QED BY <1>3, <1>4, <1>5 DEF MonthOf

LEMMA MonthFound ==
    ASSUME NEW doy \in Nat, doy <= 365
    PROVE  \E mp \in 0..11 :
             /\ MonthOf(doy) = mp
             /\ MonthStart(mp) <= doy /\ (mp = 11 \/ doy < MonthStart(mp + 1))
PROOF
  <1>1. PICK n \in Nat : n = 5 * doy + 2
    OBVIOUS
  <1>2. PICK m \in Nat : m = n \div 153 /\ 153 * m <= n /\ n < 153 * m + 153
    BY Quotients
  <1>3. m <= 11
    BY <1>1, <1>2
  <1>4. PICK s \in Nat : s = MonthStart(m) /\ 5 * s <= 153 * m + 2 /\ 153 * m + 2 < 5 * s + 5
    BY Quotients DEF MonthStart
  <1>5. PICK t \in Nat : /\ t = MonthStart(m + 1)
                         /\ 5 * t <= 153 * (m + 1) + 2 /\ 153 * (m + 1) + 2 < 5 * t + 5
    BY Quotients DEF MonthStart
  <1>6. s <= doy /\ doy < t
    BY <1>1, <1>2, <1>4, <1>5
  <1> QED BY <1>1, <1>2, <1>3, <1>4, <1>5, <1>6 DEF MonthOf

\* The months begin on these days of a year counted from March.
LEMMA MonthStarts ==
    /\ MonthStart(0) = 0 /\ MonthStart(1) = 31 /\ MonthStart(2) = 61 /\ MonthStart(3) = 92
    /\ MonthStart(4) = 122 /\ MonthStart(5) = 153 /\ MonthStart(6) = 184
    /\ MonthStart(7) = 214 /\ MonthStart(8) = 245 /\ MonthStart(9) = 275
    /\ MonthStart(10) = 306 /\ MonthStart(11) = 337 /\ MonthStart(12) = 367
PROOF BY DEF MonthStart

\* What month mp, counted from March, is called, and the year it lies in.
Name(mp) == IF mp < 10 THEN mp + 3 ELSE mp - 9
Year(era, yoe, mp) == yoe + era * 400 + (IF mp >= 10 THEN 1 ELSE 0)

LEMMA DateInMonth ==
    \A era, yoe, doy \in Nat : \A mp \in 0..11 :
        MonthOf(doy) = mp =>
            DateOf(era, yoe, doy) = <<Year(era, yoe, mp), Name(mp), doy - MonthStart(mp) + 1>>
PROOF
  <1> SUFFICES ASSUME NEW era \in Nat, NEW yoe \in Nat, NEW doy \in Nat, NEW mp \in 0..11,
                      MonthOf(doy) = mp
               PROVE  DateOf(era, yoe, doy)
                          = <<Year(era, yoe, mp), Name(mp), doy - MonthStart(mp) + 1>>
    OBVIOUS
  <1>1. (IF mp < 10 THEN mp + 3 ELSE mp - 9) <= 2 <=> mp >= 10
    OBVIOUS
  <1> QED BY <1>1 DEF DateOf, Year, Name

\* The months from March to January have the length the calendar gives them.
LEMMA LengthOfMonth ==
    ASSUME NEW y \in Nat, NEW mp \in 0..10
    PROVE  MonthLength(y, Name(mp)) = MonthStart(mp + 1) - MonthStart(mp)
PROOF
  <1>1. CASE mp \in 0..5
    BY <1>1, MonthStarts DEF MonthLength, Name
  <1>2. CASE mp \in 6..10
    BY <1>2, MonthStarts DEF MonthLength, Name
  <1> QED BY <1>1, <1>2

LEMMA LengthOfFebruary ==
    ASSUME NEW era \in Nat, NEW yoe \in Nat
    PROVE  MonthLength(Year(era, yoe, 11), Name(11)) = YearLength(yoe) - 337
PROOF
  <1>1. Name(11) = 2 /\ Year(era, yoe, 11) = (yoe + 1) + era * 400
    BY DEF Name, Year
  <1>2. IsLeap(Year(era, yoe, 11)) <=> IsLeap(yoe + 1)
    BY <1>1, LeapPeriod
  <1> QED BY <1>1, <1>2 DEF MonthLength, YearLength

\* From one day of a year to the next.
LEMMA NextInYear ==
    ASSUME NEW era \in Nat, NEW yoe \in Nat, NEW doy \in Nat, doy + 1 < YearLength(yoe)
    PROVE  NextDate(DateOf(era, yoe, doy)) = DateOf(era, yoe, doy + 1)
PROOF
  <1>1. YearLength(yoe) \in Nat /\ YearLength(yoe) <= 366
    BY DEF YearLength
  <1>2. doy + 1 \in Nat /\ doy + 1 <= 365 /\ doy <= 365
    BY <1>1
  <1>3. PICK mp \in 0..11 : /\ MonthOf(doy) = mp
                            /\ MonthStart(mp) <= doy
                            /\ mp = 11 \/ doy < MonthStart(mp + 1)
    BY <1>2, MonthFound
  <1>4. PICK start \in Nat : start = MonthStart(mp)
    BY <1>3, MonthStarts
  <1>5. PICK y \in Nat : y = Year(era, yoe, mp)
    BY DEF Year
  <1>6. PICK name \in 1..12 : name = Name(mp)
    BY DEF Name
  <1>7. DateOf(era, yoe, doy) = <<y, name, doy - start + 1>>
    <2>1. DateOf(era, yoe, doy) = <<Year(era, yoe, mp), Name(mp), doy - MonthStart(mp) + 1>>
      <3>1. MonthOf(doy) = mp
        BY <1>3
      <3> QED BY <3>1, DateInMonth
    <2> QED BY <1>4, <1>5, <1>6, <2>1
  <1>8. CASE mp = 11 \/ doy + 1 < MonthStart(mp + 1)
    <2>1. MonthOf(doy + 1) = mp
      BY <1>2, <1>3, <1>4, <1>8, MonthUnique
    <2>2. DateOf(era, yoe, doy + 1) = <<y, name, (doy + 1) - start + 1>>
      <3>1. DateOf(era, yoe, doy + 1)
                = <<Year(era, yoe, mp), Name(mp), (doy + 1) - MonthStart(mp) + 1>>
        BY <1>2, <2>1, DateInMonth
      <3> QED BY <1>4, <1>5, <1>6, <3>1
    <2>3. doy - start + 1 < MonthLength(y, name)
      <3>1. CASE mp = 11
        <4>1. MonthLength(y, name) = YearLength(yoe) - 337
          BY <1>5, <1>6, <3>1, LengthOfFebruary
        <4>2. start = 337
          BY <1>4, <3>1, MonthStarts
        <4> QED BY <1>1, <4>1, <4>2
      <3>2. CASE mp # 11
        <4>1. mp \in 0..10
          BY <3>2
        <4>2. PICK next \in Nat : next = MonthStart(mp + 1)
          BY <4>1, MonthStarts
        <4>3. MonthLength(y, name) = next - start
          BY <1>4, <1>5, <1>6, <4>1, <4>2, LengthOfMonth
        <4> QED BY <1>8, <3>2, <4>2, <4>3
      <3> QED BY <3>1, <3>2
    <2>4. NextDate(<<y, name, doy - start + 1>>) = <<y, name, (doy - start + 1) + 1>>
      BY <2>3 DEF NextDate
    <2>5. (doy - start + 1) + 1 = (doy + 1) - start + 1
      OBVIOUS
    <2> QED BY <1>7, <2>2, <2>4, <2>5
  <1>9. CASE mp # 11 /\ doy + 1 >= MonthStart(mp + 1)
    <2>0. mp \in 0..10 /\ mp + 1 \in 0..11
      BY <1>9
    <2>1. PICK next \in Nat : next = MonthStart(mp + 1) /\ doy + 1 = next
      BY <1>3, <1>9, <2>0, MonthStarts
    <2>2. mp + 1 = 11 \/ next < MonthStart((mp + 1) + 1)
      BY <2>0, <2>1, MonthStarts
    <2>3. MonthOf(doy + 1) = mp + 1
      BY <1>2, <2>0, <2>1, <2>2, MonthUnique
    <2>4. DateOf(era, yoe, doy + 1) = <<Year(era, yoe, mp + 1), Name(mp + 1), 1>>
      <3>1. DateOf(era, yoe, doy + 1) = <<Year(era, yoe, mp + 1), Name(mp + 1),
                                          (doy + 1) - MonthStart(mp + 1) + 1>>
        <4>1. PICK d \in Nat, m \in 0..11 : d = doy + 1 /\ m = mp + 1
          BY <1>2, <2>0
        <4>2. MonthOf(d) = m
          BY <2>3, <4>1
        <4>3. DateOf(era, yoe, d) = <<Year(era, yoe, m), Name(m), d - MonthStart(m) + 1>>
          BY <4>2, DateInMonth
        <4> QED BY <4>1, <4>3
      <3> QED BY <2>1, <3>1
    <2>5. MonthLength(y, name) = next - start
      BY <1>4, <1>5, <1>6, <2>0, <2>1, LengthOfMonth
    <2>6. ~(doy - start + 1 < MonthLength(y, name))
      BY <2>1, <2>5
    <2>7. NextDate(<<y, name, doy - start + 1>>)
              = IF name < 12 THEN <<y, name + 1, 1>> ELSE <<y + 1, 1, 1>>
      BY <2>6 DEF NextDate
    <2>8. /\ name < 12 => Name(mp + 1) = name + 1 /\ Year(era, yoe, mp + 1) = y
          /\ name = 12 => Name(mp + 1) = 1 /\ Year(era, yoe, mp + 1) = y + 1
      BY <1>5, <1>6, <2>0 DEF Name, Year
    <2> QED BY <1>7, <2>4, <2>7, <2>8
  <1> QED BY <1>3, <1>8, <1>9, MonthStarts

\* From the last of February to the first of March.
LEMMA NextYear ==
    ASSUME NEW era \in Nat, NEW yoe \in Nat, NEW doy \in Nat, doy + 1 = YearLength(yoe),
           NEW era1 \in Nat, NEW yoe1 \in Nat, yoe1 + era1 * 400 = yoe + era * 400 + 1
    PROVE  NextDate(DateOf(era, yoe, doy)) = DateOf(era1, yoe1, 0)
PROOF
  <1>1. doy = 364 \/ doy = 365
    BY DEF YearLength
  <1>2. MonthOf(doy) = 11
    BY <1>1 DEF MonthOf
  <1>3. PICK y \in Nat : y = yoe + era * 400 + 1
    OBVIOUS
  <1>4. Name(11) = 2 /\ Year(era, yoe, 11) = y
    BY <1>3 DEF Name, Year
  <1>5. DateOf(era, yoe, doy) = <<y, 2, doy - 337 + 1>>
    <2>1. 11 \in 0..11
      OBVIOUS
    <2>2. DateOf(era, yoe, doy) = <<Year(era, yoe, 11), Name(11), doy - MonthStart(11) + 1>>
      BY <1>2, <2>1, DateInMonth
    <2> QED BY <1>4, <2>2, MonthStarts
  <1>6. MonthLength(y, 2) = (doy + 1) - 337
    BY <1>4, LengthOfFebruary
  <1>7. NextDate(<<y, 2, doy - 337 + 1>>) = <<y, 3, 1>>
    <2>1. ~(doy - 337 + 1 < MonthLength(y, 2))
      BY <1>6
    <2> QED BY <2>1 DEF NextDate
  <1>8. MonthOf(0) = 0
    BY DEF MonthOf
  <1>9. DateOf(era1, yoe1, 0) = <<Year(era1, yoe1, 0), Name(0), 0 - MonthStart(0) + 1>>
    BY <1>8, DateInMonth
  <1>10. Year(era1, yoe1, 0) = y /\ Name(0) = 3 /\ 0 - MonthStart(0) + 1 = 1
    BY <1>3, MonthStarts DEF Year, Name
  <1> QED BY <1>5, <1>7, <1>9, <1>10

\* Civil gives the date of the era, year and day a number is counted as.
LEMMA CivilIsDateOf ==
    ASSUME NEW days \in Nat, NEW era \in Nat, NEW yoe \in Nat, yoe <= 399,
           NEW doy \in Nat, doy < YearLength(yoe),
           days + 719468 = 146097 * era + (DaysBefore(yoe) + doy)
    PROVE  Civil(days) = DateOf(era, yoe, doy)
PROOF
  <1>1. PICK doe \in Nat : doe = DaysBefore(yoe) + doy /\ doe <= 146096 /\ YearOfEra(doe) = yoe
    BY YearUnique
  <1>2. PICK z \in Nat : z = days + 719468 /\ z = 146097 * era + doe
    BY <1>1
  <1>3. z \div 146097 = era
    <2>1. PICK q \in Nat : q = z \div 146097 /\ 146097 * q <= z /\ z < 146097 * q + 146097
      BY Quotients
    <2> QED BY <1>1, <1>2, <2>1
  <1>4. z - era * 146097 = doe
    BY <1>2
  <1>5. doe - DaysBefore(yoe) = doy
    <2>1. DaysBefore(yoe) \in Int
      BY DEF DaysBefore
    <2> QED BY <1>1, <2>1
  <1> QED BY <1>1, <1>2, <1>3, <1>4, <1>5 DEF Civil, DateOf, MonthOf, MonthStart

\* Every day since 1970 is counted as a day of a year of an era.
LEMMA Counted ==
    ASSUME NEW days \in Nat
    PROVE  \E era, yoe, doy \in Nat :
             /\ yoe <= 399 /\ doy < YearLength(yoe)
             /\ days + 719468 = 146097 * era + (DaysBefore(yoe) + doy)
PROOF
  <1>1. PICK z \in Nat : z = days + 719468
    OBVIOUS
  <1>2. PICK era \in Nat : era = z \div 146097 /\ 146097 * era <= z /\ z < 146097 * era + 146097
    BY Quotients
  <1>3. PICK doe \in Nat : doe = z - 146097 * era /\ doe <= 146096
    BY <1>2
  <1>4. PICK yoe \in Nat : yoe = YearOfEra(doe) /\ yoe <= 399
    BY <1>3, YearOfEraBounds
  <1>5. PICK doy \in Nat : doy = doe - DaysBefore(yoe) /\ doy < YearLength(yoe)
    BY <1>3, <1>4, YearOfEraBounds, YearFound
  <1>6. DaysBefore(yoe) \in Int
    BY DEF DaysBefore
  <1>7. days + 719468 = 146097 * era + (DaysBefore(yoe) + doy)
    BY <1>1, <1>3, <1>5, <1>6
  <1> QED BY <1>4, <1>5, <1>7

\* The year that ends with a February, and the one after it.
LEMMA YearEnds ==
    ASSUME NEW yoe \in Nat, yoe <= 399
    PROVE  /\ DaysBefore(yoe) \in Int /\ DaysBefore(yoe + 1) \in Int
           /\ DaysBefore(0) = 0
           /\ yoe < 399 => DaysBefore(yoe + 1) = DaysBefore(yoe) + YearLength(yoe)
           /\ yoe = 399 => DaysBefore(yoe) + YearLength(yoe) = 146097
PROOF
  <1>1. PICK e \in Nat : e = yoe \div 4 /\ 4 * e <= yoe /\ yoe < 4 * e + 4
    BY Quotients
  <1>2. PICK f \in Nat : f = yoe \div 100 /\ 100 * f <= yoe /\ yoe < 100 * f + 100
    BY Quotients
  <1>3. PICK y \in Nat : y = yoe + 1
    OBVIOUS
  <1>4. PICK e1 \in Nat : e1 = y \div 4 /\ 4 * e1 <= y /\ y < 4 * e1 + 4
    BY Quotients
  <1>5. PICK f1 \in Nat : f1 = y \div 100 /\ 100 * f1 <= y /\ y < 100 * f1 + 100
    BY Quotients
  <1>6. DaysBefore(yoe) = 365 * yoe + e - f
    BY <1>1, <1>2 DEF DaysBefore
  <1>7. DaysBefore(yoe + 1) = 365 * y + e1 - f1
    BY <1>3, <1>4, <1>5 DEF DaysBefore
  <1>8. IsLeap(yoe + 1) <=> y = 4 * (e + 1) /\ (y # 100 * (f + 1) \/ yoe = 399)
    BY <1>1, <1>2, <1>3, LeapDay
  <1>9. YearLength(yoe) = IF y = 4 * (e + 1) /\ (y # 100 * (f + 1) \/ yoe = 399) THEN 366 ELSE 365
    BY <1>8 DEF YearLength
  <1>10. DaysBefore(0) = 0
    BY DEF DaysBefore
  <1>11. DaysBefore(yoe) \in Int /\ DaysBefore(yoe + 1) \in Int
    BY <1>6, <1>7
  <1>12. e1 = (IF y = 4 * (e + 1) THEN e + 1 ELSE e)
    BY <1>1, <1>3, <1>4
  <1>13. f1 = (IF y = 100 * (f + 1) THEN f + 1 ELSE f)
    BY <1>2, <1>3, <1>5
  <1>14. y = 100 * (f + 1) => y = 4 * (e + 1)
    BY <1>1, <1>3
  <1>15. yoe < 399 => DaysBefore(yoe + 1) = DaysBefore(yoe) + YearLength(yoe)
    BY <1>3, <1>6, <1>7, <1>9, <1>12, <1>13, <1>14
  <1>16. yoe = 399 => DaysBefore(yoe) + YearLength(yoe) = 146097
    BY <1>1, <1>2, <1>3, <1>6, <1>9
  <1> QED BY <1>10, <1>11, <1>15, <1>16

\* From one day to the next, as the calendar turns.
LEMMA NextDay ==
    ASSUME NEW days \in Nat
    PROVE  NextDate(Civil(days)) = Civil(days + 1)
PROOF
  <1>1. PICK era, yoe, doy \in Nat :
             /\ yoe <= 399 /\ doy < YearLength(yoe)
             /\ days + 719468 = 146097 * era + (DaysBefore(yoe) + doy)
    BY Counted
  <1>2. Civil(days) = DateOf(era, yoe, doy)
    BY <1>1, CivilIsDateOf
  <1>3. YearLength(yoe) \in Nat /\ days + 1 \in Nat /\ doy + 1 \in Nat
    BY DEF YearLength
  <1>4. DaysBefore(yoe) \in Int
    BY <1>1, YearEnds
  <1>5. CASE doy + 1 < YearLength(yoe)
    <2>1. (days + 1) + 719468 = 146097 * era + (DaysBefore(yoe) + (doy + 1))
      BY <1>1, <1>4
    <2>2. Civil(days + 1) = DateOf(era, yoe, doy + 1)
      BY <1>1, <1>3, <1>5, <2>1, CivilIsDateOf
    <2> QED BY <1>2, <1>5, <2>2, NextInYear
  <1>6. CASE doy + 1 = YearLength(yoe) /\ yoe < 399
    <2>1. PICK yoe1 \in Nat : yoe1 = yoe + 1 /\ yoe1 <= 399
      BY <1>6
    <2>2. (days + 1) + 719468 = 146097 * era + (DaysBefore(yoe1) + 0)
      BY <1>1, <1>3, <1>4, <1>6, <2>1, YearEnds
    <2>3. 0 \in Nat /\ 0 < YearLength(yoe1)
      BY DEF YearLength
    <2>4. Civil(days + 1) = DateOf(era, yoe1, 0)
      BY <1>3, <2>1, <2>2, <2>3, CivilIsDateOf
    <2>5. yoe1 + era * 400 = yoe + era * 400 + 1
      BY <2>1
    <2> QED BY <1>2, <1>6, <2>4, <2>5, NextYear
  <1>7. CASE doy + 1 = YearLength(yoe) /\ yoe = 399
    <2>1. PICK era1 \in Nat : era1 = era + 1
      OBVIOUS
    <2>2. (days + 1) + 719468 = 146097 * era1 + (DaysBefore(0) + 0)
      <3>1. DaysBefore(yoe) + YearLength(yoe) = 146097 /\ DaysBefore(0) = 0
        BY <1>1, <1>7, YearEnds
      <3> QED BY <1>1, <1>3, <1>4, <1>7, <2>1, <3>1
    <2>3. 0 \in Nat /\ 0 <= 399 /\ 0 < YearLength(0)
      BY DEF YearLength
    <2>4. Civil(days + 1) = DateOf(era1, 0, 0)
      BY <1>3, <2>1, <2>2, <2>3, CivilIsDateOf
    <2>5. 0 + era1 * 400 = yoe + era * 400 + 1
      BY <1>7, <2>1
    <2> QED BY <1>2, <1>7, <2>4, <2>5, NextYear
  <1> QED BY <1>1, <1>3, <1>5, <1>6, <1>7

\* The port's year, month and day are those of the calendar, on every day from
\* 1970-01-01 on and without end: TLC sees the 400 years of one era.
THEOREM CalendarIsKept == Spec => []CivilIsCalendar
PROOF
  <1> DEFINE Inv == day \in Nat /\ date = Civil(day)
  <1>1. Init => Inv
    <2>1. YearLength(369) = 365
      BY DEF YearLength, IsLeap
    <2>2. DaysBefore(369) = 134774
      BY DEF DaysBefore
    <2>3. Civil(0) = DateOf(4, 369, 306)
      BY <2>1, <2>2, CivilIsDateOf
    <2>4. MonthOf(306) = 10
      BY DEF MonthOf
    <2>5. DateOf(4, 369, 306) = <<1970, 1, 1>>
      BY <2>4, MonthStarts DEF DateOf
    <2> QED BY <2>3, <2>5 DEF Init
  <1>2. Inv /\ [Next]_<<day, date>> => Inv'
    BY NextDay DEF Next
  <1>3. Inv => CivilIsCalendar
    BY DEF CivilIsCalendar
  <1> QED BY <1>1, <1>2, <1>3, PTL DEF Spec

-----------------------------------------------------------------------------
(* Numbers as digits, and back *)

\* The powers of ten that have a place in a year.
LEMMA Places == 10 ^ 0 = 1 /\ 10 ^ 1 = 10 /\ 10 ^ 2 = 100 /\ 10 ^ 3 = 1000
PROOF OBVIOUS

\* `{:02}`: two digits, which stand for the number.
LEMMA DigitsOfTwo ==
    ASSUME NEW n \in Nat, n <= 99
    PROVE  /\ Digits(n, 2) \in [1..2 -> 0..9]
           /\ n = 10 * Digits(n, 2)[1] + Digits(n, 2)[2]
PROOF
  <1>1. PICK h \in 0..9, l \in 0..9 : n = 10 * h + l /\ h = n \div 10 /\ l = n % 10
    BY SMT
  <1>2. (n \div 10) % 10 = h /\ (n \div 1) % 10 = l
    BY <1>1, SMT
  <1>3. 10 ^ (2 - 1) = 10 /\ 10 ^ (2 - 2) = 1
    BY Places
  <1>4. Digits(n, 2)[1] = h /\ Digits(n, 2)[2] = l
    BY <1>2, <1>3 DEF Digits
  <1>5. Digits(n, 2) = [i \in 1..2 |-> Digits(n, 2)[i]]
    BY DEF Digits
  <1>6. \A i \in 1..2 : Digits(n, 2)[i] \in 0..9
    BY <1>4
  <1>7. Digits(n, 2) \in [1..2 -> 0..9]
    BY <1>5, <1>6
  <1> QED BY <1>1, <1>4, <1>7

\* What four digits stand for.
Value(t) == 1000 * t[1] + 100 * t[2] + 10 * t[3] + t[4]

\* `{:04}`: four digits, as long as the number has no more.
LEMMA DigitsOfFour ==
    ASSUME NEW n \in Nat, n <= 9999
    PROVE  /\ Digits(n, 4) \in [1..4 -> 0..9]
           /\ n = Value(Digits(n, 4))
PROOF
  <1>1. PICK a \in 0..9, r \in 0..999 : n = 1000 * a + r
    <2>1. n \div 1000 \in 0..9 /\ n % 1000 \in 0..999 /\ n = 1000 * (n \div 1000) + (n % 1000)
      BY SMT
    <2> QED BY <2>1
  <1>2. PICK b \in 0..9, s \in 0..99 : r = 100 * b + s
    <2>1. r \div 100 \in 0..9 /\ r % 100 \in 0..99 /\ r = 100 * (r \div 100) + (r % 100)
      BY SMT
    <2> QED BY <2>1
  <1>3. PICK c \in 0..9, d \in 0..9 : s = 10 * c + d
    <2>1. s \div 10 \in 0..9 /\ s % 10 \in 0..9 /\ s = 10 * (s \div 10) + (s % 10)
      BY SMT
    <2> QED BY <2>1
  <1>4. /\ n \div 1000 = a /\ n \div 100 = 10 * a + b
        /\ n \div 10 = 100 * a + 10 * b + c /\ n \div 1 = n
    BY <1>1, <1>2, <1>3, SMT
  <1>5. /\ (n \div 1000) % 10 = a /\ (n \div 100) % 10 = b
        /\ (n \div 10) % 10 = c /\ (n \div 1) % 10 = d
    BY <1>1, <1>2, <1>3, <1>4, SMT
  <1>6. 10 ^ (4 - 1) = 1000 /\ 10 ^ (4 - 2) = 100 /\ 10 ^ (4 - 3) = 10 /\ 10 ^ (4 - 4) = 1
    BY Places
  <1>7. /\ Digits(n, 4)[1] = a /\ Digits(n, 4)[2] = b
        /\ Digits(n, 4)[3] = c /\ Digits(n, 4)[4] = d
    BY <1>5, <1>6 DEF Digits
  <1>8. Digits(n, 4) = [i \in 1..4 |-> Digits(n, 4)[i]]
    BY DEF Digits
  <1>9. \A i \in 1..4 : Digits(n, 4)[i] \in 0..9
    BY <1>7
  <1>10. Digits(n, 4) \in [1..4 -> 0..9]
    BY <1>8, <1>9
  <1> QED BY <1>1, <1>2, <1>3, <1>7, <1>10 DEF Value

\* A recursive function on a finite domain is the one table that satisfies its
\* equation: reading two or four digits gives their number.
LEMMA NumberOfTwo ==
    ASSUME NEW t \in [1..2 -> 0..9]
    PROVE  Number(t) = 10 * t[1] + t[2]
PROOF
  <1>1. Len(t) = 2
    OBVIOUS
  <1>2. PICK a \in 0..9, b \in 0..9 : a = t[1] /\ b = t[2]
    OBVIOUS
  <1> DEFINE Step(v) == [k \in 0..Len(t) |-> IF k = 0 THEN 0 ELSE 10 * v[k - 1] + t[k]]
             w == [k \in 0..2 |-> CASE k = 0 -> 0 [] k = 1 -> a [] k = 2 -> 10 * a + b]
             value == CHOOSE v : v = Step(v)
  <1>3. w = Step(w)
    BY <1>1, <1>2
  <1>4. value = Step(value)
    BY <1>3
  <1>5. Number(t) = value[2]
    BY <1>1 DEF Number
  <1> HIDE DEF value
  <1>6. value[0] = 0
    BY <1>1, <1>4
  <1>7. value[1] = a
    BY <1>1, <1>2, <1>4, <1>6
  <1>8. value[2] = 10 * a + b
    BY <1>1, <1>2, <1>4, <1>7
  <1> QED BY <1>2, <1>5, <1>8

\* What four digits are read as.
LEMMA NumberOfFour ==
    ASSUME NEW t \in [1..4 -> 0..9]
    PROVE  Number(t) = Value(t)
PROOF
  <1>1. Len(t) = 4
    OBVIOUS
  <1>2. PICK a, b, c, d : a = t[1] /\ b = t[2] /\ c = t[3] /\ d = t[4]
    OBVIOUS
  <1> a \in 0..9 /\ b \in 0..9 /\ c \in 0..9 /\ d \in 0..9
    BY <1>2
  <1> DEFINE Step(v) == [k \in 0..Len(t) |-> IF k = 0 THEN 0 ELSE 10 * v[k - 1] + t[k]]
             w == [k \in 0..4 |-> CASE k = 0 -> 0
                                    [] k = 1 -> a
                                    [] k = 2 -> 10 * a + b
                                    [] k = 3 -> 100 * a + 10 * b + c
                                    [] k = 4 -> 1000 * a + 100 * b + 10 * c + d]
             value == CHOOSE v : v = Step(v)
  <1>3. w = Step(w)
    BY <1>1, <1>2
  <1>4. value = Step(value)
    BY <1>3
  <1>5. Number(t) = value[4]
    BY <1>1 DEF Number
  <1> HIDE DEF value
  <1>6. value[0] = 0
    BY <1>1, <1>4
  <1>7. value[1] = a
    BY <1>1, <1>2, <1>4, <1>6
  <1>8. value[2] = 10 * a + b
    BY <1>1, <1>2, <1>4, <1>7
  <1>9. value[3] = 100 * a + 10 * b + c
    BY <1>1, <1>2, <1>4, <1>8
  <1>10. value[4] = 1000 * a + 100 * b + 10 * c + d
    BY <1>1, <1>2, <1>4, <1>9
  <1> QED BY <1>2, <1>5, <1>10 DEF Value

\* A field of a date is parsed to the number it was formatted from.
LEMMA TwoAreRead ==
    ASSUME NEW n \in Nat, n <= 99 PROVE Number(Digits(n, 2)) = n
PROOF BY DigitsOfTwo, NumberOfTwo

\* Four digits are read as the number they were written from.
LEMMA FourAreRead ==
    ASSUME NEW n \in Nat, n <= 9999 PROVE Number(Digits(n, 4)) = n
PROOF BY DigitsOfFour, NumberOfFour

\* Fields that differ sort as their numbers do.
LEMMA TwoInOrder ==
    ASSUME NEW m \in Nat, m <= 99, NEW n \in Nat, n <= 99, m < n
    PROVE  FieldLess(Digits(m, 2), Digits(n, 2))
PROOF
  <1> DEFINE s == Digits(m, 2)
             t == Digits(n, 2)
  <1>1. s \in [1..2 -> 0..9] /\ m = 10 * s[1] + s[2]
    BY DigitsOfTwo
  <1>2. t \in [1..2 -> 0..9] /\ n = 10 * t[1] + t[2]
    BY DigitsOfTwo
  <1> HIDE DEF s, t
  <1>3. s[1] \in 0..9 /\ s[2] \in 0..9 /\ t[1] \in 0..9 /\ t[2] \in 0..9
    BY <1>1, <1>2
  <1>4. s[1] < t[1] \/ (s[1] = t[1] /\ s[2] < t[2])
    BY <1>1, <1>2, <1>3
  <1>5. PICK i \in 1..2 : s[i] < t[i] /\ \A j \in 1..(i - 1) : s[j] = t[j]
    <2>1. CASE s[1] < t[1]
      BY <2>1
    <2>2. CASE s[1] = t[1] /\ s[2] < t[2]
      BY <2>2
    <2> QED BY <1>4, <2>1, <2>2
  <1>6. FieldLess(s, t)
    <2>1. Len(s) = 2 /\ Len(t) = 2 /\ DOMAIN s = 1..2
      BY <1>1, <1>2
    <2>2. Less(s, t, DigitLess)
      BY <1>5, <2>1 DEF Less, DigitLess
    <2> QED BY <2>1, <2>2 DEF FieldLess
  <1> QED BY <1>6 DEF s, t

\* Four digits sort as the numbers they were written from.
LEMMA FourInOrder ==
    ASSUME NEW m \in Nat, m <= 9999, NEW n \in Nat, n <= 9999, m < n
    PROVE  FieldLess(Digits(m, 4), Digits(n, 4))
PROOF
  <1> DEFINE s == Digits(m, 4)
             t == Digits(n, 4)
  <1>1. s \in [1..4 -> 0..9] /\ m = Value(s)
    BY DigitsOfFour
  <1>2. t \in [1..4 -> 0..9] /\ n = Value(t)
    BY DigitsOfFour
  <1> HIDE DEF s, t
  <1>3. /\ s[1] \in 0..9 /\ s[2] \in 0..9 /\ s[3] \in 0..9 /\ s[4] \in 0..9
        /\ t[1] \in 0..9 /\ t[2] \in 0..9 /\ t[3] \in 0..9 /\ t[4] \in 0..9
    BY <1>1, <1>2
  <1>4. \/ s[1] < t[1]
        \/ s[1] = t[1] /\ s[2] < t[2]
        \/ s[1] = t[1] /\ s[2] = t[2] /\ s[3] < t[3]
        \/ s[1] = t[1] /\ s[2] = t[2] /\ s[3] = t[3] /\ s[4] < t[4]
    <2>1. PICK a, b, c, d : a = s[1] /\ b = s[2] /\ c = s[3] /\ d = s[4]
      OBVIOUS
    <2>2. PICK e, f, g, k : e = t[1] /\ f = t[2] /\ g = t[3] /\ k = t[4]
      OBVIOUS
    <2>3. /\ a \in 0..9 /\ b \in 0..9 /\ c \in 0..9 /\ d \in 0..9
          /\ e \in 0..9 /\ f \in 0..9 /\ g \in 0..9 /\ k \in 0..9
      BY <1>3, <2>1, <2>2
    <2>4. m = 1000 * a + 100 * b + 10 * c + d
      BY <1>1, <2>1 DEF Value
    <2>5. n = 1000 * e + 100 * f + 10 * g + k
      BY <1>2, <2>2 DEF Value
    <2>6. \/ a < e
          \/ a = e /\ b < f
          \/ a = e /\ b = f /\ c < g
          \/ a = e /\ b = f /\ c = g /\ d < k
      BY <2>3, <2>4, <2>5
    <2> QED BY <2>1, <2>2, <2>6
  <1>5. PICK i \in 1..4 : s[i] < t[i] /\ \A j \in 1..(i - 1) : s[j] = t[j]
    <2>1. CASE s[1] < t[1]
      BY <2>1
    <2>2. CASE s[1] = t[1] /\ s[2] < t[2]
      BY <2>2
    <2>3. CASE s[1] = t[1] /\ s[2] = t[2] /\ s[3] < t[3]
      BY <2>3
    <2>4. CASE s[1] = t[1] /\ s[2] = t[2] /\ s[3] = t[3] /\ s[4] < t[4]
      BY <2>4
    <2> QED BY <1>4, <2>1, <2>2, <2>3, <2>4
  <1>6. FieldLess(s, t)
    <2>1. 4 \in Nat /\ s \in [1..4 -> 0..9] /\ t \in [1..4 -> 0..9]
      BY <1>1, <1>2
    <2>2. Len(s) = 4 /\ Len(t) = 4 /\ DOMAIN s = 1..4
      BY <2>1
    <2>3. Less(s, t, DigitLess)
      BY <1>5, <2>2 DEF Less, DigitLess
    <2> QED BY <2>2, <2>3 DEF FieldLess
  <1> QED BY <1>6 DEF s, t

-----------------------------------------------------------------------------
(* Dates in the order of time *)

\* What every set of naturals that begins with 0 and never ends holds.
LEMMA AllNaturals ==
    ASSUME NEW S, 0 \in S, \A n \in Nat : n \in S => n + 1 \in S
    PROVE  \A n \in Nat : n \in S
PROOF
  <1> DEFINE R == OpToRel(<, Nat)
             T == {n \in Nat : n \notin S}
  <1>1. IsWellFoundedOn(R, Nat)
    BY NatLessThanWellFounded
  <1>2. \A x, y \in Nat : x < y => <<x, y>> \in R
    BY DEF OpToRel
  <1> HIDE DEF R
  <1>3. SUFFICES ASSUME T # {} PROVE FALSE
    OBVIOUS
  <1>4. T \subseteq Nat
    OBVIOUS
  <1>5. PICK m \in T : \A n \in T : ~(<<n, m>> \in R)
    BY <1>1, <1>3, <1>4, WFMin
  <1>6. m \in Nat \ {0} /\ m - 1 \in Nat /\ m - 1 < m /\ (m - 1) + 1 = m
    OBVIOUS
  <1>7. m - 1 \notin T
    BY <1>2, <1>5, <1>6
  <1> QED BY <1>6, <1>7

\* Year, month and day are in their ranges.
LEMMA CivilRange ==
    ASSUME NEW days \in Nat
    PROVE  \E y \in Nat, m \in 1..12, d \in 1..31 : Civil(days) = <<y, m, d>>
PROOF
  <1>1. PICK era, yoe, doy \in Nat :
             /\ yoe <= 399 /\ doy < YearLength(yoe)
             /\ days + 719468 = 146097 * era + (DaysBefore(yoe) + doy)
    BY Counted
  <1>2. Civil(days) = DateOf(era, yoe, doy)
    BY <1>1, CivilIsDateOf
  <1>3. doy <= 365
    BY <1>1 DEF YearLength
  <1>4. PICK mp \in 0..11 : /\ MonthOf(doy) = mp
                            /\ MonthStart(mp) <= doy /\ (mp = 11 \/ doy < MonthStart(mp + 1))
    BY <1>3, MonthFound
  <1>5. Civil(days) = <<Year(era, yoe, mp), Name(mp), doy - MonthStart(mp) + 1>>
    BY <1>2, <1>4, DateInMonth
  <1>6. Name(mp) \in 1..12
    BY DEF Name
  <1>7. PICK y \in Nat : y = Year(era, yoe, mp)
    BY DEF Year
  <1>8. doy - MonthStart(mp) + 1 \in 1..31
    <2>1. CASE mp \in 0..5
      BY <1>4, <2>1, MonthStarts
    <2>2. CASE mp \in 6..11
      BY <1>3, <1>4, <2>2, MonthStarts
    <2> QED BY <2>1, <2>2
  <1> QED BY <1>5, <1>6, <1>7, <1>8

\* The first of year, month and day that differs decides.
Earlier(a, b) ==
    \/ a[1] < b[1]
    \/ a[1] = b[1] /\ a[2] < b[2]
    \/ a[1] = b[1] /\ a[2] = b[2] /\ a[3] < b[3]

\* The next day is a later date.
LEMMA NextIsLater ==
    ASSUME NEW days \in Nat
    PROVE  Earlier(Civil(days), Civil(days + 1))
PROOF
  <1>1. PICK y \in Nat, m \in 1..12, d \in 1..31 : Civil(days) = <<y, m, d>>
    BY CivilRange
  <1>2. NextDate(<<y, m, d>>) \in {<<y, m, d + 1>>, <<y, m + 1, 1>>, <<y + 1, 1, 1>>}
    BY DEF NextDate
  <1>3. Earlier(<<y, m, d>>, NextDate(<<y, m, d>>))
    BY <1>2 DEF Earlier
  <1> QED BY <1>1, <1>3, NextDay

\* Earlier than an earlier date is earlier.
LEMMA EarlierTransitive ==
    ASSUME NEW a \in Nat, NEW b \in Nat, NEW c \in Nat, 
           Earlier(Civil(a), Civil(b)), Earlier(Civil(b), Civil(c))
    PROVE  Earlier(Civil(a), Civil(c))
PROOF
  <1>1. PICK p \in Nat, q \in 1..12, r \in 1..31 : Civil(a) = <<p, q, r>>
    BY CivilRange
  <1>2. PICK s \in Nat, t \in 1..12, u \in 1..31 : Civil(b) = <<s, t, u>>
    BY CivilRange
  <1>3. PICK v \in Nat, w \in 1..12, x \in 1..31 : Civil(c) = <<v, w, x>>
    BY CivilRange
  <1>4. p < s \/ (p = s /\ q < t) \/ (p = s /\ q = t /\ r < u)
    BY <1>1, <1>2 DEF Earlier
  <1>5. s < v \/ (s = v /\ t < w) \/ (s = v /\ t = w /\ u < x)
    BY <1>2, <1>3 DEF Earlier
  <1>6. p < v \/ (p = v /\ q < w) \/ (p = v /\ q = w /\ r < x)
    BY <1>4, <1>5
  <1> QED BY <1>1, <1>3, <1>6 DEF Earlier

\* A later day has a later date.
LEMMA LaterDay ==
    ASSUME NEW m \in Nat, NEW n \in Nat, m < n
    PROVE  Earlier(Civil(m), Civil(n))
PROOF
  <1> DEFINE S == {k \in Nat : \A i \in Nat : i < k => Earlier(Civil(i), Civil(k))}
  <1>1. 0 \in S
    OBVIOUS
  <1>2. ASSUME NEW k \in Nat, k \in S PROVE k + 1 \in S
    <2>1. SUFFICES ASSUME NEW i \in Nat, i < k + 1 PROVE Earlier(Civil(i), Civil(k + 1))
      OBVIOUS
    <2>2. Earlier(Civil(k), Civil(k + 1))
      BY NextIsLater
    <2>3. CASE i = k
      BY <2>2, <2>3
    <2>4. CASE i < k
      <3>1. Earlier(Civil(i), Civil(k))
        BY <1>2, <2>4
      <3> QED BY <2>2, <3>1, EarlierTransitive
    <2> QED BY <2>1, <2>3, <2>4
  <1> HIDE DEF S
  <1>3. n \in S
    BY <1>1, <1>2, AllNaturals
  <1> QED BY <1>3 DEF S

\* The last day of the year 9999, up to which four digits hold the year.
LastFourDigitDay == 2932896

\* Up to the last day of 9999, a year has four digits.
LEMMA YearFits ==
    ASSUME NEW days \in Nat, days <= LastFourDigitDay
    PROVE  Civil(days)[1] <= 9999
PROOF
  <1>1. Civil(LastFourDigitDay) = <<9999, 12, 31>>
    <2>1. DaysBefore(399) = 145731
      BY DEF DaysBefore
    <2>2. YearLength(399) = 366
      BY DEF YearLength, IsLeap
    <2>3. Civil(LastFourDigitDay) = DateOf(24, 399, 305)
      BY <2>1, <2>2, CivilIsDateOf DEF LastFourDigitDay
    <2>4. MonthOf(305) = 9
      BY DEF MonthOf
    <2> QED BY <2>3, <2>4, MonthStarts DEF DateOf
  <1>2. PICK y \in Nat, m \in 1..12, d \in 1..31 : Civil(days) = <<y, m, d>>
    BY CivilRange
  <1>3. CASE days = LastFourDigitDay
    BY <1>1, <1>3
  <1>4. CASE days < LastFourDigitDay
    <2>1. Earlier(Civil(days), Civil(LastFourDigitDay))
      BY <1>4, LaterDay DEF LastFourDigitDay
    <2> QED BY <1>1, <1>2, <2>1 DEF Earlier
  <1> QED BY <1>3, <1>4 DEF LastFourDigitDay

-----------------------------------------------------------------------------
(* Texts in the order of time, and back to the second *)

\* The fields of a date or an instant, as fmt_iso has room for them.
Fits(p, k) ==
    /\ p \in [1..k -> Nat]
    /\ \A i \in 1..k : p[i] <= IF i = 1 THEN 9999 ELSE 99

\* The text of fields that fit is read as these fields.
LEMMA TextIsRead ==
    ASSUME NEW k \in Nat, NEW p, Fits(p, k)
    PROVE  IsoParts(IsoText(p)) = p
PROOF
  <1>1. DOMAIN p = 1..k /\ p = [i \in 1..k |-> p[i]]
    BY DEF Fits
  <1>2. IsoText(p) = [i \in 1..k |-> Digits(p[i], IF i = 1 THEN 4 ELSE 2)]
    BY <1>1 DEF IsoText
  <1>3. IsoParts(IsoText(p)) = [i \in 1..k |-> Number(Digits(p[i], IF i = 1 THEN 4 ELSE 2))]
    BY <1>2 DEF IsoParts
  <1>4. ASSUME NEW i \in 1..k
        PROVE  Number(Digits(p[i], IF i = 1 THEN 4 ELSE 2)) = p[i]
    <2>1. p[i] \in Nat /\ p[i] <= IF i = 1 THEN 9999 ELSE 99
      BY DEF Fits
    <2>2. CASE i = 1
      BY <2>1, <2>2, FourAreRead
    <2>3. CASE i # 1
      BY <2>1, <2>3, TwoAreRead
    <2> QED BY <2>2, <2>3
  <1> QED BY <1>1, <1>3, <1>4

\* The first field that differs decides between two texts.
LEMMA FieldDecides ==
    ASSUME NEW k \in Nat, NEW p, NEW q, Fits(p, k), Fits(q, k),
           NEW i \in 1..k, p[i] < q[i], \A j \in 1..(i - 1) : p[j] = q[j]
    PROVE  TextLess(IsoText(p), IsoText(q))
PROOF
  <1>1. DOMAIN p = 1..k /\ DOMAIN q = 1..k
    BY DEF Fits
  <1>2. IsoText(p) = [j \in 1..k |-> Digits(p[j], IF j = 1 THEN 4 ELSE 2)]
    BY <1>1 DEF IsoText
  <1>3. IsoText(q) = [j \in 1..k |-> Digits(q[j], IF j = 1 THEN 4 ELSE 2)]
    BY <1>1 DEF IsoText
  <1>4. /\ p[i] \in Nat /\ p[i] <= IF i = 1 THEN 9999 ELSE 99
        /\ q[i] \in Nat /\ q[i] <= IF i = 1 THEN 9999 ELSE 99
    BY DEF Fits
  <1>5. FieldLess(Digits(p[i], IF i = 1 THEN 4 ELSE 2), Digits(q[i], IF i = 1 THEN 4 ELSE 2))
    <2>1. CASE i = 1
      BY <1>4, <2>1, FourInOrder
    <2>2. CASE i # 1
      BY <1>4, <2>2, TwoInOrder
    <2> QED BY <2>1, <2>2
  <1>6. FieldLess(IsoText(p)[i], IsoText(q)[i])
    BY <1>2, <1>3, <1>5
  <1>7. \A j \in 1..(i - 1) : IsoText(p)[j] = IsoText(q)[j]
    BY <1>2, <1>3
  <1>8. i \in DOMAIN IsoText(p)
    BY <1>2
  <1> HIDE DEF FieldLess
  <1> QED BY <1>6, <1>7, <1>8 DEF TextLess, Less

\* The parts of a second: the date of its day, and the time of day.
IsSplit(secs, days, h, m, s) ==
    /\ secs = 86400 * days + 3600 * h + 60 * m + s
    /\ EpochToParts(secs) = <<Civil(days)[1], Civil(days)[2], Civil(days)[3], h, m, s>>

\* The days in as many seconds, and the rest in hours, minutes and seconds.
Split(secs) ==
    <<((secs \div 60) \div 60) \div 24, ((secs \div 60) \div 60) % 24, (secs \div 60) % 60, secs % 60>>

\* Split takes an instant apart into its day and a time of day.
LEMMA PartsOf ==
    ASSUME NEW secs \in Nat, NEW t, t = Split(secs)
    PROVE  /\ t[1] \in Nat /\ t[2] \in 0..23 /\ t[3] \in 0..59 /\ t[4] \in 0..59
           /\ IsSplit(secs, t[1], t[2], t[3], t[4])
PROOF
  <1>1. PICK mins \in Nat, s \in 0..59 :
            mins = secs \div 60 /\ s = secs % 60 /\ secs = 60 * mins + s
    <2>1. secs % 60 \in 0..59
      BY SMT
    <2> QED BY <2>1, Remainders
  <1>2. PICK hours \in Nat, m \in 0..59 :
            hours = mins \div 60 /\ m = mins % 60 /\ mins = 60 * hours + m
    <2>1. mins % 60 \in 0..59
      BY SMT
    <2> QED BY <2>1, Remainders
  <1>3. PICK days \in Nat, h \in 0..23 :
            days = hours \div 24 /\ h = hours % 24 /\ hours = 24 * days + h
    <2>1. hours % 24 \in 0..23
      BY SMT
    <2> QED BY <2>1, Remainders
  <1>4. EpochToParts(secs) = <<Civil(days)[1], Civil(days)[2], Civil(days)[3], h, m, s>>
    BY <1>1, <1>2, <1>3 DEF EpochToParts
  <1>5. secs = 86400 * days + 3600 * h + 60 * m + s
    BY <1>1, <1>2, <1>3
  <1>6. IsSplit(secs, days, h, m, s)
    BY <1>4, <1>5 DEF IsSplit
  <1>7. t[1] = days /\ t[2] = h /\ t[3] = m /\ t[4] = s
    BY <1>1, <1>2, <1>3 DEF Split
  <1> QED BY <1>6, <1>7

\* A date up to the year 9999 fits in its fields.
LEMMA DateFits ==
    ASSUME NEW days \in Nat, days <= LastFourDigitDay
    PROVE  Fits(Civil(days), 3)
PROOF
  <1>1. PICK y \in Nat, m \in 1..12, d \in 1..31 : Civil(days) = <<y, m, d>>
    BY CivilRange
  <1>2. y <= 9999
    BY <1>1, YearFits
  <1> QED BY <1>1, <1>2 DEF Fits

\* So does an instant.
LEMMA InstantFits ==
    ASSUME NEW secs \in Nat, secs < 86400 * (LastFourDigitDay + 1)
    PROVE  Fits(EpochToParts(secs), 6)
PROOF
  <1>1. PICK days, h, m, s :
            /\ days \in Nat /\ h \in 0..23 /\ m \in 0..59 /\ s \in 0..59
            /\ IsSplit(secs, days, h, m, s)
    <2>1. PICK t : t = Split(secs)
      OBVIOUS
    <2>2. /\ t[1] \in Nat /\ t[2] \in 0..23 /\ t[3] \in 0..59 /\ t[4] \in 0..59
          /\ IsSplit(secs, t[1], t[2], t[3], t[4])
      BY <2>1, PartsOf
    <2> QED BY <2>2
  <1>2. days <= LastFourDigitDay
    BY <1>1 DEF IsSplit, LastFourDigitDay
  <1>3. PICK y \in Nat, mo \in 1..12, d \in 1..31 : Civil(days) = <<y, mo, d>>
    BY <1>1, CivilRange
  <1>4. y <= 9999
    BY <1>1, <1>2, <1>3, YearFits
  <1>5. EpochToParts(secs) = <<y, mo, d, h, m, s>>
    BY <1>1, <1>3 DEF IsSplit
  <1> QED BY <1>1, <1>4, <1>5 DEF Fits

\* An instant survives being stored and parsed again (fmt_iso, iso_to_epoch),
\* for every second up to the end of the year 9999.
THEOREM StoredInstantIsRead ==
    ASSUME NEW secs \in Nat, secs < 86400 * (LastFourDigitDay + 1)
    PROVE  PartsToEpoch(IsoParts(IsoText(EpochToParts(secs)))) = secs
PROOF
  <1>1. Fits(EpochToParts(secs), 6)
    BY InstantFits
  <1>2. IsoParts(IsoText(EpochToParts(secs))) = EpochToParts(secs)
    BY <1>1, TextIsRead
  <1> QED BY <1>2, InstantIsFound

\* A later second has a later text, up to the end of the year 9999: what the
\* table orders by (ORDER BY issued_at in get_active) is time, to the second.
THEOREM TextsSortAsTime ==
    ASSUME NEW a \in Nat, NEW b \in Nat, a < b, b < 86400 * (LastFourDigitDay + 1)
    PROVE  TextLess(IsoText(EpochToParts(a)), IsoText(EpochToParts(b)))
PROOF
  <1>1. Fits(EpochToParts(a), 6) /\ Fits(EpochToParts(b), 6)
    <2>1. a < 86400 * (LastFourDigitDay + 1)
      BY DEF LastFourDigitDay
    <2> QED BY <2>1, InstantFits
  <1>2. PICK days, h, m, s :
            /\ days \in Nat /\ h \in 0..23 /\ m \in 0..59 /\ s \in 0..59
            /\ IsSplit(a, days, h, m, s)
    <2>1. PICK t : t = Split(a)
      OBVIOUS
    <2>2. /\ t[1] \in Nat /\ t[2] \in 0..23 /\ t[3] \in 0..59 /\ t[4] \in 0..59
          /\ IsSplit(a, t[1], t[2], t[3], t[4])
      BY <2>1, PartsOf
    <2> QED BY <2>2
  <1>3. PICK days1, h1, m1, s1 :
            /\ days1 \in Nat /\ h1 \in 0..23 /\ m1 \in 0..59 /\ s1 \in 0..59
            /\ IsSplit(b, days1, h1, m1, s1)
    <2>1. PICK t : t = Split(b)
      OBVIOUS
    <2>2. /\ t[1] \in Nat /\ t[2] \in 0..23 /\ t[3] \in 0..59 /\ t[4] \in 0..59
          /\ IsSplit(b, t[1], t[2], t[3], t[4])
      BY <2>1, PartsOf
    <2> QED BY <2>2
  <1>4. \/ days < days1
        \/ days = days1 /\ (h < h1 \/ (h = h1 /\ (m < m1 \/ (m = m1 /\ s < s1))))
    BY <1>2, <1>3 DEF IsSplit
  <1> DEFINE p == EpochToParts(a)
             q == EpochToParts(b)
  <1>5. PICK i \in 1..6 : p[i] < q[i] /\ \A j \in 1..(i - 1) : p[j] = q[j]
    <2>1. PICK c, e : c = Civil(days) /\ e = Civil(days1)
      OBVIOUS
    <2>2. p = <<c[1], c[2], c[3], h, m, s>> /\ q = <<e[1], e[2], e[3], h1, m1, s1>>
      BY <1>2, <1>3, <2>1 DEF IsSplit
    <2> HIDE DEF p, q
    <2>3. CASE days < days1
      <3>1. Earlier(c, e)
        BY <1>2, <1>3, <2>1, <2>3, LaterDay
      <3>2. CASE c[1] < e[1]
        BY <2>2, <3>2
      <3>3. CASE c[1] = e[1] /\ c[2] < e[2]
        BY <2>2, <3>3
      <3>4. CASE c[1] = e[1] /\ c[2] = e[2] /\ c[3] < e[3]
        BY <2>2, <3>4
      <3> QED BY <3>1, <3>2, <3>3, <3>4 DEF Earlier
    <2>4. CASE days = days1
      <3>1. c = e
        BY <2>1, <2>4
      <3>2. CASE h < h1
        BY <2>2, <3>1, <3>2
      <3>3. CASE h = h1 /\ m < m1
        BY <2>2, <3>1, <3>3
      <3>4. CASE h = h1 /\ m = m1 /\ s < s1
        BY <2>2, <3>1, <3>4
      <3> QED BY <1>2, <1>3, <1>4, <2>4, <3>2, <3>3, <3>4
    <2> QED BY <1>4, <2>3, <2>4
  <1> HIDE DEF p, q
  <1>6. TextLess(IsoText(p), IsoText(q))
    BY <1>1, <1>5, FieldDecides DEF p, q
  <1> QED BY <1>6 DEF p, q

-----------------------------------------------------------------------------
(* The properties of the days that a run looks at *)

\* Day 0 is 1 January 1970.
LEMMA FirstDay == Civil(0) = <<1970, 1, 1>>
PROOF
  <1>1. YearLength(369) = 365
    BY DEF YearLength, IsLeap
  <1>2. DaysBefore(369) = 134774
    BY DEF DaysBefore
  <1>3. Civil(0) = DateOf(4, 369, 306)
    BY <1>1, <1>2, CivilIsDateOf
  <1>4. MonthOf(306) = 10
    BY DEF MonthOf
  <1> QED BY <1>3, <1>4, MonthStarts DEF DateOf

\* The invariant of the days: they are counted, and date is the day's.
DaysInv == day \in Nat /\ day <= LastDay /\ date = Civil(day)

\* Every day is dated by Civil.
LEMMA DaysKept == Spec => []DaysInv
PROOF
  <1>1. Init => DaysInv
    BY LastDayAssumption, FirstDay DEF Init, DaysInv
  <1>2. DaysInv /\ [Next]_<<day, date>> => DaysInv'
    BY LastDayAssumption, NextDay DEF Next, DaysInv
  <1> QED BY <1>1, <1>2, PTL DEF Spec

\* A stored instant is parsed to the second it was formatted from, on every
\* day the run may look at (fmt_iso, iso_to_epoch).
THEOREM InstantsStayRoundTrip == Spec => []InstantRoundTrip
PROOF
  <1>1. DaysInv => InstantRoundTrip
    <2>1. SUFFICES ASSUME DaysInv, day < LastShortDay, NEW s \in Edges
                   PROVE  PartsToEpoch(IsoParts(IsoText(EpochToParts(day * 86400 + s))))
                            = day * 86400 + s
      BY DEF InstantRoundTrip
    <2>2. day * 86400 + s \in Nat /\ day * 86400 + s < 86400 * (LastFourDigitDay + 1)
      BY <2>1 DEF DaysInv, LastShortDay, LastFourDigitDay, Edges
    <2> QED BY <2>2, StoredInstantIsRead
  <1> QED BY <1>1, DaysKept, PTL

\* A later day has a later text, as long as the years have the four digits
\* fmt_iso gives them: ORDER BY issued_at in get_active is the order of time.
THEOREM TextOrderKept ==
    ASSUME LastDay <= LastFourDigitDay
    PROVE  Spec => TextOrderIsTimeOrder
PROOF
  <1>1. DaysInv /\ [Next]_<<day, date>>
            => [TextLess(IsoText(Civil(day)), IsoText(Civil(day')))]_<<day, date>>
    <2>1. SUFFICES ASSUME DaysInv, Next
                   PROVE  TextLess(IsoText(Civil(day)), IsoText(Civil(day')))
      OBVIOUS
    <2>2. /\ day \in Nat /\ day' \in Nat /\ day < day'
          /\ day <= LastFourDigitDay /\ day' <= LastFourDigitDay
      BY <2>1, LastDayAssumption DEF DaysInv, Next, LastFourDigitDay
    <2>3. Fits(Civil(day), 3) /\ Fits(Civil(day'), 3)
      BY <2>2, DateFits
    <2>4. Earlier(Civil(day), Civil(day'))
      BY <2>2, LaterDay
    <2>5. PICK i \in 1..3 : /\ Civil(day)[i] < Civil(day')[i]
                            /\ \A j \in 1..(i - 1) : Civil(day)[j] = Civil(day')[j]
      BY <2>4 DEF Earlier
    <2> QED BY <2>3, <2>5, FieldDecides
  <1> QED BY <1>1, DaysKept, PTL DEF Spec, TextOrderIsTimeOrder

\* What holds of the days holds when the serials are looked at beside them.
THEOREM DaysAmongConversions == ConversionsSpec => Spec
PROOF
  <1>1. ConversionsInit => Init
    BY DEF ConversionsInit
  <1>2. [ConversionsNext]_<<day, date, serial, used>> => [Next]_<<day, date>>
    BY DEF ConversionsNext
  <1> QED BY <1>1, <1>2, PTL DEF ConversionsSpec, Spec

-----------------------------------------------------------------------------
(* Serials: the text, what CAST reads from it, and the X.509 leaf *)

\* The last two digits of a serial's text are its digits in base 16, the four
\* before them are zeros.
LEMMA TextOfSerial ==
    ASSUME NEW n \in Serial
    PROVE  /\ Text(n) = <<0, 0, 0, 0, n \div 16, n % 16>>
           /\ n \div 16 \in 0..15 /\ n % 16 \in 0..15
           /\ n = 16 * (n \div 16) + (n % 16)
PROOF
  <1>1. n \in 0..255
    BY DEF Serial
  <1>2. /\ n \div 16 \in 0..15 /\ n % 16 \in 0..15
        /\ n = 16 * (n \div 16) + (n % 16)
    BY <1>1, SMT
  <1>3. PICK h \in 0..15, l \in 0..15 : n = 16 * h + l /\ h = n \div 16 /\ l = n % 16
    BY <1>2
  <1>4. (n \div 16) % 16 = h /\ (n \div 1) % 16 = l
    BY <1>3, SMT
  <1>5. /\ (n \div 256) % 16 = 0 /\ (n \div 4096) % 16 = 0
        /\ (n \div 65536) % 16 = 0 /\ (n \div 1048576) % 16 = 0
    BY <1>1, SMT
  <1>6. /\ 16 ^ 0 = 1 /\ 16 ^ 1 = 16 /\ 16 ^ 2 = 256 /\ 16 ^ 3 = 4096
        /\ 16 ^ 4 = 65536 /\ 16 ^ 5 = 1048576
    OBVIOUS
  <1>7. Text(n) = [i \in 1..6 |-> (n \div 16 ^ (6 - i)) % 16]
    BY DEF Text, Width
  <1>8. /\ Text(n)[1] = 0 /\ Text(n)[2] = 0 /\ Text(n)[3] = 0 /\ Text(n)[4] = 0
        /\ Text(n)[5] = h /\ Text(n)[6] = l
    BY <1>4, <1>5, <1>6, <1>7
  <1> QED BY <1>2, <1>3, <1>7, <1>8

\* The decimal prefix ends before the first letter.
LEMMA PrefixOf ==
    ASSUME NEW h \in 0..15, NEW l \in 0..15
    PROVE  PrefixLength(<<0, 0, 0, 0, h, l>>) = IF h > 9 THEN 4 ELSE IF l > 9 THEN 5 ELSE 6
PROOF
  <1> DEFINE text == <<0, 0, 0, 0, h, l>>
             Ends(k) == (\A i \in 1..k : text[i] <= 9) /\ (k = 6 \/ text[k + 1] > 9)
             e == IF h > 9 THEN 4 ELSE IF l > 9 THEN 5 ELSE 6
  <1>1. /\ text[1] = 0 /\ text[2] = 0 /\ text[3] = 0 /\ text[4] = 0
        /\ text[5] = h /\ text[6] = l
    OBVIOUS
  <1>2. PrefixLength(text) = CHOOSE k \in 0..6 : Ends(k)
    BY DEF PrefixLength, Width
  <1> HIDE DEF text
  <1>3. e \in 0..6 /\ Ends(e)
    BY <1>1
  <1>4. ASSUME NEW k \in 0..6, Ends(k) PROVE k = e
    BY <1>1, <1>4
  <1> HIDE DEF Ends, e
  <1>5. (CHOOSE k \in 0..6 : Ends(k)) = e
    BY <1>3, <1>4
  <1>6. PrefixLength(text) = e
    BY <1>2, <1>5
  <1> QED BY <1>6 DEF text, e

\* What CAST computes digit by digit is the closed form.
LEMMA CastIsReading ==
    ASSUME NEW n \in Serial
    PROVE  CastInteger(Text(n)) = DecimalReading(n)
PROOF
  <1>1. PICK h \in 0..15, l \in 0..15 : h = n \div 16 /\ l = n % 16
    BY TextOfSerial
  <1> DEFINE text == <<0, 0, 0, 0, h, l>>
             Step(v) == [k \in 0..6 |-> IF k = 0 THEN 0 ELSE 10 * v[k - 1] + text[k]]
             w == [k \in 0..6 |-> IF k <= 4 THEN 0 ELSE IF k = 5 THEN h ELSE 10 * h + l]
             value == CHOOSE v : v = Step(v)
             e == IF h > 9 THEN 4 ELSE IF l > 9 THEN 5 ELSE 6
  <1>2. /\ text[1] = 0 /\ text[2] = 0 /\ text[3] = 0 /\ text[4] = 0
        /\ text[5] = h /\ text[6] = l
    OBVIOUS
  <1>3. Text(n) = text
    BY <1>1, TextOfSerial
  <1>4. CastInteger(text) = value[PrefixLength(text)]
    BY DEF CastInteger, Width
  <1>5. PrefixLength(text) = e
    BY PrefixOf
  <1> HIDE DEF text
  <1>6. w = Step(w)
    BY <1>2
  <1>7. value = Step(value)
    BY <1>6
  <1> HIDE DEF value, w
  <1>8. /\ value[0] = 0 /\ value[1] = 10 * value[0] + 0 /\ value[2] = 10 * value[1] + 0
        /\ value[3] = 10 * value[2] + 0 /\ value[4] = 10 * value[3] + 0
        /\ value[5] = 10 * value[4] + h /\ value[6] = 10 * value[5] + l
    BY <1>2, <1>7
  <1>9. value[4] = 0 /\ value[5] = h /\ value[6] = 10 * h + l
    BY <1>8
  <1>10. DecimalReading(n) = IF h > 9 THEN 0 ELSE IF l > 9 THEN h ELSE 10 * h + l
    BY <1>1 DEF DecimalReading
  <1>11. value[e] = IF h > 9 THEN 0 ELSE IF l > 9 THEN h ELSE 10 * h + l
    BY <1>9
  <1> QED BY <1>3, <1>4, <1>5, <1>10, <1>11

\* Three bytes stand for as many digits in base 256.
LEMMA BytesRead ==
    ASSUME NEW bytes \in [1..3 -> Nat]
    PROVE  FromBytes(bytes) = 65536 * bytes[1] + 256 * bytes[2] + bytes[3]
PROOF
  <1>1. Len(bytes) = 3
    OBVIOUS
  <1>2. PICK a, b, c : a = bytes[1] /\ b = bytes[2] /\ c = bytes[3]
    OBVIOUS
  <1> a \in Nat /\ b \in Nat /\ c \in Nat
    BY <1>2
  <1> DEFINE Step(v) == [k \in 0..Len(bytes) |-> IF k = 0 THEN 0 ELSE 256 * v[k - 1] + bytes[k]]
             w == [k \in 0..3 |-> IF k = 0 THEN 0 ELSE IF k = 1 THEN a
                                  ELSE IF k = 2 THEN 256 * a + b ELSE 65536 * a + 256 * b + c]
             value == CHOOSE v : v = Step(v)
  <1>3. FromBytes(bytes) = value[3]
    BY <1>1 DEF FromBytes
  <1>4. w = Step(w)
    BY <1>1, <1>2
  <1> HIDE DEF w
  <1>5. value = Step(value)
    BY <1>4
  <1> HIDE DEF value
  <1>6. /\ value[0] = 0 /\ value[1] = 256 * value[0] + a
        /\ value[2] = 256 * value[1] + b /\ value[3] = 256 * value[2] + c
    BY <1>1, <1>2, <1>5
  <1>7. value[3] = 65536 * a + 256 * b + c
    BY <1>6
  <1> QED BY <1>2, <1>3, <1>7

\* The text of a serial as rows hold it.
LEMMA WireText ==
    ASSUME NEW n \in Serial
    PROVE  \E h \in 0..15, l \in 0..15 :
               n = 16 * h + l /\ Wire(n) = <<0, 16, 0, 0, 0, 0, h, l>>
PROOF
  <1>1. PICK h \in 0..15, l \in 0..15 : h = n \div 16 /\ l = n % 16 /\ n = 16 * h + l
    BY TextOfSerial
  <1>2. Text(n) = <<0, 0, 0, 0, h, l>>
    BY <1>1, TextOfSerial
  <1>3. Wire(n) = <<0, 16>> \o <<0, 0, 0, 0, h, l>>
    BY <1>2 DEF Wire, Letter
  <1>4. Len(Wire(n)) = 8 /\ Wire(n) \in Seq(Nat)
    BY <1>3
  <1>5. /\ Wire(n)[1] = 0 /\ Wire(n)[2] = 16 /\ Wire(n)[3] = 0 /\ Wire(n)[4] = 0
        /\ Wire(n)[5] = 0 /\ Wire(n)[6] = 0 /\ Wire(n)[7] = h /\ Wire(n)[8] = l
    BY <1>3
  <1>6. Wire(n) = <<0, 16, 0, 0, 0, 0, h, l>>
    BY <1>4, <1>5
  <1> QED BY <1>1, <1>6

\* A leaf whose port takes the prefix away carries the serial of its row.
LEMMA LeafOfRow ==
    ASSUME NEW n \in Serial, NEW port, port \notin {"go", "ts"}
    PROVE  IsHex(LeafText(port, Wire(n))) /\ LeafSerial(port, Wire(n)) = n
PROOF
  <1>1. PICK h \in 0..15, l \in 0..15 : n = 16 * h + l /\ Wire(n) = <<0, 16, 0, 0, 0, 0, h, l>>
    BY WireText
  <1> DEFINE hex == LeafText(port, Wire(n))
             bytes == [i \in 1..(Len(hex) \div 2) |-> 16 * hex[2 * i - 1] + hex[2 * i]]
  <1>2. hex = <<0, 0, 0, 0, h, l>>
    <2> DEFINE whole == <<0, 16, 0, 0, 0, 0, h, l>>
    <2>1. hex = SubSeq(whole, 3, 8)
      BY <1>1 DEF LeafText
    <2>2. Len(hex) = 6 /\ \A i \in 1..6 : hex[i] = whole[i + 2]
      BY <2>1
    <2>3. hex \in Seq(Nat)
      BY <2>1
    <2>4. hex[1] = 0 /\ hex[2] = 0 /\ hex[3] = 0 /\ hex[4] = 0 /\ hex[5] = h /\ hex[6] = l
      BY <2>2
    <2> HIDE DEF hex
    <2> QED BY <2>2, <2>3, <2>4
  <1>3. Len(hex) \div 2 = 3
    BY <1>2
  <1>4. IsHex(hex)
    BY <1>2 DEF IsHex, Letter
  <1>5. IsHex(LeafText(port, Wire(n))) /\ LeafSerial(port, Wire(n)) = FromBytes(bytes)
    BY <1>4 DEF LeafSerial
  <1> HIDE DEF hex
  <1>6. bytes = [i \in 1..3 |-> 16 * hex[2 * i - 1] + hex[2 * i]]
    BY <1>3
  <1> HIDE DEF bytes
  <1>7. bytes[1] = 0 /\ bytes[2] = 0 /\ bytes[3] = 16 * h + l
    BY <1>2, <1>6
  <1>8. bytes \in [1..3 -> Nat]
    <2>1. \A i \in 1..3 : bytes[i] \in Nat
      BY <1>7
    <2>2. DOMAIN bytes = 1..3 /\ bytes = [i \in 1..3 |-> bytes[i]]
      BY <1>6
    <2> QED BY <2>1, <2>2
  <1>9. FromBytes(bytes) = 16 * h + l
    BY <1>7, <1>8, BytesRead
  <1> QED BY <1>1, <1>5, <1>9

\* The whole text, with its prefix, is not hexadecimal.
LEMMA WholeTextRefused ==
    ASSUME NEW n \in Serial, NEW port \in {"go", "ts"}
    PROVE  ~IsHex(LeafText(port, Wire(n)))
PROOF
  <1>1. PICK h \in 0..15, l \in 0..15 : Wire(n) = <<0, 16, 0, 0, 0, 0, h, l>>
    BY WireText
  <1>2. ~IsHex(Wire(n))
    <2>1. Len(Wire(n)) = 8 /\ Wire(n)[2] = 16
      BY <1>1
    <2> QED BY <2>1 DEF IsHex, Letter
  <1> QED BY <1>2 DEF LeafText

\* After the serials 1 to k comes k + 1, and after 10 again 10.
LEMMA NextOfFirst ==
    ASSUME NEW k \in 0..10
    PROVE  NextSerial(1..k) = IF k = 10 THEN 10 ELSE k + 1
PROOF
  <1>1. ASSUME NEW s \in 1..10 PROVE DecimalReading(s) = IF s = 10 THEN 0 ELSE s
    <2>1. s \div 16 = 0 /\ s % 16 = s
      BY SMT
    <2> QED BY <2>1 DEF DecimalReading
  <1> DEFINE m == IF k = 10 THEN 9 ELSE k
             R == Readings(1..k)
  <1>2. R = {0} \cup {DecimalReading(s) : s \in 1..k}
    BY DEF Readings
  <1> HIDE DEF R
  <1>3. m \in R
    BY <1>1, <1>2
  <1>4. \A x \in R : x \in Nat /\ x <= m
    BY <1>1, <1>2
  <1>5. \A x \in R : IsLargest(x, R) <=> x = m
    BY <1>3, <1>4 DEF IsLargest
  <1> HIDE DEF m
  <1>6. (CHOOSE x \in R : IsLargest(x, R)) = m
    BY <1>3, <1>5
  <1>7. NextSerial(1..k) = 1 + m
    BY <1>6 DEF NextSerial, R
  <1> QED BY <1>7 DEF m

-----------------------------------------------------------------------------
(* One serial after the other *)

SerialsInv ==
    /\ serial \in Nat /\ serial <= MaxSerial
    /\ used = 1..(IF serial < 10 THEN serial ELSE 10)

\* What a run looks at stays so.
LEMMA SerialsKept == ConversionsSpec => []SerialsInv
PROOF
  <1>0. MaxSerial \in 0..255
    BY MaxSerialAssumption DEF Serial
  <1>1. ConversionsInit => SerialsInv
    BY <1>0 DEF ConversionsInit, SerialInit, SerialsInv
  <1>2. SerialsInv /\ [ConversionsNext]_<<day, date, serial, used>> => SerialsInv'
    <2>1. SUFFICES ASSUME SerialsInv, [ConversionsNext]_<<day, date, serial, used>>
                   PROVE  SerialsInv'
      OBVIOUS
    <2>2. CASE UNCHANGED <<serial, used>>
      BY <2>1, <2>2 DEF SerialsInv
    <2>3. CASE SerialNext
      <3>1. PICK k \in 0..10 : k = (IF serial < 10 THEN serial ELSE 10)
        BY <2>1 DEF SerialsInv
      <3>2. used' = 1..k \cup {IF k = 10 THEN 10 ELSE k + 1}
        BY <2>1, <2>3, <3>1, NextOfFirst DEF SerialNext, SerialsInv
      <3>3. used' = 1..(IF k = 10 THEN 10 ELSE k + 1)
        BY <3>2
      <3>4. serial' = serial + 1 /\ serial < MaxSerial /\ serial \in Nat /\ serial <= MaxSerial
        BY <2>1, <2>3 DEF SerialNext, SerialsInv
      <3>5. (IF k = 10 THEN 10 ELSE k + 1) = (IF serial' < 10 THEN serial' ELSE 10)
        BY <3>1, <3>4
      <3> QED BY <1>0, <3>3, <3>4, <3>5 DEF SerialsInv
    <2> QED BY <2>1, <2>2, <2>3 DEF ConversionsNext
  <1> QED BY <1>1, <1>2, PTL DEF ConversionsSpec

\* A serial a run looks at has a text.
LEMMA SerialIsSerial == SerialsInv => serial \in Serial
PROOF BY MaxSerialAssumption DEF SerialsInv, Serial

\* The closed form of Serials, which every port's model uses, is what the CAST
\* of the query in next_serial computes from the text "%06X" has written.
THEOREM ReadingIsWhatCastReads == ConversionsSpec => []ReadingIsCast
PROOF
  <1>1. SerialsInv => ReadingIsCast
    BY SerialIsSerial, CastIsReading DEF ReadingIsCast
  <1> QED BY <1>1, SerialsKept, PTL

\* Serials taken one after the other go to 10 and stay there: the number
\* next_serial returns has then been stored before.
THEOREM SerialsStopAtTen == ConversionsSpec => []StopsAtTen
PROOF
  <1>1. SerialsInv => StopsAtTen
    BY DEF SerialsInv, StopsAtTen
  <1> QED BY <1>1, SerialsKept, PTL

\* The X.509 leaf carries the serial of its row in Rust, Java and Python; what
\* Go and TypeScript hand over is not hexadecimal, for its prefix.
THEOREM LeafCarriesRowsSerial == ConversionsSpec => []LeafSerialIsRows
PROOF
  <1>1. SerialsInv => LeafSerialIsRows
    <2>1. SUFFICES ASSUME serial \in Serial PROVE LeafSerialIsRows
      BY SerialIsSerial
    <2>2. \A port \in {"go", "ts"} : ~IsHex(LeafText(port, Wire(serial)))
      BY <2>1, WholeTextRefused
    <2>3. \A port \in {"rust", "java", "python"} :
              IsHex(LeafText(port, Wire(serial))) /\ LeafSerial(port, Wire(serial)) = serial
      BY <2>1, LeafOfRow
    <2> QED BY <2>2, <2>3 DEF LeafSerialIsRows
  <1> QED BY <1>1, SerialsKept, PTL

-----------------------------------------------------------------------------
(* Object identifiers: an arc in base 128 *)

\* The numbers of 64 bits, which the arcs of the code are (u64), are below 2^64.
\* The powers of 2 are written out: the prover multiplies numerals in 63 bits.
U64 == 18446744073709551616

\* v is x and what n shifts make of it, one after the other.
IsShifts(v, x, n) == v = [j \in 0..n |-> IF j = 0 THEN x ELSE v[j - 1] \div 128]

\* There is such a v, whatever n is.
LEMMA ShiftsExist ==
    ASSUME NEW x, NEW n \in Nat
    PROVE  \E v : IsShifts(v, x, n)
PROOF
  <1> DEFINE S == {k \in Nat : \E v : IsShifts(v, x, k)}
  <1>1. 0 \in S
    <2>1. PICK v : v = [j \in 0..0 |-> x]
      OBVIOUS
    <2>2. v = [j \in 0..0 |-> IF j = 0 THEN x ELSE v[j - 1] \div 128]
      BY <2>1
    <2> QED BY <2>2 DEF IsShifts
  <1>2. ASSUME NEW k \in Nat, k \in S PROVE k + 1 \in S
    <2>1. PICK v : v = [j \in 0..k |-> IF j = 0 THEN x ELSE v[j - 1] \div 128]
      BY <1>2 DEF IsShifts
    <2>2. PICK w : w = [j \in 0..(k + 1) |-> IF j <= k THEN v[j] ELSE v[k] \div 128]
      OBVIOUS
    <2>3. ASSUME NEW j \in 0..(k + 1)
          PROVE  w[j] = IF j = 0 THEN x ELSE w[j - 1] \div 128
      <3>1. CASE j = 0
        BY <2>1, <2>2, <3>1
      <3>2. CASE j \in 1..k
        <4>1. w[j] = v[j] /\ w[j - 1] = v[j - 1] /\ v[j] = v[j - 1] \div 128
          BY <2>1, <2>2, <3>2
        <4> QED BY <3>2, <4>1
      <3>3. CASE j = k + 1
        <4>1. w[j] = v[k] \div 128 /\ w[j - 1] = v[k]
          BY <2>2, <3>3
        <4> QED BY <3>3, <4>1
      <3> QED BY <3>1, <3>2, <3>3
    <2>4. w = [j \in 0..(k + 1) |-> IF j = 0 THEN x ELSE w[j - 1] \div 128]
      BY <2>2, <2>3
    <2> QED BY <2>4 DEF IsShifts
  <1> HIDE DEF S
  <1>3. n \in S
    BY <1>1, <1>2, AllNaturals
  <1> QED BY <1>3 DEF S

\* Shifted is the recursion it is written as.
LEMMA Shifts ==
    ASSUME NEW x
    PROVE  /\ Shifted(x, 0) = x
           /\ \A i \in 0..9 : Shifted(x, i + 1) = Shifted(x, i) \div 128
PROOF
  <1> DEFINE Step(v) == [j \in 0..10 |-> IF j = 0 THEN x ELSE v[j - 1] \div 128]
             shift == CHOOSE v : v = Step(v)
  <1>0. PICK w : w = Step(w)
    <2>1. PICK n \in Nat : n = 10
      OBVIOUS
    <2>2. PICK v : IsShifts(v, x, n)
      BY ShiftsExist
    <2>4. v = Step(v)
      BY <2>1, <2>2 DEF IsShifts
    <2> QED BY <2>4
  <1>1. shift = Step(shift)
    BY <1>0
  <1>2. \A i : Shifted(x, i) = shift[i]
    BY DEF Shifted
  <1> HIDE DEF shift
  <1>3. shift[0] = x
    BY <1>1
  <1>4. ASSUME NEW i \in 0..9 PROVE shift[i + 1] = shift[i] \div 128
    BY <1>1
  <1> QED BY <1>2, <1>3, <1>4

\* A shift takes one septet away.
LEMMA Divided ==
    ASSUME NEW n \in Nat
    PROVE  n \div 128 \in Nat /\ n % 128 \in 0..127 /\ n = 128 * (n \div 128) + (n % 128)
PROOF BY SMT

\* One shift of a natural is a division by 128.
LEMMA ShiftStep ==
    ASSUME NEW x \in Nat, NEW i \in 0..9, Shifted(x, i) \in Nat
    PROVE  /\ Shifted(x, i + 1) \in Nat
           /\ Shifted(x, i) % 128 \in 0..127
           /\ Shifted(x, i) = 128 * Shifted(x, i + 1) + (Shifted(x, i) % 128)
PROOF
  <1>1. PICK n \in Nat : n = Shifted(x, i)
    OBVIOUS
  <1>2. Shifted(x, i + 1) = n \div 128
    BY <1>1, Shifts
  <1> QED BY <1>1, <1>2, Divided

\* Shifts of a natural are naturals.
LEMMA ShiftedType ==
    ASSUME NEW x \in Nat PROVE \A i \in 0..10 : Shifted(x, i) \in Nat
PROOF
  <1> DEFINE S == {k \in Nat : k <= 10 => Shifted(x, k) \in Nat}
  <1>1. 0 \in S
    BY Shifts
  <1>2. ASSUME NEW k \in Nat, k \in S PROVE k + 1 \in S
    <2>1. SUFFICES ASSUME k + 1 <= 10 PROVE Shifted(x, k + 1) \in Nat
      OBVIOUS
    <2>2. k \in 0..9 /\ Shifted(x, k) \in Nat
      BY <1>2, <2>1
    <2> QED BY <2>2, ShiftStep
  <1> HIDE DEF S
  <1>3. ASSUME NEW i \in 0..10 PROVE i \in S
    BY <1>1, <1>2, AllNaturals
  <1>4. ASSUME NEW i \in 0..10 PROVE Shifted(x, i) \in Nat
    BY <1>3 DEF S
  <1> QED BY <1>4

\* Ten shifts leave nothing of 64 bits.
LEMMA ShiftedOut ==
    ASSUME NEW x \in Nat, x < U64 PROVE Shifted(x, 10) = 0
PROOF
  <1>1. \A i \in 0..10 : Shifted(x, i) \in Nat
    BY ShiftedType
  <1>2. ASSUME NEW i \in 0..9, NEW j, j = i + 1
        PROVE  \E m \in Nat : m = Shifted(x, i) /\ Shifted(x, j) = m \div 128
    BY <1>1, <1>2, Shifts
  <1>3. Shifted(x, 0) < 18446744073709551616
    BY Shifts, SMT DEF U64
  <1>4. Shifted(x, 1) < 144115188075855872
    BY <1>2, <1>3, SMT
  <1>5. Shifted(x, 2) < 1125899906842624
    BY <1>2, <1>4, SMT
  <1>6. Shifted(x, 3) < 8796093022208
    BY <1>2, <1>5, SMT
  <1>7. Shifted(x, 4) < 68719476736
    BY <1>2, <1>6, SMT
  <1>8. Shifted(x, 5) < 536870912
    BY <1>2, <1>7, SMT
  <1>9. Shifted(x, 6) < 4194304
    BY <1>2, <1>8, SMT
  <1>10. Shifted(x, 7) < 32768
    BY <1>2, <1>9, SMT
  <1>11. Shifted(x, 8) < 256
    BY <1>2, <1>10, SMT
  <1>12. Shifted(x, 9) < 2
    BY <1>2, <1>11, SMT
  <1>13. Shifted(x, 10) < 1
    BY <1>2, <1>12, SMT
  <1> QED BY <1>1, <1>13

\* An arc of 64 bits has at most ten bytes, and nothing is above them.
LEMMA SeptetsOf ==
    ASSUME NEW x \in Nat, x < U64
    PROVE  Septets(x) \in 1..10 /\ Shifted(x, Septets(x)) = 0
PROOF
  <1> DEFINE Ends(k) == Shifted(x, k) = 0 /\ (k = 1 \/ Shifted(x, k - 1) > 0)
  <1>1. \E k \in 1..10 : Ends(k)
    <2>1. SUFFICES ASSUME \A k \in 1..10 : ~Ends(k) PROVE FALSE
      OBVIOUS
    <2> DEFINE S == {k \in Nat : k <= 9 => Shifted(x, 10 - k) = 0}
    <2>2. 0 \in S
      BY ShiftedOut
    <2>3. ASSUME NEW k \in Nat, k \in S PROVE k + 1 \in S
      <3>1. SUFFICES ASSUME k + 1 <= 9 PROVE Shifted(x, 10 - (k + 1)) = 0
        OBVIOUS
      <3>2. PICK m \in 2..10 : m = 10 - k /\ Shifted(x, m) = 0 /\ m - 1 = 10 - (k + 1)
        BY <2>3, <3>1
      <3>3. ~(Shifted(x, m - 1) > 0)
        BY <2>1, <3>2
      <3>4. \A i \in 0..10 : Shifted(x, i) \in Nat
        BY ShiftedType
      <3> QED BY <3>2, <3>3, <3>4
    <2> HIDE DEF S
    <2>4. 9 \in S
      BY <2>2, <2>3, AllNaturals
    <2>5. Shifted(x, 1) = 0
      BY <2>4 DEF S
    <2> QED BY <2>1, <2>5
  <1>2. Septets(x) = CHOOSE k \in 1..10 : Ends(k)
    BY DEF Septets
  <1> HIDE DEF Ends
  <1>3. Septets(x) \in 1..10 /\ Ends(Septets(x))
    BY <1>1, <1>2
  <1> QED BY <1>3 DEF Ends

\* The bytes of an arc, read after arcs that are complete.
ArcStates(arcs, x) ==
    [j \in 0..Septets(x) |->
        IF j = Septets(x) THEN [arcs |-> Append(arcs, x), n |-> 0]
        ELSE [arcs |-> arcs, n |-> Shifted(x, Septets(x) - j)]]

\* A relying party reads EncodeArc byte by byte as ArcStates says.
LEMMA ArcIsRead ==
    ASSUME NEW arcs, NEW x \in Nat, x < U64
    PROVE  /\ EncodeArc(x) \in [1..Septets(x) -> 0..255]
           /\ ArcStates(arcs, x)[0] = [arcs |-> arcs, n |-> 0]
           /\ \A j \in 1..Septets(x) :
                ArcStates(arcs, x)[j] = ReadByte(ArcStates(arcs, x)[j - 1], EncodeArc(x)[j])
PROOF
  <1>1. PICK k \in 1..10 : k = Septets(x) /\ Shifted(x, k) = 0
    BY SeptetsOf
  <1>2. EncodeArc(x) = [i \in 1..k |-> (Shifted(x, k - i) % 128) + (IF i < k THEN 128 ELSE 0)]
    BY <1>1 DEF EncodeArc
  <1>3. ASSUME NEW i \in 1..k
        PROVE  /\ Shifted(x, k - i) \in Nat /\ Shifted(x, (k - i) + 1) \in Nat
               /\ Shifted(x, k - i) % 128 \in 0..127
               /\ Shifted(x, k - i) = 128 * Shifted(x, (k - i) + 1) + (Shifted(x, k - i) % 128)
    <2>1. PICK m \in 0..9 : m = k - i
      BY <1>3
    <2>2. \A j \in 0..10 : Shifted(x, j) \in Nat
      BY ShiftedType
    <2>3. Shifted(x, m) \in Nat
      BY <2>2
    <2> QED BY <2>1, <2>3, ShiftStep
  <1>4. EncodeArc(x) \in [1..k -> 0..255]
    <2>1. ASSUME NEW i \in 1..k
          PROVE  (Shifted(x, k - i) % 128) + (IF i < k THEN 128 ELSE 0) \in 0..255
      <3>1. PICK r \in 0..127 : r = Shifted(x, k - i) % 128
        BY <1>3
      <3> QED BY <3>1
    <2> QED BY <1>2, <2>1
  <1>5. ArcStates(arcs, x)[0] = [arcs |-> arcs, n |-> 0]
    BY <1>1 DEF ArcStates
  <1>6. ASSUME NEW j \in 1..k
        PROVE  ArcStates(arcs, x)[j] = ReadByte(ArcStates(arcs, x)[j - 1], EncodeArc(x)[j])
    <2>1. ArcStates(arcs, x)[j - 1] = [arcs |-> arcs, n |-> Shifted(x, (k - j) + 1)]
      <3>1. j - 1 \in 0..k /\ j - 1 # k /\ k - (j - 1) = (k - j) + 1
        OBVIOUS
      <3> QED BY <1>1, <3>1 DEF ArcStates
    <2>2. PICK a, b, r :
              /\ a \in Nat /\ b \in Nat /\ r \in 0..127
              /\ a = Shifted(x, k - j) /\ b = Shifted(x, (k - j) + 1)
              /\ r = Shifted(x, k - j) % 128 /\ a = 128 * b + r
      BY <1>3
    <2>3. CASE j = k
      <3>1. EncodeArc(x)[j] = r /\ r < 128
        BY <1>2, <2>2, <2>3
      <3>2. a = x
        BY <2>2, <2>3, Shifts
      <3>3. b * 128 + r = x
        BY <2>2, <3>2
      <3>4. ArcStates(arcs, x)[j] = [arcs |-> Append(arcs, x), n |-> 0]
        BY <1>1, <2>3 DEF ArcStates
      <3>5. ReadByte(ArcStates(arcs, x)[j - 1], r) = [arcs |-> Append(arcs, b * 128 + r), n |-> 0]
        BY <2>1, <2>2, <3>1 DEF ReadByte
      <3> QED BY <3>1, <3>3, <3>4, <3>5
    <2>4. CASE j < k
      <3>1. EncodeArc(x)[j] = r + 128 /\ ~(r + 128 < 128)
        BY <1>2, <2>2, <2>4
      <3>2. b * 128 + (r + 128) - 128 = a
        BY <2>2
      <3>3. ArcStates(arcs, x)[j] = [arcs |-> arcs, n |-> a]
        BY <1>1, <2>2, <2>4 DEF ArcStates
      <3> QED BY <2>1, <2>2, <3>1, <3>2, <3>3 DEF ReadByte
    <2> QED BY <2>3, <2>4
  <1> QED BY <1>1, <1>4, <1>5, <1>6

\* w is what a relying party has read after each of the bytes.
Fresh(arcs) == [arcs |-> arcs, n |-> 0]
IsReading(w, bytes) ==
    w = [k \in 0..Len(bytes) |-> IF k = 0 THEN Fresh(<<>>) ELSE ReadByte(w[k - 1], bytes[k])]

\* The bytes are read as these arcs, the last of them complete.
ReadAs(bytes, arcs) == \E w : IsReading(w, bytes) /\ w[Len(bytes)] = Fresh(arcs)

Bytes == 0..255

\* What is read of given bytes does not depend on the reader.
LEMMA OneReading ==
    ASSUME NEW bytes \in Seq(Bytes), NEW v, NEW w, IsReading(v, bytes), IsReading(w, bytes)
    PROVE  v[Len(bytes)] = w[Len(bytes)]
PROOF
  <1>1. PICK n \in Nat : n = Len(bytes)
    OBVIOUS
  <1> DEFINE S == {k \in Nat : k <= n => v[k] = w[k]}
  <1>2. 0 \in S
    BY <1>1 DEF IsReading
  <1>3. ASSUME NEW k \in Nat, k \in S PROVE k + 1 \in S
    <2>1. SUFFICES ASSUME k + 1 <= n PROVE v[k + 1] = w[k + 1]
      OBVIOUS
    <2>2. v[k] = w[k]
      BY <1>3, <2>1
    <2>3. k + 1 \in 0..n /\ k + 1 # 0 /\ (k + 1) - 1 = k
      BY <2>1
    <2>4. v[k + 1] = ReadByte(v[k], bytes[k + 1])
      BY <1>1, <2>3 DEF IsReading
    <2>5. w[k + 1] = ReadByte(w[k], bytes[k + 1])
      BY <1>1, <2>3 DEF IsReading
    <2> QED BY <2>2, <2>4, <2>5
  <1> HIDE DEF S
  <1>4. n \in S
    BY <1>2, <1>3, AllNaturals
  <1> QED BY <1>1, <1>4 DEF S

\* DecodeArcs reads what any reading reads.
LEMMA DecodeIsReading ==
    ASSUME NEW bytes \in Seq(Bytes), NEW arcs, ReadAs(bytes, arcs)
    PROVE  DecodeArcs(bytes) = arcs
PROOF
  <1> DEFINE Step(v) == [k \in 0..Len(bytes) |->
                            IF k = 0 THEN [arcs |-> <<>>, n |-> 0] ELSE ReadByte(v[k - 1], bytes[k])]
             read == CHOOSE v : v = Step(v)
  <1>1. PICK w : IsReading(w, bytes) /\ w[Len(bytes)] = Fresh(arcs)
    BY DEF ReadAs
  <1>2. w = Step(w)
    BY <1>1 DEF IsReading, Fresh
  <1>3. read = Step(read)
    BY <1>2
  <1>4. DecodeArcs(bytes) = read[Len(bytes)].arcs
    BY DEF DecodeArcs
  <1> HIDE DEF read
  <1>5. IsReading(read, bytes)
    BY <1>3 DEF IsReading, Fresh
  <1>6. read[Len(bytes)] = Fresh(arcs)
    BY <1>1, <1>5, OneReading
  <1> QED BY <1>4, <1>6 DEF Fresh

\* Of no bytes, no arcs are read.
LEMMA NothingRead == ReadAs(<<>>, <<>>)
PROOF
  <1>1. PICK w : w = [k \in 0..0 |-> Fresh(<<>>)]
    OBVIOUS
  <1>2. IsReading(w, <<>>) /\ w[Len(<<>>)] = Fresh(<<>>)
    BY <1>1 DEF IsReading
  <1> QED BY <1>2 DEF ReadAs

\* The bytes of one more arc are read as one more arc.
LEMMA ArcReadAfter ==
    ASSUME NEW bytes \in Seq(Bytes), NEW arcs, ReadAs(bytes, arcs), NEW x \in Nat, x < U64
    PROVE  /\ bytes \o EncodeArc(x) \in Seq(Bytes)
           /\ Len(bytes \o EncodeArc(x)) <= Len(bytes) + 10
           /\ ReadAs(bytes \o EncodeArc(x), Append(arcs, x))
PROOF
  <1>1. PICK n \in Nat : n = Len(bytes)
    OBVIOUS
  <1>2. PICK k \in 1..10 : k = Septets(x)
    BY SeptetsOf
  <1>3. PICK e : e = EncodeArc(x)
    OBVIOUS
  <1>4. e \in [1..k -> 0..255]
    BY <1>2, <1>3, ArcIsRead
  <1>5. e \in Seq(Bytes) /\ Len(e) = k
    BY <1>4 DEF Bytes
  <1>6. PICK all : all = bytes \o e
    OBVIOUS
  <1>7. /\ all \in Seq(Bytes) /\ Len(all) = n + k
        /\ \A j \in 1..n : all[j] = bytes[j]
        /\ \A j \in 1..k : all[n + j] = e[j]
    BY <1>1, <1>5, <1>6
  <1>8. PICK s : s = ArcStates(arcs, x)
    OBVIOUS
  <1>9. s[0] = Fresh(arcs) /\ \A j \in 1..k : s[j] = ReadByte(s[j - 1], e[j])
    BY <1>2, <1>3, <1>8, ArcIsRead DEF Fresh
  <1>10. s[k] = Fresh(Append(arcs, x))
    BY <1>2, <1>8 DEF ArcStates, Fresh
  <1>11. PICK w : IsReading(w, bytes) /\ w[n] = Fresh(arcs)
    BY <1>1 DEF ReadAs
  <1>12. PICK u : u = [j \in 0..(n + k) |-> IF j <= n THEN w[j] ELSE s[j - n]]
    OBVIOUS
  <1>13. u[0] = Fresh(<<>>)
    BY <1>1, <1>11, <1>12 DEF IsReading
  <1>14. ASSUME NEW j \in 1..(n + k) PROVE u[j] = ReadByte(u[j - 1], all[j])
    <2>1. CASE j <= n
      <3>1. w[j] = ReadByte(w[j - 1], bytes[j])
        BY <1>1, <1>11, <2>1 DEF IsReading
      <3>2. u[j] = w[j] /\ u[j - 1] = w[j - 1] /\ all[j] = bytes[j]
        BY <1>7, <1>12, <2>1
      <3> QED BY <3>1, <3>2
    <2>2. CASE j > n
      <3>1. PICK i \in 1..k : i = j - n /\ j = n + i
        BY <2>2
      <3>2. s[i] = ReadByte(s[i - 1], e[i]) /\ all[j] = e[i]
        BY <1>7, <1>9, <3>1
      <3>3. u[j] = s[i]
        BY <1>12, <2>2, <3>1
      <3>4. u[j - 1] = s[i - 1]
        <4>1. CASE i = 1
          <5>1. j - 1 = n /\ j - 1 \in 0..(n + k) /\ i - 1 = 0
            BY <3>1, <4>1
          <5>2. u[n] = w[n]
            BY <1>12
          <5> QED BY <1>9, <1>11, <5>1, <5>2
        <4>2. CASE i # 1
          <5>1. j - 1 \in 0..(n + k) /\ ~(j - 1 <= n) /\ (j - 1) - n = i - 1
            BY <3>1, <4>2
          <5> QED BY <1>12, <5>1
        <4> QED BY <4>1, <4>2
      <3> QED BY <3>2, <3>3, <3>4
    <2> QED BY <2>1, <2>2
  <1>15. IsReading(u, all)
    <2>1. ASSUME NEW j \in 0..(n + k)
          PROVE  u[j] = IF j = 0 THEN Fresh(<<>>) ELSE ReadByte(u[j - 1], all[j])
      <3>1. CASE j = 0
        BY <1>13, <3>1
      <3>2. CASE j # 0
        <4>1. j \in 1..(n + k)
          BY <3>2
        <4> QED BY <1>14, <3>2, <4>1
      <3> QED BY <3>1, <3>2
    <2>2. u = [j \in 0..(n + k) |-> IF j = 0 THEN Fresh(<<>>) ELSE ReadByte(u[j - 1], all[j])]
      BY <1>12, <2>1
    <2> QED BY <1>7, <2>2 DEF IsReading
  <1>16. u[n + k] = s[k]
    BY <1>12
  <1>17. ReadAs(all, Append(arcs, x))
    BY <1>7, <1>10, <1>15, <1>16 DEF ReadAs
  <1> QED BY <1>1, <1>3, <1>6, <1>7, <1>17

\* f is what FlattenSeq joins of the first n sequences, one after the other.
IsJoin(f, seqs, n) == f = [i \in 1..n |-> IF i = 1 THEN seqs[i] ELSE f[i - 1] \o seqs[i]]

\* There is such an f.
LEMMA JoinsExist ==
    ASSUME NEW seqs, NEW n \in Nat
    PROVE  \E f : IsJoin(f, seqs, n)
PROOF
  <1> DEFINE S == {k \in Nat : \E f : IsJoin(f, seqs, k)}
  <1>1. 0 \in S
    <2>1. PICK f : f = [i \in 1..0 |-> seqs[i]]
      OBVIOUS
    <2>2. IsJoin(f, seqs, 0)
      BY <2>1 DEF IsJoin
    <2> QED BY <2>2
  <1>2. ASSUME NEW k \in Nat, k \in S PROVE k + 1 \in S
    <2>1. PICK f : IsJoin(f, seqs, k)
      BY <1>2
    <2>2. PICK g : g = [i \in 1..(k + 1) |->
                           IF i <= k THEN f[i] ELSE IF i = 1 THEN seqs[i] ELSE f[k] \o seqs[i]]
      OBVIOUS
    <2>3. ASSUME NEW i \in 1..(k + 1)
          PROVE  g[i] = IF i = 1 THEN seqs[i] ELSE g[i - 1] \o seqs[i]
      <3>1. CASE i \in 1..k
        <4>1. f[i] = IF i = 1 THEN seqs[i] ELSE f[i - 1] \o seqs[i]
          BY <2>1, <3>1 DEF IsJoin
        <4>2. g[i] = f[i]
          BY <2>2, <3>1
        <4>3. i # 1 => g[i - 1] = f[i - 1]
          BY <2>2, <3>1
        <4> QED BY <4>1, <4>2, <4>3
      <3>2. CASE i = k + 1
        <4>1. g[i] = IF i = 1 THEN seqs[i] ELSE f[k] \o seqs[i]
          BY <2>2, <3>2
        <4>2. i # 1 => g[i - 1] = f[k]
          BY <2>2, <3>2
        <4> QED BY <4>1, <4>2
      <3> QED BY <3>1, <3>2
    <2>4. IsJoin(g, seqs, k + 1)
      <3>1. g = [i \in 1..(k + 1) |-> IF i = 1 THEN seqs[i] ELSE g[i - 1] \o seqs[i]]
        BY <2>2, <2>3
      <3> QED BY <3>1 DEF IsJoin
    <2> QED BY <2>4
  <1> HIDE DEF S
  <1>3. n \in S
    BY <1>1, <1>2, AllNaturals
  <1> QED BY <1>3 DEF S

\* FlattenSeq takes the last of it.
LEMMA Joined ==
    ASSUME NEW n \in Nat \ {0}, NEW seqs, Len(seqs) = n
    PROVE  \E f : FlattenSeq(seqs) = f[n] /\ IsJoin(f, seqs, n)
PROOF
  <1> DEFINE Step(f) == [i \in 1..Len(seqs) |-> IF i = 1 THEN seqs[i] ELSE f[i - 1] \o seqs[i]]
             flatten == CHOOSE f : f = Step(f)
  <1>1. PICK w : IsJoin(w, seqs, n)
    BY JoinsExist
  <1>2. w = Step(w)
    BY <1>1 DEF IsJoin
  <1>3. flatten = Step(flatten)
    BY <1>2
  <1>4. FlattenSeq(seqs) = flatten[Len(seqs)]
    BY DEF FlattenSeq
  <1> HIDE DEF flatten
  <1>5. IsJoin(flatten, seqs, n)
    BY <1>3 DEF IsJoin
  <1> QED BY <1>4, <1>5

\* The bytes of arcs, one after the other, are read as these arcs.
LEMMA ArcsAreRead ==
    ASSUME NEW n \in Nat \ {0}, NEW arcs \in [1..n -> Nat], \A i \in 1..n : arcs[i] < U64
    PROVE  LET bytes == FlattenSeq([i \in 1..n |-> EncodeArc(arcs[i])])
           IN  /\ bytes \in Seq(Bytes) /\ Len(bytes) <= 10 * n
               /\ ReadAs(bytes, [i \in 1..n |-> arcs[i]])
PROOF
  <1>1. PICK seqs : seqs = [i \in 1..n |-> EncodeArc(arcs[i])]
    OBVIOUS
  <1>2. Len(seqs) = n
    BY <1>1
  <1>3. PICK f : FlattenSeq(seqs) = f[n] /\ IsJoin(f, seqs, n)
    BY <1>2, Joined
  <1> DEFINE Part(k) == [i \in 1..k |-> arcs[i]]
             Good(k) == f[k] \in Seq(Bytes) /\ Len(f[k]) <= 10 * k /\ ReadAs(f[k], Part(k))
             S == {k \in Nat : k + 1 <= n => Good(k + 1)}
  <1>4. 0 \in S
    <2>0. PICK x \in Nat : x = arcs[1] /\ x < U64
      OBVIOUS
    <2>1. f[1] = EncodeArc(x)
      BY <1>1, <1>3, <2>0 DEF IsJoin
    <2>2. <<>> \o EncodeArc(x) = EncodeArc(x)
      <3>1. PICK k : k \in 1..10 /\ EncodeArc(x) \in [1..k -> 0..255]
        BY <2>0, SeptetsOf, ArcIsRead
      <3>2. EncodeArc(x) \in Seq(0..255)
        BY <3>1
      <3> QED BY <3>2
    <2>3. /\ f[1] \in Seq(Bytes) /\ Len(f[1]) <= 10
          /\ ReadAs(f[1], Append(<<>>, arcs[1]))
      <3>1. <<>> \in Seq(Bytes) /\ Len(<<>>) = 0
        OBVIOUS
      <3>2. /\ <<>> \o EncodeArc(x) \in Seq(Bytes)
            /\ Len(<<>> \o EncodeArc(x)) <= Len(<<>>) + 10
            /\ ReadAs(<<>> \o EncodeArc(x), Append(<<>>, x))
        BY <2>0, <3>1, NothingRead, ArcReadAfter
      <3> QED BY <2>0, <2>1, <2>2, <3>1, <3>2
    <2>4. Append(<<>>, arcs[1]) = Part(1)
      OBVIOUS
    <2>5. Good(1)
      BY <2>3, <2>4
    <2> QED BY <2>5
  <1>5. ASSUME NEW k \in Nat, k \in S PROVE k + 1 \in S
    <2>1. SUFFICES ASSUME (k + 1) + 1 <= n PROVE Good((k + 1) + 1)
      OBVIOUS
    <2>2. Good(k + 1)
      BY <1>5, <2>1
    <2>3. PICK m : m \in Nat /\ m = k + 1 /\ m + 1 <= n /\ m >= 1
      BY <2>1
    <2>4. f[m + 1] = f[m] \o EncodeArc(arcs[m + 1])
      <3>1. PICK j : j \in 1..n /\ j = m + 1 /\ j # 1 /\ j - 1 = m
        BY <2>3
      <3>2. f[j] = f[j - 1] \o seqs[j]
        BY <1>3, <3>1 DEF IsJoin
      <3>3. seqs[j] = EncodeArc(arcs[j])
        BY <1>1, <3>1
      <3> QED BY <3>1, <3>2, <3>3
    <2>5. arcs[m + 1] \in Nat /\ arcs[m + 1] < U64
      BY <2>3
    <2>6. /\ f[m + 1] \in Seq(Bytes) /\ Len(f[m + 1]) <= Len(f[m]) + 10
          /\ ReadAs(f[m + 1], Append(Part(m), arcs[m + 1]))
      BY <2>2, <2>3, <2>4, <2>5, ArcReadAfter
    <2>7. Append(Part(m), arcs[m + 1]) = Part(m + 1)
      BY <2>3
    <2>8. Len(f[m + 1]) <= 10 * (m + 1)
      BY <2>2, <2>3, <2>6
    <2> QED BY <2>3, <2>6, <2>7, <2>8
  <1>6. n - 1 \in S
    <2>1. PICK j \in Nat : j = n - 1
      OBVIOUS
    <2> HIDE DEF S
    <2>2. j \in S
      BY <1>4, <1>5, AllNaturals
    <2> QED BY <2>1, <2>2
  <1>7. Good(n)
    BY <1>6
  <1> QED BY <1>1, <1>3, <1>7

\* The first two arcs are the quotient and the rest of their byte.
LEMMA FirstByte ==
    ASSUME NEW a \in Nat, a <= 2, NEW b \in Nat, b < 40
    PROVE  /\ a * 40 + b \in 0..119 /\ (a * 40 + b) % 256 = a * 40 + b
           /\ (a * 40 + b) \div 40 = a /\ (a * 40 + b) % 40 = b
PROOF BY SMT

\* A short length fits in a byte.
LEMMA ShortLength ==
    ASSUME NEW n \in Nat, n <= 250
    PROVE  n \in Bytes /\ n + 2 \in Bytes /\ n % 256 = n /\ (n + 2) % 256 = n + 2
PROOF BY SMT DEF Bytes

\* What encode_oid_content writes of an identifier of three arcs or more, the
\* first two of which fit in their byte, is read as the same identifier:
\* whatever the other arcs are, as long as they are numbers of 64 bits.
THEOREM IdentifierReadsBack ==
    ASSUME NEW n \in Nat \ {0}, NEW oid \in [1..(n + 2) -> Nat],
           oid[1] <= 2, oid[2] < 40, \A i \in 1..(n + 2) : oid[i] < U64
    PROVE  /\ DecodeOid(EncodeOidContent(oid)) = oid
           /\ EncodeOidContent(oid) \in Seq(Bytes)
           /\ Len(EncodeOidContent(oid)) <= 10 * n + 1
PROOF
  <1>1. oid \in Seq(Nat) /\ Len(oid) = n + 2
    OBVIOUS
  <1>2. PICK arcs : arcs = [i \in 1..n |-> oid[i + 2]]
    OBVIOUS
  <1>3. arcs \in [1..n -> Nat] /\ \A i \in 1..n : arcs[i] < U64
    <2>1. ASSUME NEW i \in 1..n PROVE arcs[i] \in Nat /\ arcs[i] < U64
      <3>1. PICK j : j \in 1..(n + 2) /\ j = i + 2
        OBVIOUS
      <3> QED BY <1>2, <3>1
    <2> QED BY <1>2, <2>1
  <1>4. PICK rest : rest = FlattenSeq([i \in 1..n |-> EncodeArc(arcs[i])])
    OBVIOUS
  <1>5. rest \in Seq(Bytes) /\ Len(rest) <= 10 * n /\ ReadAs(rest, [i \in 1..n |-> arcs[i]])
    BY <1>3, <1>4, ArcsAreRead
  <1>6. [i \in 1..n |-> arcs[i]] = arcs
    BY <1>2
  <1>7. DecodeArcs(rest) = arcs
    BY <1>5, <1>6, DecodeIsReading
  <1>8. PICK first \in 0..119 : /\ first = (oid[1] * 40 + oid[2]) % 256
                                /\ first \div 40 = oid[1] /\ first % 40 = oid[2]
    <2>0. oid[1] \in Nat /\ oid[2] \in Nat
      <3>1. 1 \in 1..(n + 2) /\ 2 \in 1..(n + 2)
        OBVIOUS
      <3> QED BY <3>1
    <2>1. oid[1] <= 2 /\ oid[2] < 40
      OBVIOUS
    <2>3. PICK a \in Nat : a = oid[1] /\ a <= 2
      BY <2>0, <2>1
    <2>4. PICK b \in Nat : b = oid[2] /\ b < 40
      BY <2>0, <2>1
    <2>2. /\ a * 40 + b \in 0..119 /\ (a * 40 + b) % 256 = a * 40 + b
          /\ (a * 40 + b) \div 40 = a /\ (a * 40 + b) % 40 = b
      <3>1. a <= 2
        BY <2>3
      <3>2. b < 40
        BY <2>4
      <3> QED BY <3>1, <3>2, FirstByte
    <2> QED BY <2>2, <2>3, <2>4
  <1>9. EncodeOidContent(oid) = <<first>> \o rest
    <2>1. [i \in 1..(Len(oid) - 2) |-> EncodeArc(oid[i + 2])] = [i \in 1..n |-> EncodeArc(arcs[i])]
      <3>1. Len(oid) - 2 = n
        BY <1>1
      <3>2. ASSUME NEW i \in 1..n PROVE EncodeArc(oid[i + 2]) = EncodeArc(arcs[i])
        BY <1>2
      <3> QED BY <3>1, <3>2
    <2> QED BY <1>4, <1>8, <2>1 DEF EncodeOidContent
  <1>10. /\ <<first>> \o rest \in Seq(Bytes) /\ Len(<<first>> \o rest) = Len(rest) + 1
         /\ Head(<<first>> \o rest) = first /\ Tail(<<first>> \o rest) = rest
    <2>1. PICK all : all = <<first>> \o rest
      OBVIOUS
    <2>2. <<first>> \in Seq(Bytes) /\ Len(<<first>>) = 1 /\ <<first>>[1] = first
      BY <1>8 DEF Bytes
    <2>3. /\ all \in Seq(Bytes) /\ Len(all) = 1 + Len(rest) /\ all[1] = first
          /\ \A i \in 1..Len(rest) : all[i + 1] = rest[i]
      BY <1>5, <2>1, <2>2
    <2>4. Head(all) = first
      BY <2>3
    <2>5. Tail(all) = rest
      <3>1. PICK k \in Nat : k = Len(rest)
        BY <1>5
      <3>2. /\ Tail(all) \in Seq(Bytes) /\ Len(Tail(all)) = k
            /\ \A i \in 1..k : Tail(all)[i] = all[i + 1]
        BY <2>3, <3>1
      <3> QED BY <1>5, <2>3, <3>1, <3>2
    <2> QED BY <2>1, <2>3, <2>4, <2>5
  <1>11. DecodeOid(<<first>> \o rest) = <<oid[1], oid[2]>> \o arcs
    BY <1>7, <1>8, <1>10 DEF DecodeOid
  <1>12. <<oid[1], oid[2]>> \o arcs = oid
    <2>1. arcs \in Seq(Nat) /\ Len(arcs) = n
      BY <1>3
    <2>2. PICK whole : whole = <<oid[1], oid[2]>> \o arcs
      OBVIOUS
    <2>3. whole \in Seq(Nat) /\ Len(whole) = n + 2
      BY <2>1, <2>2
    <2>4. ASSUME NEW i \in 1..(n + 2) PROVE whole[i] = oid[i]
      <3>1. CASE i = 1 \/ i = 2
        BY <2>1, <2>2, <3>1
      <3>2. CASE i > 2
        <4>1. PICK j : j = i - 2
          OBVIOUS
        <4>2. j \in 1..n /\ j + 2 = i /\ 2 + j = i
          BY <3>2, <4>1
        <4>3. Len(<<oid[1], oid[2]>>) = 2 /\ <<oid[1], oid[2]>> \in Seq(Nat)
          BY <1>1
        <4>4. whole[2 + j] = arcs[j]
          BY <2>1, <2>2, <4>2, <4>3
        <4> QED BY <1>2, <4>2, <4>4
      <3> QED BY <3>1, <3>2
    <2>5. whole = oid
      BY <1>1, <2>3, <2>4
    <2> QED BY <2>2, <2>5
  <1>13. Len(<<first>> \o rest) <= 10 * n + 1
    BY <1>5, <1>10
  <1> QED BY <1>9, <1>10, <1>11, <1>12, <1>13

\* The lengths build_eku_extension_value writes are those of what follows.
LEMMA LengthsFit ==
    ASSUME NEW oid, EncodeOidContent(oid) \in Seq(Bytes), Len(EncodeOidContent(oid)) <= 250
    PROVE  WellFormed(EkuExtension(oid))
PROOF
  <1>1. PICK c : c = EncodeOidContent(oid)
    OBVIOUS
  <1>2. PICK n \in Nat : n = Len(c) /\ n <= 250
    BY <1>1
  <1>8. n \in Bytes /\ n + 2 \in Bytes /\ n % 256 = n /\ (n + 2) % 256 = n + 2
    <2>1. n <= 250
      BY <1>2
    <2> QED BY <2>1, ShortLength
  <1>3. PICK tlv : tlv = <<6, n>> \o c
    OBVIOUS
  <1>4. tlv \in Seq(Bytes) /\ Len(tlv) = n + 2 /\ tlv[1] = 6 /\ tlv[2] = n
    <2>1. c \in Seq(Bytes)
      BY <1>1
    <2>2. <<6, n>> \in Seq(Bytes) /\ Len(<<6, n>>) = 2
      <3>1. 6 \in Bytes
        BY DEF Bytes
      <3> QED BY <1>8, <3>1
    <2>3. tlv \in Seq(Bytes) /\ Len(tlv) = 2 + Len(c)
      BY <1>3, <2>1, <2>2
    <2>4. tlv[1] = 6 /\ tlv[2] = n
      BY <1>3, <2>1, <2>2
    <2> QED BY <1>2, <2>3, <2>4
  <1>5. PICK value, m : value = <<48, m>> \o tlv /\ m = n + 2
    OBVIOUS
  <1>6. /\ Len(value) = n + 4 /\ value[1] = 48 /\ value[2] = n + 2
        /\ value[3] = tlv[1] /\ value[4] = tlv[2]
    <2>1. <<48, m>> \in Seq(Bytes) /\ Len(<<48, m>>) = 2
      <3>1. 48 \in Bytes /\ m \in Bytes
        BY <1>5, <1>8 DEF Bytes
      <3> QED BY <3>1
    <2> QED BY <1>4, <1>5, <2>1
  <1>7. EkuExtension(oid) = value
    BY <1>1, <1>2, <1>3, <1>4, <1>5, <1>8 DEF EkuExtension
  <1> QED BY <1>2, <1>4, <1>6, <1>7 DEF WellFormed

\* A relying party reads the key usage a leaf was issued for, whatever arc
\* LabAcacia is given, as long as it is a number of 64 bits like the code's.
THEOREM UsageReadsBack ==
    ASSUME LastDay < U64 PROVE ConversionsSpec => []EkuReadsBack
PROOF
  <1>1. DaysInv => EkuReadsBack
    <2>1. SUFFICES ASSUME DaysInv, NEW entity \in {"agent", "node"}, NEW arc \in {day, Pen}
                   PROVE  /\ DecodeOid(EncodeOidContent(EkuOid(arc, entity))) = EkuOid(arc, entity)
                          /\ WellFormed(EkuExtension(EkuOid(arc, entity)))
      BY DEF EkuReadsBack
    <2>2. PICK a \in Nat : a = arc /\ a < U64
      <3>1. day \in Nat /\ day < U64
        BY <2>1, LastDayAssumption, SMT DEF DaysInv, U64
      <3>2. Pen \in Nat /\ Pen < U64
        <4>1. 65715 < U64
          BY SMT DEF U64
        <4> QED BY <4>1 DEF Pen
      <3> QED BY <3>1, <3>2
    <2>3. PICK e \in 1..2 : e = IF entity = "node" THEN 2 ELSE 1
      OBVIOUS
    <2>4. PICK oid : oid = <<1, 3, 6, 1, 4, 1, a, 1, e>>
      OBVIOUS
    <2>5. EkuOid(arc, entity) = oid
      BY <2>2, <2>3, <2>4 DEF EkuOid
    <2>6. /\ oid \in [1..9 -> Nat] /\ oid[1] = 1 /\ oid[2] = 3
          /\ \A i \in 1..9 : oid[i] <= 6 \/ oid[i] = a
      BY <2>4
    <2>7. PICK n \in Nat \ {0} : n = 7 /\ n + 2 = 9
      OBVIOUS
    <2>8. \A i \in 1..(n + 2) : oid[i] < U64
      <3>0. U64 \in Nat /\ U64 > 6
        BY SMT DEF U64
      <3>1. PICK u \in Nat : u = U64 /\ u > 6
        BY <3>0
      <3>2. \A i \in 1..9 : oid[i] < u
        BY <2>2, <2>6, <3>1
      <3> QED BY <2>7, <3>1, <3>2
    <2>9. /\ DecodeOid(EncodeOidContent(oid)) = oid
          /\ EncodeOidContent(oid) \in Seq(Bytes) /\ Len(EncodeOidContent(oid)) <= 10 * n + 1
      <3>1. oid \in [1..(n + 2) -> Nat] /\ oid[1] <= 2 /\ oid[2] < 40
        BY <2>6, <2>7
      <3> QED BY <2>8, <3>1, IdentifierReadsBack
    <2>10. Len(EncodeOidContent(oid)) <= 250
      BY <2>7, <2>9
    <2> QED BY <2>5, <2>9, <2>10, LengthsFit
  <1> QED BY <1>1, DaysKept, DaysAmongConversions, PTL

=============================================================================
