------------------------------ MODULE CalendarValues ------------------------------
(****************************************************************************)
(* Dates and amounts as they are stored: a posting date as minutes since the *)
(* 29th of February 1600, a list date as year, month and day bytes, a legacy *)
(* balance as a flag byte and two magnitudes.                                *)
(****************************************************************************)
EXTENDS Integers, Sequences

CONSTANT Null

IsLeapYear(y) == y % 4 = 0 /\ (y % 100 # 0 \/ y % 400 = 0)
DaysInMonth(y, m) ==
    CASE m \in {1, 3, 5, 7, 8, 10, 12} -> 31
      [] m \in {4, 6, 9, 11} -> 30
      [] m = 2 -> IF IsLeapYear(y) THEN 29 ELSE 28
      [] OTHER -> 0
ValidDate(y, m, d) == m \in 1..12 /\ d \in 1..DaysInMonth(y, m)

\* days_since_sa_epoch: years begin in March and come in eras of 400.
DaysSinceEpoch(y, m, d) ==
    LET year == IF m <= 2 THEN y - 1 ELSE y
        era == year \div 400
        yearOfEra == year - era * 400
        month == IF m > 2 THEN m - 3 ELSE m + 9
        dayOfYear == (153 * month + 2) \div 5 + d - 1
        dayOfEra == yearOfEra * 365 + yearOfEra \div 4 - yearOfEra \div 100 + dayOfYear
    IN era * 146097 + dayOfEra - 719468 + 135081

\* The days whose minutes fit in 32 bits with a sign.
MinutesPerDay == 1440
DayInRange(n) == n \in (-1491308)..1491308

FromYmd(y, m, d) ==
    CASE ~ValidDate(y, m, d) -> [refused |-> "InvalidCalendarDate"]
      [] ValidDate(y, m, d) /\ ~DayInRange(DaysSinceEpoch(y, m, d)) -> [refused |-> "MinuteCountOutOfRange"]
      [] OTHER -> [refused |-> Null, day |-> DaysSinceEpoch(y, m, d)]

\* SaDate::ymd
YmdOf(n) ==
    LET shifted == n + 719468 - 135081
        era == shifted \div 146097
        dayOfEra == shifted - era * 146097
        yearOfEra == (dayOfEra - dayOfEra \div 1460 + dayOfEra \div 36524 - dayOfEra \div 146096) \div 365
        dayOfYear == dayOfEra - (365 * yearOfEra + yearOfEra \div 4 - yearOfEra \div 100)
        month == (5 * dayOfYear + 2) \div 153
        m == IF month < 10 THEN month + 3 ELSE month - 9
    IN <<yearOfEra + era * 400 + (IF m <= 2 THEN 1 ELSE 0), m, dayOfYear - (153 * month + 2) \div 5 + 1>>

\* from_raw_minutes: midnight of a day of the calendar.
FromRawMinutes(raw) ==
    LET day == raw \div MinutesPerDay
        ymd == YmdOf(day)
    IN CASE raw % MinutesPerDay # 0 -> [refused |-> "NonMidnightMinuteCount"]
         [] raw % MinutesPerDay = 0 /\ ~ValidDate(ymd[1], ymd[2], ymd[3]) -> [refused |-> "InvalidCalendarDate"]
         [] /\ raw % MinutesPerDay = 0 /\ ValidDate(ymd[1], ymd[2], ymd[3])
            /\ DaysSinceEpoch(ymd[1], ymd[2], ymd[3]) # day -> [refused |-> "CalendarRoundTripMismatch"]
         [] OTHER -> [refused |-> Null, day |-> day, ymd |-> ymd]

\* parse_iso_date of digits in groups of four, two and two.
FromIso(digits) ==
    IF Len(digits) # 3 \/ digits[1] = 0 THEN [refused |-> "InvalidIsoDateFormat"]
    ELSE FromYmd(digits[1], digits[2], digits[3])

--------------------------------------------------------------------------------
(* QuickBooksDate                                                            *)

ListDateFromDisk(bytes) ==
    LET year == bytes[1] * 256 + bytes[2] IN
    CASE bytes = <<0, 0, 0, 0>> -> [refused |-> Null, date |-> Null]
      [] bytes # <<0, 0, 0, 0>> /\ year = 0 -> [refused |-> "ZeroYear"]
      [] year # 0 /\ bytes[3] \notin 1..12 -> [refused |-> "InvalidMonth"]
      [] year # 0 /\ bytes[3] \in 1..12 /\ ~ValidDate(year, bytes[3], bytes[4]) -> [refused |-> "InvalidDay"]
      [] OTHER -> [refused |-> Null, date |-> [year |-> year, month |-> bytes[3], day |-> bytes[4]]]
ListDateToDisk(date) == <<date.year \div 256, date.year % 256, date.month, date.day>>

--------------------------------------------------------------------------------
(* QuickBooksLegacyBalance                                                   *)

Flag(raw, bit) == (raw \div bit) % 2 = 1
KindQuantity == 1
Negative == 2
NotAnAmount == {4, 8, 16}

BalanceFromDisk(fraction, raw, dollars) ==
    CASE raw >= 32 -> [refused |-> "UnknownFlagBits"]
      [] raw < 32 /\ ~Flag(raw, KindQuantity) /\ fraction > 99 -> [refused |-> "InvalidDollarCents"]
      [] OTHER -> [refused |-> Null, fraction |-> fraction, flags |-> raw, dollars |-> dollars]
SignedCents(balance) ==
    LET magnitude == balance.dollars * 100 + balance.fraction IN
    IF Flag(balance.flags, KindQuantity) \/ \E bit \in NotAnAmount : Flag(balance.flags, bit) THEN Null
    ELSE IF Flag(balance.flags, Negative) THEN -magnitude ELSE magnitude
================================================================================
