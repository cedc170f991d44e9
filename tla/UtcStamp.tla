------------------------------ MODULE UtcStamp ------------------------------
(***************************************************************************)
(* The calendar of the run stamps (crates/benchkit/src/env.rs): a time in  *)
(* seconds since the epoch becomes a UTC date and time.  Outside a git     *)
(* checkout the stamp is the run id, so it names the directory a run's     *)
(* artifacts go to.  A time is a day number with a second of that day,     *)
(* secs = 86400 * day + second.                                            *)
(*                                                                         *)
(* Operators that stand directly before the one they vary are faulty       *)
(* versions of it, kept to show that the property notices the slip.        *)
(***************************************************************************)
EXTENDS Integers

CONSTANT Times   \* <<day, second of the day>> pairs

VARIABLES now,    \* the system clock, <<>> when there is nothing to stamp
          stamp   \* the stamp made of it, <<>> before

clockVars == <<now, stamp>>

ClockInit == now \in Times /\ stamp = <<>>

ClockIdle == now = <<>> /\ stamp = <<>>
-----------------------------------------------------------------------------
\* Leap years every four years, century years included.
JulianYearOfEra(doe) == (doe - doe \div 1460) \div 365

\* Rust's / truncates; every operand here is nonnegative.
YearOfEra(doe) == (doe - doe \div 1460 + doe \div 36524 - doe \div 146096) \div 365

civil_from_days(days) ==
  LET z   == days + 719468
      era == (IF z >= 0 THEN z ELSE z - 146096) \div 146097
      doe == z - era * 146097
      yoe == YearOfEra(doe)
      doy == doe - (365 * yoe + yoe \div 4 - yoe \div 100)
      mp  == (5 * doy + 2) \div 153
      d   == doy - (153 * mp + 2) \div 5 + 1
      m   == IF mp < 10 THEN mp + 3 ELSE mp - 9
  IN  <<IF m <= 2 THEN yoe + era * 400 + 1 ELSE yoe + era * 400, m, d>>

utc_stamp(t) ==
  [date |-> civil_from_days(t[1]), hour |-> t[2] \div 3600,
   minute |-> (t[2] % 3600) \div 60, second |-> t[2] % 60]

Stamp ==
  /\ now # <<>> /\ stamp = <<>>
  /\ stamp' = utc_stamp(now)
  /\ UNCHANGED now
-----------------------------------------------------------------------------
\* The Gregorian calendar, from its rules.
Leap(y) == y % 4 = 0 /\ (y % 100 # 0 \/ y % 400 = 0)

MonthDays(y, m) ==
  CASE m \in {4, 6, 9, 11} -> 30 [] m = 2 -> IF Leap(y) THEN 29 ELSE 28 [] OTHER -> 31

DaysBefore(y, m) ==
  LET b[k \in 1 .. 12] == IF k = 1 THEN 0 ELSE b[k - 1] + MonthDays(y, k - 1) IN b[m]

LeapsBefore(y) == (y - 1) \div 4 - (y - 1) \div 100 + (y - 1) \div 400

DayNumber(y, m, d) == 365 * (y - 1970) + LeapsBefore(y) - LeapsBefore(1970) + DaysBefore(y, m) + d - 1

\* The stamp is a date of the calendar and a time of day, and it is the very
\* instant the clock showed: two runs a second apart never share a stamp.
StampIsTheInstant ==
  stamp # <<>> =>
    LET y == stamp.date[1]
        m == stamp.date[2]
        d == stamp.date[3]
    IN  /\ m \in 1 .. 12 /\ d \in 1 .. MonthDays(y, m)
        /\ DayNumber(y, m, d) = now[1]
        /\ stamp.hour \in 0 .. 23 /\ stamp.minute \in 0 .. 59 /\ stamp.second \in 0 .. 59
        /\ 3600 * stamp.hour + 60 * stamp.minute + stamp.second = now[2]
=============================================================================
