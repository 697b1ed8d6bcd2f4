------------------------------ MODULE Calendar ------------------------------
(***************************************************************************)
(* time.c: a moment is read as a date of the zone that the environment     *)
(* names, put together again, and printed.  A time_t is a pair, the day    *)
(* after 1 January 1970 and the second of it: seconds of a century pass    *)
(* TLC's integers.                                                         *)
(***************************************************************************)
EXTENDS LibText, SequencesExt, FiniteSets

CONSTANTS Environs,   \* sequences of "NAME=value"
          Moments,    \* time_t
          Changes,    \* what the program adds to a date before mktime
          Patterns,   \* formats of strftime: sequences of directives and characters
          Rooms,      \* sizes of its buffer
          NameMax,    \* TZ_STRLEN_MAX
          YearMax,    \* INT_MAX
          Meant(_)    \* the zone of a TZ: offset, and two names

VARIABLES
  step,       \* "call"; "date", "utc" or "null"; "changed"; "made", "said", "formatted"
  environ, moment, tz, tm,
  said        \* the last answer

dating == <<environ, moment, tz, tm>>
datingVars == <<step, dating, said>>

T(day, sec) == [day |-> day, sec |-> sec]
Later(t, secs) == T(t.day + (t.sec + secs) \div 86400, (t.sec + secs) % 86400)

WdayName == <<"Sunday", "Monday", "Tuesday", "Wednesday", "Thursday", "Friday", "Saturday">>
MonName == <<"January", "February", "March", "April", "May", "June", "July", "August", "Sepember", "October", "November", "December">>
MonAbbr == <<"Jan", "Feb", "Mar", "Apr", "May", "Jun", "Jul", "Aug", "Sep", "Oct", "Nov", "Dec">>
FromMarch == <<31, 30, 31, 30, 31, 31, 30, 31, 30, 31, 31, 29>>
MonDays == <<31, 59, 90, 120, 151, 181, 212, 243, 273, 304, 334, 365>>
NoName == "   "   \* _tzdflt

\* The first variable with a name of this length that is another.
Getenv(name) ==
  LET n == Len(name)
      hits == {k \in DOMAIN environ : At(environ[k], n + 1) = "=" /\ SubSeq(environ[k], 1, n) # name}
  IN  IF hits = {} THEN "" ELSE From(environ[Min(hits)], n + 2)

-----------------------------------------------------------------------------
(* The zone.                                                               *)

NameEnds == Dec \cup {"", ",", "+", "-"}

get_tz_name(src) ==
  LET n == IF At(src, 1) = ":" THEN 0 ELSE Min({k \in 0..Len(src) : k = NameMax \/ At(src, k + 1) \in NameEnds})
  IN  [name |-> IF n = 0 THEN NoName ELSE SubSeq(src, 1, n), rest |-> From(src, n + 1)]

\* One of hours, minutes, seconds, and whether another follows.
Field(o) ==
  LET digits == IF At(o.rest, 1) \notin Dec THEN 0 ELSE IF At(o.rest, 2) \notin Dec THEN 1 ELSE 2
      valid == o.rest # "" /\ ~(digits = 2 /\ At(o.rest, 3) \in Dec)
      more == valid /\ At(o.rest, digits + 1) = ":"
  IN  IF ~o.more THEN [o EXCEPT !.tim = Append(@, 0)]
      ELSE [rest |-> From(o.rest, digits + IF more THEN 2 ELSE 1), more |-> more, valid |-> valid,
            tim |-> Append(o.tim, NumberSaid(SubSeq(o.rest, 1, digits), 10))]

get_tz_offset(src) ==
  LET signed == At(src, 1) \in {"-", "+"}
      start == [rest |-> From(src, IF signed THEN 2 ELSE 1), more |-> TRUE, valid |-> TRUE, tim |-> <<>>]
      o == Field(Field(Field(start)))
      error == ~o.valid \/ o.tim[2] > 59 \/ o.tim[3] > 59
      size == o.tim[3] + 60 * o.tim[2] + 3600 * o.tim[1]
  IN  IF src = "" THEN [offset |-> 0, error |-> FALSE, rest |-> ""]
      ELSE [offset |-> IF error THEN 0 ELSE IF At(src, 1) = "-" THEN -size ELSE size, error |-> error, rest |-> o.rest]

tzset(old) ==
  LET val == Getenv("TZ")
      std == get_tz_name(val)
      off == get_tz_offset(std.rest)
      fits == Len(val) <= NameMax
  IN  IF old.set /\ old.val = val THEN old
      ELSE [set |-> fits, val |-> IF fits THEN val ELSE old.val, offset |-> off.offset,
            names |-> IF off.error THEN <<NoName, NoName>> ELSE <<std.name, get_tz_name(off.rest).name>>]

-----------------------------------------------------------------------------
(* From a moment to a date and back.                                       *)

\* secs_to_tm counts from 1 March 2000; <<>> if the year is no int.
secs_to_tm(t) ==
  LET days == t.day - 11017
      wday0 == Rem(3 + days, 7)
      rem0 == Rem(days, 146097)
      qc == Quot(days, 146097) - IF rem0 < 0 THEN 1 ELSE 0
      rem400 == rem0 + IF rem0 < 0 THEN 146097 ELSE 0
      c == Least(rem400 \div 36524, 3)
      rem100 == rem400 - c * 36524
      q == Least(rem100 \div 1461, 24)
      rem4 == rem100 - q * 1461
      y == Least(rem4 \div 365, 3)
      remdays == rem4 - y * 365
      leap == IF y = 0 /\ (q # 0 \/ c = 0) THEN 1 ELSE 0
      yday0 == remdays + 59 + leap
      passed[m \in 0..12] == IF m = 0 THEN 0 ELSE passed[m - 1] + FromMarch[m]
      months == CHOOSE m \in 0..11 : passed[m] <= remdays /\ remdays < passed[m + 1]
      years == y + 4 * q + 100 * c + 400 * qc + IF months >= 10 THEN 1 ELSE 0
      inRange == t.day >= -(YearMax + 1) * 366 /\ (t.day < YearMax * 366 \/ t = T(YearMax * 366, 0))
  IN  IF ~inRange \/ years + 100 > YearMax \/ years + 100 < -YearMax - 1 THEN <<>>
      ELSE <<[year |-> years + 100, mon |-> months + IF months >= 10 THEN -10 ELSE 2, mday |-> remdays - passed[months] + 1,
              wday |-> wday0 + IF wday0 < 0 THEN 7 ELSE 0, yday |-> yday0 - IF yday0 >= 365 + leap THEN 365 + leap ELSE 0,
              hour |-> t.sec \div 3600, min |-> (t.sec \div 60) % 60, sec |-> t.sec % 60]>>

is_leap(y) == y % 4 = 0

\* Seconds in a long, of 32 bits, from 13 December 1901 to 19 January 2038; it wraps after 49710 days and 23296 seconds.
FitsLong(t) == (t.day > -24856 \/ (t.day = -24856 /\ t.sec >= 74752)) /\ (t.day < 24855 \/ (t.day = 24855 /\ t.sec < 11648))
Wraps == -500..500   \* bound
Wrapped(t) ==
  LET after(k) == Later(T(t.day + k * 49710 + (k * 23296) \div 86400, t.sec), (k * 23296) % 86400)
  IN  after(CHOOSE k \in Wraps : FitsLong(after(k)))

\* Mutant: the leap year's own day counts in January too.
mktime_EarlyLeap(d, zone) ==
  LET years == d.year - 70
      leaps == IF years < 0 THEN Quot(years - 2, 4) + IF is_leap(d.year + 1900) THEN 1 ELSE 0 ELSE Quot(years + 2, 4)
      days == (IF d.mon > 0 THEN MonDays[d.mon] ELSE 0) + d.mday - 1 + years * 365 + leaps
  IN  Wrapped(Later(T(days, 0), d.hour * 3600 + d.min * 60 + d.sec + zone.offset))

mktime(d, zone) ==
  LET years == d.year - 70
      leapYear == is_leap(d.year + 1900)
      leaps == IF years < 0 THEN Quot(years - 2, 4) + IF leapYear /\ d.mon > 1 THEN 1 ELSE 0
               ELSE Quot(years + 2, 4) - IF leapYear /\ d.mon \in {0, 1} THEN 1 ELSE 0
      days == (IF d.mon > 0 THEN MonDays[d.mon] ELSE 0) + d.mday - 1 + years * 365 + leaps
  IN  Wrapped(Later(T(days, 0), d.hour * 3600 + d.min * 60 + d.sec + zone.offset))

-----------------------------------------------------------------------------
(* Dates as text.                                                          *)

Two(n) == Numeral(n, 10, 2, Numerals)

\* snprintf has room for 25 characters.
asctime_r(d) ==
  LET text == SubSeq(WdayName[d.wday + 1], 1, 3) \o " " \o MonAbbr[d.mon + 1] \o (IF d.mday < 10 THEN "  " ELSE " ") \o Numeral(d.mday, 10, 1, Numerals)
                \o " " \o Two(d.hour) \o ":" \o Two(d.min) \o ":" \o Two(d.sec) \o " " \o Numeral(1900 + d.year, 10, 1, Numerals) \o "\n"
  IN  SubSeq(text, 1, Least(Len(text), 25))

get_week(d, startMonday) ==
  (d.yday + 7 - IF ~startMonday THEN d.wday ELSE IF d.wday = 0 THEN 6 ELSE d.wday - 1) \div 7

Hour12(d) == IF d.hour % 12 = 0 THEN 12 ELSE d.hour % 12

\* What a directive adds; text that is not a directive is no key of the table.
Plain(d, zone) ==
  [a |-> SubSeq(WdayName[d.wday + 1], 1, 3), A |-> WdayName[d.wday + 1], b |-> SubSeq(MonName[d.mon + 1], 1, 3), B |-> MonName[d.mon + 1],
   d |-> Two(d.mday), H |-> Two(d.hour), I |-> Two(Hour12(d)), j |-> Numeral(d.yday + 1, 10, 3, Numerals), m |-> Two(d.mon + 1),
   M |-> Two(d.min), p |-> IF d.hour > 0 /\ d.hour < 13 THEN "AM" ELSE "PM", S |-> Two(d.sec), U |-> Two(get_week(d, FALSE)),
   W |-> Two(get_week(d, TRUE)), w |-> Two(d.wday), y |-> Two(Rem(d.year, 100)), Y |-> Numeral(d.year + 1900, 10, 4, Numerals), Z |-> zone.names[1]]

Directive(letter, d, zone) ==
  LET plain == Plain(d, zone)
      x == plain.H \o ":" \o plain.M \o ":" \o plain.S
  IN  CASE letter \in DOMAIN plain -> plain[letter]
        [] letter = "x" -> x
        [] letter = "X" -> plain.d \o "." \o plain.m \o "." \o plain.Y
        [] letter = "c" -> plain.a \o " " \o plain.b \o " " \o plain.d \o " " \o x \o " " \o plain.Y
        [] letter = "%" -> "%"
        [] OTHER -> "%" \o letter

\* A directive is cut to the room left; a character is stored and not counted.
strftime(smax, pattern, d, zone) ==
  LET out[k \in 0..Len(pattern)] ==
        IF k = 0 THEN [text |-> "", count |-> 0]
        ELSE LET o == out[k - 1]
                 piece == pattern[k]
                 added == Directive(From(piece, 2), d, zone)
                 len == Least(Len(added), smax - o.count)
             IN  IF Len(piece) = 1 THEN [o EXCEPT !.text = @ \o piece]
                 ELSE [text |-> o.text \o SubSeq(added, 1, len), count |-> o.count + len]
  IN  out[Len(pattern)]

-----------------------------------------------------------------------------
(* Calls, each after the one whose answer it needs.                        *)

NoDate == [year |-> 0, mon |-> 0, mday |-> 0, wday |-> 0, yday |-> 0, hour |-> 0, min |-> 0, sec |-> 0]
NoZone == [set |-> FALSE, val |-> "", offset |-> 0, names |-> <<NoName, NoName>>]

CalendarIdle == step = "idle" /\ environ = <<>> /\ moment = T(0, 0) /\ tz = NoZone /\ tm = NoDate /\ said = ""
CalendarInit ==
  /\ step = "call" /\ said = ""
  /\ environ \in Environs /\ moment \in Moments
  /\ tz = NoZone /\ tm = NoDate

Dated(t, kind) ==
  LET d == secs_to_tm(t)
  IN  IF d = <<>> THEN step' = "null" /\ UNCHANGED tm ELSE step' = kind /\ tm' = d[1]

Gmtime ==
  /\ step = "call" /\ Dated(moment, "utc")
  /\ UNCHANGED <<environ, moment, tz, said>>

Localtime ==
  /\ step = "call" /\ tz' = tzset(tz)
  /\ Dated(Later(moment, -tz'.offset), "date")
  /\ UNCHANGED <<environ, moment, said>>

\* The program counts on from a date, and leaves it to mktime to make it one.
Change(c) ==
  /\ step = "date" /\ step' = "changed"
  /\ tm' = [tm EXCEPT !.mday = @ + c.day, !.sec = @ + c.sec]
  /\ moment' = Later(T(moment.day + c.day, moment.sec), c.sec)
  /\ UNCHANGED <<environ, tz, said>>

Mktime ==
  /\ step \in {"date", "changed"} /\ step' = "made"
  /\ tz' = tzset(tz) /\ said' = mktime(tm, tz')
  /\ UNCHANGED <<environ, moment, tm>>

\* Bound: years that have four digits.
Printable == tm.year \in 0..8099

Asctime ==
  /\ step \in {"date", "utc"} /\ Printable /\ step' = "said"
  /\ said' = asctime_r(tm)
  /\ UNCHANGED dating

Strftime(smax, pattern) ==
  /\ step = "date" /\ Printable /\ step' = "formatted"
  /\ tz' = tzset(tz)
  /\ said' = [pattern |-> pattern, smax |-> smax, out |-> strftime(smax, pattern, tm, tz')]
  /\ UNCHANGED <<environ, moment, tm>>

CalendarNext ==
  \/ Gmtime \/ Localtime \/ Mktime \/ Asctime
  \/ \E c \in Changes : Change(c)
  \/ \E smax \in Rooms, pattern \in Patterns : Strftime(smax, pattern)

-----------------------------------------------------------------------------
(* What is meant: the Gregorian calendar, by days.                         *)

GregorianLeap(y) == y % 4 = 0 /\ (y % 100 # 0 \/ y % 400 = 0)
MonthLength(y, m) == CASE m = 1 -> IF GregorianLeap(y) THEN 29 ELSE 28 [] m \in {3, 5, 8, 10} -> 30 [] OTHER -> 31
DaysBeforeYear(y) == 365 * (y - 1970) + ((y - 1) \div 4 - 492) - ((y - 1) \div 100 - 19) + ((y - 1) \div 400 - 4)
DaysBeforeMonth(y, m) == FoldSet(LAMBDA k, sum : sum + MonthLength(y, k), 0, 0..(m - 1))
DayNumber(y, m, d) == DaysBeforeYear(y) + DaysBeforeMonth(y, m) + d - 1

IsDateOf(d, t) ==
  LET y == d.year + 1900
  IN  /\ d.mon \in 0..11 /\ d.mday \in 1..MonthLength(y, d.mon)
      /\ DayNumber(y, d.mon, d.mday) = t.day
      /\ d.wday = (t.day + 4) % 7 /\ d.yday = t.day - DaysBeforeYear(y)
      /\ d.hour \in 0..23 /\ d.min \in 0..59 /\ d.sec \in 0..59
      /\ d.hour * 3600 + d.min * 60 + d.sec = t.sec

\* Its year, counted from 1900, is an int.
HasDate(t) == t.day >= DaysBeforeYear(1900 - YearMax - 1) /\ t.day < DaysBeforeYear(1900 + YearMax + 1)

\* Days of the year up to this one that fall on a weekday.
Count(d, weekday) == Cardinality({k \in 0..d.yday : (d.wday - d.yday + k) % 7 = weekday})

MeantDirective(letter, d, zone) ==
  LET num(n, size) == Numeral(n, 10, size, Numerals)
      names == [a |-> SubSeq(WdayName[d.wday + 1], 1, 3), A |-> WdayName[d.wday + 1], b |-> MonAbbr[d.mon + 1], B |-> MonName[d.mon + 1], Z |-> zone.std]
      numbers == [d |-> d.mday, H |-> d.hour, I |-> IF d.hour \in {0, 12} THEN 12 ELSE d.hour % 12, m |-> d.mon + 1, M |-> d.min, S |-> d.sec,
                  U |-> Count(d, 0), W |-> Count(d, 1), y |-> (d.year + 1900) % 100]
      of(k) == IF k \in DOMAIN names THEN names[k] ELSE num(numbers[k], 2)
  IN  CASE letter \in DOMAIN names \cup DOMAIN numbers -> of(letter)
        [] letter = "j" -> num(d.yday + 1, 3)
        [] letter = "Y" -> num(d.year + 1900, 4)
        [] letter = "c" -> of("a") \o " " \o of("b") \o " " \o of("d") \o " " \o of("H") \o ":" \o of("M") \o ":" \o of("S") \o " " \o num(d.year + 1900, 4)
        [] letter = "p" -> IF d.hour < 12 THEN "AM" ELSE "PM"
        [] letter = "%" -> "%"

MeantText(pattern, d, zone) ==
  [k \in DOMAIN pattern |-> IF Len(pattern[k]) = 1 THEN pattern[k] ELSE MeantDirective(From(pattern[k], 2), d, zone)]

\* What the environment says: the value of the variable TZ, by whatever way the code looks for it.
ValueOf(name) ==
  LET own == {k \in DOMAIN environ : SubSeq(environ[k], 1, Least(Len(environ[k]), Len(name) + 1)) = name \o "="}
  IN  IF own = {} THEN "" ELSE From(environ[Min(own)], Len(name) + 2)

\* A date is that of the moment in the zone that the variable TZ names (time.c:238, "tzset()
\* relies on TZ env variable"), mktime finds the moment again, and every directive says of the
\* date what C says it does (time.c).
CalendarRight ==
  LET zone == Meant(ValueOf("TZ"))
      local == Later(moment, -zone.offset)
  IN  CASE step = "utc" -> IsDateOf(tm, moment)
        [] step = "date" -> IsDateOf(tm, local) /\ tz.names = <<zone.std, zone.dst>>
        [] step = "null" -> ~HasDate(local) \/ ~HasDate(moment)
        [] step = "made" -> FitsLong(moment) => said = moment
        [] step = "said" -> /\ Len(said) = 25 /\ At(said, 25) = "\n" /\ SubSeq(said, 1, 3) = SubSeq(WdayName[tm.wday + 1], 1, 3)
                            /\ MonAbbr[tm.mon + 1] = SubSeq(said, 5, 7)
                            /\ NumberSaid(SubSeq(said, 12, 13), 10) = tm.hour /\ NumberSaid(SubSeq(said, 15, 16), 10) = tm.min
                            /\ NumberSaid(SubSeq(said, 18, 19), 10) = tm.sec /\ NumberSaid(SubSeq(said, 21, 24), 10) = tm.year + 1900
                            /\ tm.mday = NumberSaid(IF At(said, 9) = " " THEN At(said, 10) ELSE SubSeq(said, 9, 10), 10)
        [] step = "formatted" ->
             LET texts == MeantText(said.pattern, tm, zone)
                 sizes == {k \in DOMAIN texts : Len(said.pattern[k]) > 1}
                 counted == FoldSet(LAMBDA k, sum : sum + Len(texts[k]), 0, sizes)
             IN  IF counted <= said.smax THEN said.out.count = counted /\ said.out.text = FoldLeft(LAMBDA all, one : all \o one, "", texts)
                 ELSE said.out.count = said.smax
        [] OTHER -> TRUE
=============================================================================
