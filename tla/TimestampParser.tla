-------------------------- MODULE TimestampParser --------------------------
(***************************************************************************)
(* eestv/timestamp/timestamp_parser.{hpp,cpp}: compile a format into a     *)
(* list of steps, find where in a log line a timestamp may begin, run the  *)
(* steps there, and convert the fields to a point in time.  The library    *)
(* leaves running the steps to its user; the header says how: in order,    *)
(* from a candidate index, each one from where the last one ended.         *)
(*                                                                         *)
(* A text is a sequence of one-character strings; indices are those of the *)
(* code, from 0.  A std::optional is a set of at most one value.           *)
(***************************************************************************)
EXTENDS Integers, Sequences, FiniteSets

CONSTANTS Formats,     \* the formats that are compiled
          Lines(_),    \* the lines a parser compiled from a format is given
          UnsignedMax, \* the largest unsigned int
          LocalOffset  \* what the local zone is ahead of UTC, in minutes

ASSUME ParserAssumption == UnsignedMax \in Nat /\ UnsignedMax > 60 /\ LocalOffset \in Int

VARIABLES
    format, parser,   \* the format, and what CompileFormat has made of it
    line, candidate,  \* the line, and the number of the candidate being tried
    index, ran,       \* where the next step begins; how many steps have run
    output,           \* the DateAndTime the steps write to
    status, time      \* what has happened so far; the converted time

vars == <<format, parser, line, candidate, index, ran, output, status, time>>

-----------------------------------------------------------------------------
(***************************************************************************)
(* Characters and numbers.                                                 *)
(***************************************************************************)
None == -1

DigitChars == <<"0", "1", "2", "3", "4", "5", "6", "7", "8", "9">>

Digit == [c \in {DigitChars[i] : i \in 1 .. 10} |-> CHOOSE v \in 0 .. 9 : DigitChars[v + 1] = c]

is_digit(c) == c \in DOMAIN Digit

\* The value of a sequence of digits.
Number(s) == LET value[n \in 0 .. Len(s)] ==
                     IF n = 0 THEN 0 ELSE value[n - 1] * 10 + Digit[s[n]]
             IN  value[Len(s)]

\* The text t has k characters from index i on.
Has(t, i, k) == i >= 0 /\ i + k <= Len(t)

Letters == <<"a", "b", "c", "d", "e", "f", "g", "h", "i", "j", "k", "l", "m",
             "n", "o", "p", "q", "r", "s", "t", "u", "v", "w", "x", "y", "z">>
Capitals == <<"A", "B", "C", "D", "E", "F", "G", "H", "I", "J", "K", "L", "M",
              "N", "O", "P", "Q", "R", "S", "T", "U", "V", "W", "X", "Y", "Z">>

to_lower_ascii(c) == IF \E i \in 1 .. 26 : Capitals[i] = c
                     THEN Letters[CHOOSE i \in 1 .. 26 : Capitals[i] = c] ELSE c

\* The k digits at index i, or None.
try_parse_digits(t, i, k) ==
    IF Has(t, i, k) /\ \A j \in i + 1 .. i + k : is_digit(t[j])
    THEN Number(SubSeq(t, i + 1, i + k)) ELSE None

\* How many digits there are at index i.
DigitRun(t, i) == Cardinality({k \in 1 .. Len(t) - i : i >= 0 /\ try_parse_digits(t, i, k) # None})

NewDateAndTime == [year |-> 0, month |-> 0, day |-> 0, hour |-> 0, minute |-> 0, second |-> 0,
                   nanosecond |-> 0, utc_offset_minutes |-> {}, leap_second |-> FALSE]

-----------------------------------------------------------------------------
(***************************************************************************)
(* The steps.  Each takes the text, the index and the output so far, and   *)
(* returns how far it jumps and the new output.                            *)
(***************************************************************************)
NoMatch == [ok |-> FALSE]
Match(jump, out) == [ok |-> TRUE, jump |-> jump, out |-> out]

make_separator_parser(separator, t, i, out) ==
    IF Has(t, i, 1) /\ t[i + 1] = separator THEN Match(1, out) ELSE NoMatch

make_two_digit_year_parser(t, i, out) ==
    LET year == try_parse_digits(t, i, 2)
    IN  IF year = None THEN NoMatch ELSE Match(2, [out EXCEPT !.year = 2000 + year])

make_four_digit_year_parser(t, i, out) ==
    LET year == try_parse_digits(t, i, 4)
    IN  IF year = None THEN NoMatch ELSE Match(4, [out EXCEPT !.year = year])

make_two_digit_field_parser(field, min_value, max_value, t, i, out) ==
    LET value == try_parse_digits(t, i, 2)
    IN  IF value \in min_value .. max_value THEN Match(2, [out EXCEPT ![field] = value]) ELSE NoMatch

\* "DD", "D" and " D".
make_padded_day_parser(t, i, out) ==
    LET pad == IF Has(t, i, 1) /\ t[i + 1] = " " THEN 1 ELSE 0
        k   == IF pad = 0 /\ try_parse_digits(t, i, 2) # None THEN 2 ELSE 1
        day == try_parse_digits(t, i + pad, k)
    IN  IF day \in 1 .. 31 THEN Match(pad + k, [out EXCEPT !.day = day]) ELSE NoMatch

MonthNames == << <<"j", "a", "n">>, <<"f", "e", "b">>, <<"m", "a", "r">>, <<"a", "p", "r">>,
                 <<"m", "a", "y">>, <<"j", "u", "n">>, <<"j", "u", "l">>, <<"a", "u", "g">>,
                 <<"s", "e", "p">>, <<"o", "c", "t">>, <<"n", "o", "v">>, <<"d", "e", "c">> >>

make_month_name_parser(t, i, out) ==
    LET months == {m \in 1 .. 12 : /\ Has(t, i, 3)
                                   /\ \A j \in 1 .. 3 : to_lower_ascii(t[i + j]) = MonthNames[m][j]}
    IN  IF months = {} THEN NoMatch
        ELSE Match(3, [out EXCEPT !.month = CHOOSE m \in months : TRUE])

WithSecond(out, second) == [out EXCEPT !.second = second, !.leap_second = (second = 60)]

make_second_parser(t, i, out) ==
    LET second == try_parse_digits(t, i, 2)
    IN  IF second \in 0 .. 60 THEN Match(2, WithSecond(out, second)) ELSE NoMatch

\* Mutated: the guard forgets the digit that is about to be added.
variable_second_wraps(t, i, n) ==
    LET second[k \in 0 .. n] ==
            IF k = 0 THEN 0
            ELSE IF second[k - 1] = None \/ second[k - 1] > UnsignedMax \div 10 THEN None
            ELSE (second[k - 1] * 10 + Digit[t[i + k]]) % (UnsignedMax + 1)
    IN  second[n]

\* The value of the n digits at index i; the guard comes before the value can wrap.
variable_second(t, i, n) ==
    LET second[k \in 0 .. n] ==
            IF k = 0 THEN 0
            ELSE IF \/ second[k - 1] = None
                    \/ second[k - 1] > (UnsignedMax - Digit[t[i + k]]) \div 10 THEN None
            ELSE (second[k - 1] * 10 + Digit[t[i + k]]) % (UnsignedMax + 1)
    IN  second[n]

make_variable_second_parser(t, i, out) ==
    LET n      == DigitRun(t, i)
        second == variable_second(t, i, n)
    IN  IF n = 0 \/ second = None THEN NoMatch ELSE Match(n, WithSecond(out, second))

make_fraction_parser(digits, t, i, out) ==
    LET value == try_parse_digits(t, i, digits)
    IN  IF value = None THEN NoMatch
        ELSE Match(digits, [out EXCEPT !.nanosecond = value * 10 ^ (9 - digits)])

\* Mutated: digits beyond the ninth are left.
make_variable_fraction_parser_stops(t, i, out) ==
    LET n    == DigitRun(t, i)
        used == IF n < 9 THEN n ELSE 9
    IN  IF n = 0 THEN NoMatch
        ELSE Match(used, [out EXCEPT !.nanosecond = try_parse_digits(t, i, used) * 10 ^ (9 - used)])

\* Digits beyond the ninth are consumed and ignored.
make_variable_fraction_parser(t, i, out) ==
    LET n    == DigitRun(t, i)
        used == IF n < 9 THEN n ELSE 9
    IN  IF n = 0 THEN NoMatch
        ELSE Match(n, [out EXCEPT !.nanosecond = try_parse_digits(t, i, used) * 10 ^ (9 - used)])

make_utc_designator_parser(t, i, out) ==
    IF Has(t, i, 1) /\ t[i + 1] \in {"Z", "z"}
    THEN Match(1, [out EXCEPT !.utc_offset_minutes = {0}]) ELSE NoMatch

make_utc_offset_parser(with_colon, t, i, out) ==
    LET colon   == IF with_colon THEN 1 ELSE 0
        hours   == try_parse_digits(t, i + 1, 2)
        minutes == try_parse_digits(t, i + 3 + colon, 2)
    IN  IF /\ Has(t, i, 1) /\ t[i + 1] \in {"+", "-"}
           /\ with_colon => Has(t, i + 3, 1) /\ t[i + 4] = ":"
           /\ hours \in 0 .. 23 /\ minutes \in 0 .. 59
        THEN Match(5 + colon, [out EXCEPT !.utc_offset_minutes =
                 {IF t[i + 1] = "-" THEN - (hours * 60 + minutes) ELSE hours * 60 + minutes}])
        ELSE NoMatch

is_leap_year(year) == year % 400 = 0 \/ (year % 100 # 0 /\ year % 4 = 0)

max_day_in_month(month, leap_year) ==
    CASE month \in {1, 3, 5, 7, 8, 10, 12} -> 31
      [] month \in {4, 6, 9, 11}           -> 30
      [] month = 2                         -> IF leap_year THEN 29 ELSE 28
      [] OTHER                             -> 0

make_date_validator(has_year, out) ==
    IF \/ out.month = 0 \/ out.day = 0
       \/ out.day <= max_day_in_month(out.month, ~has_year \/ is_leap_year(out.year))
    THEN Match(0, out) ELSE NoMatch

\* Run one step of a compiled parser.
Apply(step, t, i, out) ==
    CASE step.make = "separator"       -> make_separator_parser(step.char, t, i, out)
      [] step.make = "two_digit_year"  -> make_two_digit_year_parser(t, i, out)
      [] step.make = "four_digit_year" -> make_four_digit_year_parser(t, i, out)
      [] step.make = "field"  -> make_two_digit_field_parser(step.field, step.lo, step.hi, t, i, out)
      [] step.make = "padded_day"      -> make_padded_day_parser(t, i, out)
      [] step.make = "month_name"      -> make_month_name_parser(t, i, out)
      [] step.make = "second"          -> make_second_parser(t, i, out)
      [] step.make = "variable_second" -> make_variable_second_parser(t, i, out)
      [] step.make = "fraction"        -> make_fraction_parser(step.digits, t, i, out)
      [] step.make = "variable_fraction" -> make_variable_fraction_parser(t, i, out)
      [] step.make = "utc_designator"  -> make_utc_designator_parser(t, i, out)
      [] step.make = "utc_offset"      -> make_utc_offset_parser(step.with_colon, t, i, out)
      [] step.make = "date_validator"  -> make_date_validator(step.has_year, out)

-----------------------------------------------------------------------------
(***************************************************************************)
(* CompileFormat.                                                          *)
(***************************************************************************)
Step(make)          == [make |-> make]
Separator(c)        == [make |-> "separator", char |-> c]
Field(name, lo, hi) == [make |-> "field", field |-> name, lo |-> lo, hi |-> hi]
Fraction(n)         == [make |-> "fraction", digits |-> n]
UtcOffset(colon)    == [make |-> "utc_offset", with_colon |-> colon]
Validator(year)     == [make |-> "date_validator", has_year |-> year]

is_separator(c) == c \notin {"Y", "M", "D", "h", "H", "m", "s", "f", "Z"}

\* How often the character at index i follows itself, counting itself.
RunLength(f, i) == Cardinality({k \in 1 .. Len(f) - i : \A j \in 1 .. k : f[i + j] = f[i + 1]})

Token(len, step) == [len |-> len, step |-> step]
Incomplete       == Token(0, Step("incomplete"))

\* Mutated: MM is looked for before MMM, and the month's name is never recognised.
month_token_short(n) == IF n >= 2 THEN Token(2, Field("month", 1, 12)) ELSE Incomplete

month_token(n) == CASE n >= 3 -> Token(3, Step("month_name"))
                    [] n = 2  -> Token(2, Field("month", 1, 12))
                    [] n = 1  -> Incomplete

zone_token(n) == CASE n >= 3 -> Token(3, UtcOffset(TRUE))
                   [] n = 2  -> Token(2, UtcOffset(FALSE))
                   [] n = 1  -> Token(1, Step("utc_designator"))

\* The token that begins at index i: one turn of the loop.
token(f, i) ==
    LET c    == f[i + 1]
        n    == RunLength(f, i)
        star == i + 2 <= Len(f) /\ f[i + 2] = "*"
    IN  CASE c = "Y" /\ n >= 4             -> Token(4, Step("four_digit_year"))
          [] c = "Y" /\ n \in 2 .. 3       -> Token(2, Step("two_digit_year"))
          [] c = "M"                       -> month_token(n)
          [] c = "D" /\ star               -> Token(2, Step("padded_day"))
          [] c = "D" /\ n >= 2             -> Token(2, Field("day", 1, 31))
          [] c \in {"h", "H"} /\ n >= 2    -> Token(2, Field("hour", 0, 23))
          [] c = "m" /\ n >= 2             -> Token(2, Field("minute", 0, 59))
          [] c = "s" /\ star               -> Token(2, Step("variable_second"))
          [] c = "s" /\ n >= 2             -> Token(2, Step("second"))
          [] c = "f" /\ star               -> Token(2, Step("variable_fraction"))
          [] c = "f" /\ ~star /\ n <= 9    -> Token(n, Fraction(n))
          [] c = "Z"                       -> zone_token(n)
          [] is_separator(c)               -> Token(1, Separator(c))
          [] OTHER                         -> Incomplete

InvalidParser == [valid |-> FALSE, steps |-> << >>]

YearSteps  == {Step("two_digit_year"), Step("four_digit_year")}
MonthSteps == {Step("month_name"), Field("month", 1, 12)}
DaySteps   == {Step("padded_day"), Field("day", 1, 31)}

\* The parser made of these steps: dates are validated once all fields have been read.
Parser(steps) ==
    LET made     == {steps[k] : k \in DOMAIN steps}
        has_date == made \cap (MonthSteps \cup DaySteps) # {}
    IN  [valid |-> TRUE,
         steps |-> IF has_date THEN Append(steps, Validator(made \cap YearSteps # {})) ELSE steps]

CompileFormat(f) ==
    LET steps[i \in 0 .. Len(f)] ==
            IF i = Len(f) THEN << >>
            ELSE LET t == token(f, i)
                 IN  IF t = Incomplete THEN <<t.step>> ELSE <<t.step>> \o steps[i + t.len]
        all == steps[0]
    IN  IF f = << >> \/ \E k \in DOMAIN all : all[k] = Incomplete.step
        THEN InvalidParser ELSE Parser(all)

-----------------------------------------------------------------------------
(***************************************************************************)
(* Where a timestamp may begin.                                            *)
(***************************************************************************)
IsWhitespace(c) == c \in {" ", "\t"}

possible_parse_start_indices(t, max_indices) ==
    LET scan[i \in 0 .. Len(t)] ==
            IF i = 0 THEN [in_whitespace |-> FALSE, indices |-> <<0>>]
            ELSE LET s == scan[i - 1]
                     w == IsWhitespace(t[i])
                 IN  CASE Len(s.indices) = max_indices -> s
                       [] OTHER -> [in_whitespace |-> w,
                                    indices |-> IF s.in_whitespace /\ ~w
                                                THEN Append(s.indices, i - 1) ELSE s.indices]
    IN  IF max_indices <= 1 THEN <<0>> ELSE scan[Len(t)].indices

\* Mutated: n counts from 1.
nth_parse_start_index_from_one(t, n) ==
    IF n <= 1 THEN 0
    ELSE LET starts == {i \in 1 .. Len(t) - 1 : IsWhitespace(t[i]) /\ ~IsWhitespace(t[i + 1])}
         IN  IF Cardinality(starts) < n THEN None
             ELSE CHOOSE i \in starts : Cardinality({j \in starts : j <= i}) = n

\* The index at which the n-th run of whitespace has ended.
nth_parse_start_index(t, n) ==
    LET scan[i \in 0 .. Len(t)] ==
            IF i = 0 THEN [in_whitespace |-> FALSE, found |-> 0, at |-> None]
            ELSE LET s == scan[i - 1]
                     w == IsWhitespace(t[i])
                     start == s.in_whitespace /\ ~w
                 IN  CASE s.at # None -> s
                       [] OTHER -> [in_whitespace |-> w,
                                    found |-> IF start THEN s.found + 1 ELSE s.found,
                                    at |-> IF start /\ s.found + 1 = n THEN i - 1 ELSE None]
    IN  CASE n < 0 -> None
          [] n = 0 -> 0
          [] n > 0 -> scan[Len(t)].at

-----------------------------------------------------------------------------
(***************************************************************************)
(* Conversion.  A time is a day, counted from 1970-01-01, a second of that *)
(* day and a nanosecond.                                                   *)
(***************************************************************************)
SecondsPerDay == 86400

\* The day number of a date of the Gregorian calendar, as timegm computes it.
DayNumber(year, month, day) ==
    LET y   == IF month <= 2 THEN year - 1 ELSE year
        yoe == y % 400
        doy == (153 * (IF month > 2 THEN month - 3 ELSE month + 9) + 2) \div 5 + day - 1
    IN  (y \div 400) * 146097 + yoe * 365 + yoe \div 4 - yoe \div 100 + doy - 719468

\* The second s after the beginning of day d.
AtSecond(d, s) == <<d + s \div SecondsPerDay, s % SecondsPerDay>>

\* timegm and mktime: the second the fields stand for in a zone that is offset minutes
\* ahead of UTC.
make_time(date, second, offset) ==
    AtSecond(DayNumber(date.year, date.month, date.day),
             date.hour * 3600 + date.minute * 60 + second - offset * 60)

\* Mutated: the offset is added.
to_utc_added(epoch, zone) ==
    IF zone = {} THEN epoch ELSE AtSecond(epoch[1], epoch[2] + 60 * (CHOOSE o \in zone : TRUE))

\* A time in the zone that was written, if one was, becomes a time in UTC.
to_utc(epoch, zone) ==
    IF zone = {} THEN epoch ELSE AtSecond(epoch[1], epoch[2] - 60 * (CHOOSE o \in zone : TRUE))

\* Whether a system_clock time_point holds this time: signed 64 bits, in nanoseconds.
fits(at, nanosecond) ==
    \/ at[1] \in -106751 .. 106750
    \/ at[1] = 106751 /\ (at[2] < 85636 \/ (at[2] = 85636 /\ nanosecond <= 854775807))
    \/ at[1] = -106752 /\ at[2] >= 764

\* Some time: what comes of a signed overflow.
Garbled == [at |-> << >>, nanosecond |-> 0]

\* A leap second is folded into the second before it.  A civil time that is -1 in
\* time_t counts as a failure before its offset is looked at.
to_time_point(date) ==
    LET second == IF date.second < 59 THEN date.second ELSE 59
        zone   == date.utc_offset_minutes
        epoch  == make_time(date, second, IF zone = {} THEN LocalOffset ELSE 0)
        utc    == to_utc(epoch, zone)
    IN  IF epoch = AtSecond(0, -1) THEN {}
        ELSE IF fits(utc, date.nanosecond) THEN {[at |-> utc, nanosecond |-> date.nanosecond]}
        ELSE {Garbled}

-----------------------------------------------------------------------------
(***************************************************************************)
(* A user of the library.                                                  *)
(***************************************************************************)
TypeOK ==
    /\ format \in Formats
    /\ parser.valid \in BOOLEAN
    /\ index \in -1 .. Len(line) /\ ran \in 0 .. Len(parser.steps) /\ candidate \in Nat
    /\ status \in {"new", "invalid", "compiled", "parsing", "rejected", "nothing", "matched", "converted"}
    /\ output.month \in 0 .. 12 /\ output.day \in 0 .. 31 /\ output.hour \in 0 .. 23
    /\ output.minute \in 0 .. 59 /\ output.second \in 0 .. UnsignedMax
    /\ output.nanosecond \in 0 .. 999999999 /\ output.leap_second = (output.second = 60)

Init ==
    /\ format \in Formats /\ parser = InvalidParser
    /\ line = << >> /\ candidate = 0 /\ index = 0 /\ ran = 0
    /\ output = NewDateAndTime /\ status = "new" /\ time = {}

Compile ==
    /\ status = "new"
    /\ parser' = CompileFormat(format)
    /\ status' = IF parser'.valid THEN "compiled" ELSE "invalid"
    /\ UNCHANGED <<format, line, candidate, index, ran, output, time>>

\* Try candidate n of the line l.
Try(l, n) ==
    /\ line' = l /\ candidate' = n
    /\ index' = nth_parse_start_index(l, n)
    /\ status' = IF index' = None THEN "nothing" ELSE "parsing"
    /\ ran' = 0 /\ output' = NewDateAndTime
    /\ UNCHANGED <<format, parser, time>>

ReadLine == status = "compiled" /\ \E l \in Lines(format) : Try(l, 0)
NextCandidate == status = "rejected" /\ Try(line, candidate + 1)

RunStep ==
    /\ status = "parsing" /\ ran < Len(parser.steps)
    /\ \E r \in {Apply(parser.steps[ran + 1], line, index, output)} :
          IF r.ok
          THEN /\ index' = index + r.jump /\ output' = r.out /\ ran' = ran + 1
               /\ status' = IF ran' = Len(parser.steps) THEN "matched" ELSE "parsing"
          ELSE status' = "rejected" /\ UNCHANGED <<index, output, ran>>
    /\ UNCHANGED <<format, parser, line, candidate, time>>

Convert ==
    /\ status = "matched"
    /\ time' = to_time_point(output)
    /\ status' = "converted"
    /\ UNCHANGED <<format, parser, line, candidate, index, ran, output>>

Next == Compile \/ ReadLine \/ NextCandidate \/ RunStep \/ Convert

Spec == Init /\ [][Next]_vars

-----------------------------------------------------------------------------
(***************************************************************************)
(* Reference definitions: what a format and a text mean.                   *)
(***************************************************************************)
Repeat(c, n) == [k \in 1 .. n |-> c]

\* n in decimal, with leading zeros to width k.
Decimal(n, k) ==
    [j \in 1 .. k |-> IF k - j > 9 THEN "0" ELSE DigitChars[((n \div 10 ^ (k - j)) % 10) + 1]]

\* The format tokens the header lists, with their steps.
Tokens ==
    {<<Repeat("Y", 4), Step("four_digit_year")>>, <<Repeat("Y", 2), Step("two_digit_year")>>,
     <<Repeat("M", 2), Field("month", 1, 12)>>, <<Repeat("M", 3), Step("month_name")>>,
     <<Repeat("D", 2), Field("day", 1, 31)>>, << <<"D", "*">>, Step("padded_day")>>,
     <<Repeat("h", 2), Field("hour", 0, 23)>>, <<Repeat("H", 2), Field("hour", 0, 23)>>,
     <<Repeat("m", 2), Field("minute", 0, 59)>>, <<Repeat("s", 2), Step("second")>>,
     << <<"s", "*">>, Step("variable_second")>>, << <<"f", "*">>, Step("variable_fraction")>>,
     <<Repeat("Z", 1), Step("utc_designator")>>, <<Repeat("Z", 2), UtcOffset(FALSE)>>,
     <<Repeat("Z", 3), UtcOffset(TRUE)>>} \cup {<<Repeat("f", n), Fraction(n)>> : n \in 1 .. 9}

Reserved == UNION {{tok[1][1]} : tok \in Tokens}

\* Cut the format into tokens, from the left, the longest that fits first.
LongestMatch(f) ==
    LET At(i)    == {tok \in Tokens : /\ Has(f, i, Len(tok[1]))
                                      /\ SubSeq(f, i + 1, i + Len(tok[1])) = tok[1]}
        steps[i \in 0 .. Len(f)] ==
            IF i = Len(f) THEN << >>
            ELSE IF f[i + 1] \notin Reserved THEN <<Separator(f[i + 1])>> \o steps[i + 1]
            ELSE IF At(i) = {} THEN <<Incomplete.step>>
            ELSE LET tok == CHOOSE a \in At(i) : \A b \in At(i) : Len(a[1]) >= Len(b[1])
                 IN  <<tok[2]>> \o steps[i + Len(tok[1])]
    IN  IF \/ f = << >>
           \/ \E k \in DOMAIN steps[0] : steps[0][k] = Incomplete.step
           \/ \E i \in 0 .. Len(f) - 10 : SubSeq(f, i + 1, i + 10) = Repeat("f", 10)
        THEN InvalidParser ELSE Parser(steps[0])

\* The days a month has, from the day numbers of its first day and the next month's.
MonthLength(year, month) ==
    DayNumber(IF month = 12 THEN year + 1 ELSE year, IF month = 12 THEN 1 ELSE month + 1, 1)
      - DayNumber(year, month, 1)

\* What out becomes when the step reads exactly this text: one value, or none.
Reading(step, text, out) ==
    LET set(name, values, Spelling(_)) ==
            {[out EXCEPT ![name] = v] : v \in {w \in values : text = Spelling(w)}}
        n      == Len(text)
        digits == \A k \in 1 .. n : is_digit(text[k])
        nanos  == Number(SubSeq(text \o Repeat("0", 9), 1, 9))
    IN  CASE step.make = "separator" -> IF text = <<step.char>> THEN {out} ELSE {}
          [] step.make = "two_digit_year" -> set("year", 2000 .. 2099, LAMBDA v : Decimal(v, 2))
          [] step.make = "four_digit_year" ->
                {[out EXCEPT !.year = 100 * c + v] :
                    c \in {c \in 0 .. 99 : n = 4 /\ SubSeq(text, 1, 2) = Decimal(c, 2)},
                    v \in {v \in 0 .. 99 : n = 4 /\ SubSeq(text, 3, 4) = Decimal(v, 2)}}
          [] step.make = "field" -> set(step.field, step.lo .. step.hi, LAMBDA v : Decimal(v, 2))
          [] step.make = "padded_day" ->
                set("day", 1 .. 31, LAMBDA v : Decimal(v, 2)) \cup
                set("day", 1 .. 9, LAMBDA v : Decimal(v, 1)) \cup
                set("day", 1 .. 9, LAMBDA v : <<" ">> \o Decimal(v, 1))
          [] step.make = "month_name" ->
                {[out EXCEPT !.month = m] : m \in
                    {m \in 1 .. 12 : [k \in 1 .. n |-> to_lower_ascii(text[k])] = MonthNames[m]}}
          [] step.make = "second" ->
                {WithSecond(out, v) : v \in {v \in 0 .. 60 : text = Decimal(v, 2)}}
          [] step.make = "variable_second" ->
                {WithSecond(out, v) : v \in {v \in 0 .. UnsignedMax : n > 0 /\ text = Decimal(v, n)}}
          [] step.make = "fraction" ->
                IF digits /\ n = step.digits THEN {[out EXCEPT !.nanosecond = nanos]} ELSE {}
          [] step.make = "variable_fraction" ->
                IF digits /\ n > 0 THEN {[out EXCEPT !.nanosecond = nanos]} ELSE {}
          [] step.make = "utc_designator" ->
                IF text \in {<<"Z">>, <<"z">>} THEN {[out EXCEPT !.utc_offset_minutes = {0}]} ELSE {}
          [] step.make = "utc_offset" ->
                LET colon == IF step.with_colon THEN <<":">> ELSE << >>
                    spelt(s) == {hm \in (0 .. 23) \X (0 .. 59) :
                                    text = <<s>> \o Decimal(hm[1], 2) \o colon \o Decimal(hm[2], 2)}
                IN  {[out EXCEPT !.utc_offset_minutes = {60 * hm[1] + hm[2]}] : hm \in spelt("+")}
                    \cup {[out EXCEPT !.utc_offset_minutes = {-60 * hm[1] - hm[2]}] : hm \in spelt("-")}
          [] step.make = "date_validator" ->
                IF /\ text = << >>
                   /\ out.month = 0 \/ out.day = 0 \/
                      out.day <= MonthLength(IF step.has_year THEN out.year ELSE 2000, out.month)
                THEN {out} ELSE {}

\* A number read from begin to end stops where it should: s* and f* at the end of the
\* digits, D* there or after two characters (" 12" is read as " 1").
Uncut(step, begin, end) ==
    LET digit_follows == end < Len(line) /\ is_digit(line[end + 1])
    IN  CASE step.make \in {"variable_second", "variable_fraction"} -> ~digit_follows
          [] step.make = "padded_day" -> digit_follows => end - begin = 2
          [] OTHER -> TRUE

-----------------------------------------------------------------------------
\* Properties.

\* CompileFormat cuts a format into the tokens of the header's table, the longest first;
\* a reserved character that completes no token, and a run of ten f, make it invalid.
FormatIsTokenised == status \in {"compiled", "invalid"} => parser = LongestMatch(format)

\* The two ways to ask for candidates agree, with each other and with the header:
\* offset 0 and the start of every whitespace-delimited token, in order, cut off at the
\* maximum.
CandidatesAgree ==
    status = "parsing" /\ ran = 0 /\ candidate = 0 =>
        LET starts == {0} \cup {i \in 1 .. Len(line) - 1 :
                                   IsWhitespace(line[i]) /\ ~IsWhitespace(line[i + 1])}
        IN  \A n \in -1 .. Len(line) + 1 :
              LET some == possible_parse_start_indices(line, n)
                  nth  == nth_parse_start_index(line, n)
              IN  /\ {some[k] : k \in DOMAIN some} \subseteq starts
                  /\ Len(some) = IF n <= 1 THEN 1
                                 ELSE IF n < Cardinality(starts) THEN n ELSE Cardinality(starts)
                  /\ \A k \in 2 .. Len(some) : some[k - 1] < some[k]
                  /\ IF n \in 0 .. Cardinality(starts) - 1
                     THEN nth \in starts /\ Cardinality({i \in starts : i < nth}) = n
                     ELSE nth = None

\* A step that succeeds has read a text that means what it has written, has written
\* nothing else, and leaves no digit of a number of variable width; when it fails there
\* is no such text here.  Of a day padded with a space one digit is read and no more.
StepsReadTheirTokens ==
    [][RunStep =>
         LET step == parser.steps[ran + 1]
             read(end) == IF Uncut(step, index, end)
                          THEN Reading(step, SubSeq(line, index + 1, end), output) ELSE {}
         IN  IF status' # "rejected" THEN output' \in read(index')
             ELSE \A end \in index .. Len(line) : read(end) = {}]_vars

\* No field leaves its range.  The converted time is the civil time that was written, at
\* its offset from UTC, in every year from 1678 to 2261; before 1677, after 2262 and
\* without a year it overflows.  No time is returned for one civil time only, the last
\* second before 1970.
TimeIsTheOneWritten ==
    /\ TypeOK
    /\ status = "converted" =>
           LET offset == IF output.utc_offset_minutes = {} THEN LocalOffset
                         ELSE CHOOSE o \in output.utc_offset_minutes : TRUE
               civil  == <<DayNumber(output.year, output.month, output.day),
                           output.hour * 3600 + output.minute * 60
                             + (IF output.second > 59 THEN 59 ELSE output.second)>>
           IN  /\ \A t \in time \ {Garbled} : /\ AtSecond(t.at[1], t.at[2] + offset * 60) = civil
                                              /\ t.nanosecond = output.nanosecond
               /\ output.year \in 1678 .. 2261 => Garbled \notin time
               /\ output.year \notin 1677 .. 2262 => time = {Garbled}
               /\ time = {} <=> civil = AtSecond(0, IF output.utc_offset_minutes = {}
                                                    THEN LocalOffset * 60 - 1 ELSE -1)
=============================================================================
