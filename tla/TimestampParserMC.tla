------------------------- MODULE TimestampParserMC -------------------------
(***************************************************************************)
(* Formats and lines for TimestampParser.                                  *)
(***************************************************************************)
EXTENDS TimestampParser

Chars == {"Y", "M", "D", "h", "H", "m", "s", "f", "Z", "*", "-"}

\* Two runs of characters, and runs of f around the limit: where one token ends and the
\* next begins is decided by the lengths of the runs.
RunFormats ==
    {Repeat(c, j) \o Repeat(d, k) : c, d \in Chars, j, k \in 0 .. 5}
      \cup {Repeat("f", n) \o t : n \in 8 .. 11, t \in {<< >>, <<"*">>, <<"f", "*">>, <<"-", "f">>}}

\* All lines that put one text of each set next to another.
Lines_of(pieces) ==
    LET upto[k \in 0 .. Len(pieces)] ==
            IF k = 0 THEN {<< >>} ELSE {l \o p : l \in upto[k - 1], p \in pieces[k]}
    IN  upto[Len(pieces)]

Numbers(s, k) == {Decimal(n, k) : n \in s}
Dash == {<<"-">>}

Date    == <<"Y", "Y", "Y", "Y", "-", "M", "M", "-", "D", "D">>
Compact == <<"Y", "Y", "M", "M", "D", "D">>
Syslog  == <<"M", "M", "M", " ", "D", "*", " ", "h", "h">>
Clock   == <<"H", "H", "-", "m", "m", "-", "s", "s">>
Uptime  == <<"s", "*", "-", "f", "*">>
Short   == <<"f", "f", "-", "Z">>
Zone    == <<"m", "m", "Z", "Z">>
Minute  == <<"m", "m">>
Full    == <<"Y", "Y", "Y", "Y", "M", "M", "D", "D", "-", "h", "h", "m", "m", "s", "s", "Z", "Z", "Z">>
Local   == <<"Y", "Y", "Y", "Y", "M", "M", "D", "D", "h", "h", "m", "m", "s", "*">>

MCFormats == RunFormats \cup {Date, Compact, Syslog, Clock, Uptime, Short, Zone, Minute, Full, Local}

MCLines(f) ==
    CASE f = Date ->
           Lines_of(<<Numbers({1677, 1900, 2000, 2024, 2262, 2400}, 4) \cup {<<"2", "0", "x", "4">>},
                      Dash \cup {<<"/">>}, Numbers({0, 1, 2, 4, 11, 12, 13}, 2), Dash,
                      Numbers({0, 1, 28, 29, 30, 31, 32}, 2) \cup {<<"3">>}>>)
      [] f = Compact -> Lines_of(<<Numbers({0, 24, 99}, 2), Numbers({2, 9}, 2), Numbers({28, 29, 31}, 2)>>)
      [] f = Syslog ->
           Lines_of(<<{<<"x", " ">>, << >>},
                      {<<"F", "e", "b">>, <<"j", "U", "N">>, <<"D", "e", "k">>, <<"M", "a">>}, {<<" ">>},
                      {<<"3">>, <<" ", "3">>, <<"0", "3">>, <<"2", "9">>, <<"3", "0">>, <<"3", "9">>,
                       <<"0">>, <<" ", "1", "2">>, <<" ">>}, {<<" ">>, << >>}, Numbers({7}, 2)>>)
      [] f = Clock ->
           Lines_of(<<Numbers({0, 23, 24}, 2), Dash, Numbers({59, 60}, 2), Dash, Numbers({0, 59, 60, 61}, 2)>>)
      [] f = Uptime ->
           Lines_of(<<Numbers({0, 60, 99, 127, 128, 129, 130}, 3) \cup Numbers({5, 60}, 4) \cup {<< >>},
                      Dash, {<<"5">>, << >>, Decimal(12345678, 8) \o <<"9", "9">>, Decimal(7, 9)}>>)
      [] f = Short -> Lines_of(<<{<<"1">>, <<"1", "2">>, <<"1", "x">>}, Dash, {<<"Z">>, <<"z">>, <<"+">>, << >>}>>)
      [] f = Zone ->
           Lines_of(<<Numbers({30}, 2), {<<"+">>, <<"-">>, <<" ">>}, Numbers({0, 23, 24}, 2),
                      Numbers({0, 59, 60}, 2) \cup {<<"1">>}>>)
      [] f = Minute -> UNION {[1 .. n -> {" ", "\t", "5"}] : n \in 1 .. 6}
      [] f = Full ->
           Lines_of(<<Numbers({1969, 1970, 2024}, 4), Numbers({1, 2, 12}, 2), Numbers({1, 29, 31}, 2), Dash,
                      Numbers({0, 23}, 2), Numbers({0, 59}, 2), Numbers({0, 59, 60}, 2),
                      {<<"+">>, <<"-">>}, Numbers({0, 1}, 2), {<<":">>}, Numbers({0}, 2)>>)
      [] f = Local ->
           Lines_of(<<Numbers({1969, 1970}, 4), Numbers({1, 12}, 2), Numbers({1, 31}, 2),
                      Numbers({0, 23}, 2), Numbers({0, 29, 59}, 2), Numbers({59, 60, 100}, 3)>>)
      [] OTHER -> {}
=============================================================================
