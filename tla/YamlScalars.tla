---------------------------- MODULE YamlScalars ----------------------------
(***************************************************************************)
(* The scalars of canonical_yaml.py and their text, a sequence of          *)
(* characters. A numeral is one character, and so is an exponent.          *)
(***************************************************************************)
EXTENDS Integers, Sequences, SequencesExt, TLC

Str(text) == <<"str", text>>
\* digits[1].digits[2]... times 10^exponent, without trailing zeros.
Float(negative, digits, exponent) == <<"float", negative, digits, exponent>>
NonFinite(v) == v[1] = "float" /\ Len(v) = 2

replace(text, old, new) ==
    FlattenSeq([i \in DOMAIN text |-> IF text[i] = old THEN new ELSE <<text[i]>>])

EscapeQuotes(text) == replace(text, "\"", <<"\\", "\"">>)
EscapeControls(text) ==
    replace(replace(replace(text, "LF", <<"\\", "n">>), "CR", <<"\\", "r">>),
            "TAB", <<"\\", "t">>)

\* Mutant: the backslash is escaped last, with those the other escapes have put there.
QuoteBackslashLast(text) ==
    <<"\"">> \o replace(EscapeControls(EscapeQuotes(text)), "\\", <<"\\", "\\">>) \o <<"\"">>

\* The backslash first, or it would be escaped again where another escape has put it.
Quote(text) ==
    <<"\"">> \o EscapeControls(EscapeQuotes(replace(text, "\\", <<"\\", "\\">>))) \o <<"\"">>

Zeros(n) == [i \in 1..n |-> "0"]
OrZero(digits) == IF digits = <<>> THEN <<"0">> ELSE digits
Padded(digits, n) == digits \o Zeros(n - Len(digits))

\* A point in the mantissa and a sign in the exponent, always: without them the text is a
\* string to a YAML 1.1 reader.
FormatFloat(v) ==
    LET d == v[3]   e == v[4]
    IN  (IF v[2] THEN <<"-">> ELSE <<>>)
        \o (IF e < -4 \/ e >= 16
            THEN <<d[1], ".">> \o OrZero(Tail(d))
                 \o <<"e", IF e < 0 THEN "-" ELSE "+", ToString(IF e < 0 THEN -e ELSE e)>>
            ELSE IF e < 0 THEN <<"0", ".">> \o Zeros(-e - 1) \o d
            ELSE SubSeq(Padded(d, e + 1), 1, e + 1) \o <<".">>
                 \o OrZero(SubSeq(d, e + 2, Len(d))))

\* The exception, or none.
ScalarFault(v) ==
    IF NonFinite(v) THEN "ValueError"
    ELSE IF v[1] \notin {"None", "bool", "int", "float", "str"} THEN "TypeError" ELSE "none"

FormatScalar(v) ==
    CASE v[1] = "None" -> <<"null">>
      [] v[1] = "bool" -> <<IF v[2] THEN "true" ELSE "false">>
      [] v[1] = "int" -> <<v[2]>>
      [] v[1] = "float" -> FormatFloat(v)
      [] v[1] = "str" -> Quote(v[2])
=============================================================================
