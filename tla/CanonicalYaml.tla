--------------------------- MODULE CanonicalYaml ---------------------------
(***************************************************************************)
(* canonical_yaml.py: the serializer of the exchange artifacts, and a      *)
(* reader of block YAML to hold it against. A text is a sequence of        *)
(* characters and a line a sequence of symbols: a character, or two        *)
(* columns at a time, "  " and "- ", so that columns can be counted.       *)
(***************************************************************************)
EXTENDS YamlScalars, FiniteSetsExt

CONSTANTS
    Characters,  \* a sequence: the characters of the texts, in the order of their codes
    Documents    \* the Python values that are serialized

ASSUME YamlAssumption ==
    \A i, j \in DOMAIN Characters : Characters[i] = Characters[j] => i = j

VARIABLES
    document,
    dumped       \* what canonical_dump did: raised, and the text

-----------------------------------------------------------------------------
(* Python values. A mapping is a sequence of entries, in insertion order.  *)

IsMapping(v) == v[1] = "map"
IsSequence(v) == v[1] = "seq"
IsContainer(v) == IsMapping(v) \/ IsSequence(v)

-----------------------------------------------------------------------------
(* The emitter. out is [raised, lines]; an exception leaves every frame.   *)

Raise(out, what) == [out EXCEPT !.raised = what]
AddLine(out, line) == [out EXCEPT !.lines = Append(@, line)]
Pad(indent) == [i \in 1..indent |-> "  "]

AddScalar(out, before, v) ==
    IF ScalarFault(v) # "none" THEN Raise(out, ScalarFault(v))
    ELSE AddLine(out, before \o FormatScalar(v))

\* lines[-1] += ..., and there is no last line at the top level.
AddEmpty(out, brackets) ==
    IF out.lines = <<>> THEN Raise(out, "IndexError")
    ELSE [out EXCEPT !.lines[Len(out.lines)] = @ \o <<" ", brackets>>]

code(c) == CHOOSE i \in DOMAIN Characters : Characters[i] = c
Precedes(a, b) ==
    \E i \in 1..(Len(a) + 1) :
        /\ SubSeq(a, 1, i - 1) = SubSeq(b, 1, i - 1)
        /\ i <= Len(b)
        /\ i = Len(a) + 1 \/ code(a[i]) < code(b[i])

\* Mutant: the keys as they were inserted.
UnsortedEntries(v) == v[2]

SortedEntries(v) == SortSeq(v[2], LAMBDA p, q : Precedes(p[1][2], q[1][2]))

\* "-" and the line after it become one line, of the same columns.
CollapseDash(lines, indent) ==
    LET pad == Pad(indent)
        at == {p \in DOMAIN lines : lines[p] = Append(pad, "-")}
    IN  IF at = {} \/ Max(at) = Len(lines) THEN lines
        ELSE LET p == Max(at)
                 stripped == SubSeq(lines[p + 1], indent + 2, Len(lines[p + 1]))
             IN  SubSeq(lines, 1, p - 1) \o <<pad \o <<"- ">> \o stripped>>
                 \o SubSeq(lines, p + 2, Len(lines))

RECURSIVE Emit(_, _, _)

EmitEntry(entry, indent, out) ==
    LET key == Pad(indent) \o Quote(entry[1][2]) \o <<":">>
    IN  IF out.raised # "none" THEN out
        ELSE IF IsContainer(entry[2]) THEN Emit(entry[2], indent + 1, AddLine(out, key))
        ELSE AddScalar(out, Append(key, " "), entry[2])

\* The entries of a mapping start on the line of its dash.
EmitDashed(item, indent, out) ==
    LET inner == Emit(item, indent + 1, AddLine(out, Append(Pad(indent), "-")))
    IN  [inner EXCEPT !.lines = CollapseDash(@, indent)]

\* Mutant: a sequence in a sequence is emitted as a mapping in a sequence is.
EmitItemNested(item, indent, out) ==
    IF out.raised # "none" THEN out
    ELSE IF IsContainer(item) /\ item[2] # <<>> THEN EmitDashed(item, indent, out)
    ELSE IF IsMapping(item) THEN AddLine(out, Pad(indent) \o <<"- ", "{}">>)
    ELSE AddScalar(out, Append(Pad(indent), "- "), item)

EmitItem(item, indent, out) ==
    IF out.raised # "none" THEN out
    ELSE IF IsSequence(item) THEN Raise(out, "TypeError")
    ELSE IF IsMapping(item) /\ item[2] # <<>> THEN EmitDashed(item, indent, out)
    ELSE IF IsMapping(item) THEN AddLine(out, Pad(indent) \o <<"- ", "{}">>)
    ELSE AddScalar(out, Append(Pad(indent), "- "), item)

Emit(value, indent, out) ==
    IF ~IsContainer(value) THEN Raise(out, "TypeError")
    ELSE IF value[2] = <<>> THEN AddEmpty(out, IF IsMapping(value) THEN "{}" ELSE "[]")
    ELSE IF IsSequence(value)
    THEN FoldLeft(LAMBDA o, item : EmitItem(item, indent, o), out, value[2])
    ELSE IF \E k \in DOMAIN value[2] : value[2][k][1][1] # "str" THEN Raise(out, "TypeError")
    ELSE FoldLeft(LAMBDA o, entry : EmitEntry(entry, indent, o), out, SortedEntries(value))

\* The text, every line ended.
canonical_dump(d) ==
    LET out == Emit(d, 0, [raised |-> "none", lines |-> <<>>])
    IN  [raised |-> out.raised,
         text |-> IF out.raised # "none" THEN <<>>
                  ELSE FlattenSeq([k \in DOMAIN out.lines |-> Append(out.lines[k], "LF")])]

-----------------------------------------------------------------------------
(* FIXTURE: every word one character of its own, in the order of the words *)

Dict(r) ==
    <<"map", FoldSet(LAMBDA word, entries : Append(entries, <<Str(<<word>>), r[word]>>),
                     <<>>, DOMAIN r)>>
List(s) == <<"seq", s>>
EmptyDict == <<"map", <<>>>>
Word(w) == Str(<<w>>)
Int1(numeral) == <<"int", numeral>>

FIXTURE ==
    Dict([booleans |-> Dict([no |-> <<"bool", FALSE>>, yes |-> <<"bool", TRUE>>]),
          empty_map_exception |-> EmptyDict,
          empty_seq_exception |-> List(<<>>),
          floats |-> Dict([large_exponent |-> Float(FALSE, <<"1">>, 16),
                           one |-> Float(FALSE, <<"1">>, 0),
                           small_exponent |-> Float(FALSE, <<"1">>, -5),
                           third |-> Float(FALSE, [i \in 1..16 |-> "3"], -1),
                           threshold_positional |-> Float(FALSE, <<"1">>, -4)]),
          integers |-> Dict([negative |-> Int1("-7"), zero |-> Int1("0")]),
          nested |-> Dict([b |-> Dict([d |-> List(<<Word("x"), Word("y")>>), c |-> Int1("1")]),
                           a |-> Word("first")]),
          nulls |-> Dict([absent |-> <<"None">>]),
          sequence_of_maps |-> List(<<Dict([k |-> Int1("1")]), Dict([k |-> Int1("2")])>>),
          strings |-> Dict([colon_space |-> Str(<<"needs", ":", " ", "quoting">>),
                            hash |-> Str(<<"trailing", " ", "#">>),
                            numeric_looking |-> Str(<<"1", ".", "5">>),
                            reserved |-> Word("true")]),
          implicit_typing_traps |-> Dict([octal_old |-> Str(<<"0", "0", "7">>), off |-> Word("off"),
                                          tilde |-> Word("~"), word_null |-> Word("null")]),
          collection_shapes |-> Dict([
              empty_map_in_a_sequence |-> List(<<EmptyDict, Dict([a |-> Int1("1")])>>),
              empty_seq_under_a_key_in_a_sequence |-> List(<<Dict([a |-> List(<<>>)])>>),
              map_in_seq_in_map_in_seq |-> List(<<Dict([a |-> List(<<Int1("1"), Int1("2")>>)])>>),
              seq_under_a_key_in_a_map_in_a_seq |->
                  List(<<Dict([b |-> Dict([c |-> List(<<Word("x")>>)])])>>),
              empty_map_value |-> EmptyDict,
              empty_sequence_value |-> List(<<>>),
              nested_empty_map |-> Dict([inner |-> EmptyDict]),
              nested_empty_sequence |-> Dict([inner |-> List(<<>>)]),
              sequence_of_scalars |-> List(<<Int1("1"), Int1("2"), Int1("3")>>),
              wrapped_inner_sequence |-> List(<<Dict([row |-> List(<<Int1("1"), Int1("2")>>)]),
                                                Dict([row |-> List(<<Int1("3")>>)])>>)]),
          zzz_key_sorting_proof |-> Word("sorted last")])

-----------------------------------------------------------------------------

Undumped == [raised |-> "pending", text |-> <<>>]

YamlInit == document \in Documents /\ dumped = Undumped

Dump ==
    /\ dumped = Undumped
    /\ dumped' = canonical_dump(document)
    /\ UNCHANGED document

-----------------------------------------------------------------------------
(* A reader of the subset of YAML the artifacts are written in             *)

Unreadable == <<"unreadable">>
Lines(text) ==
    LET ends == SelectSeq([i \in DOMAIN text |-> i], LAMBDA i : text[i] = "LF")
    IN  [k \in DOMAIN ends |->
            SubSeq(text, IF k = 1 THEN 1 ELSE ends[k - 1] + 1, ends[k] - 1)]
Indent(line) == Min({i \in 1..Len(line) : line[i] # "  "} \cup {Len(line) + 1}) - 1
From(s, i) == SubSeq(s, i, Len(s))

Unescaped == [c \in {"\\", "\"", "n", "r", "t"} |->
    CASE c = "n" -> "LF" [] c = "r" -> "CR" [] c = "t" -> "TAB" [] OTHER -> c]

\* A quoted text, from after its first quote, and what follows it.
RECURSIVE ReadText(_, _)
ReadText(s, text) ==
    IF s = <<>> THEN [text |-> text, rest |-> <<"unterminated">>]
    ELSE IF s[1] = "\"" THEN [text |-> text, rest |-> Tail(s)]
    ELSE IF s[1] = "\\" /\ Len(s) > 1 /\ s[2] \in DOMAIN Unescaped
    THEN ReadText(From(s, 3), Append(text, Unescaped[s[2]]))
    ELSE ReadText(Tail(s), Append(text, s[1]))

\* YAML 1.1: a float has a point, and its exponent a sign. The rest is text.
ReadNumber(s) ==
    LET t == IF s[1] = "-" THEN Tail(s) ELSE s
        end == Min({i \in DOMAIN t : t[i] = "e"} \cup {Len(t) + 1})
        point == Min({i \in 1..(end - 1) : t[i] = "."} \cup {end})
        digits == SubSeq(t, 1, point - 1) \o SubSeq(t, point + 1, end - 1)
        first == Min({i \in DOMAIN digits : digits[i] # "0"} \cup {Len(digits) + 1})
        last == Max({i \in DOMAIN digits : digits[i] # "0"} \cup {0})
        scale == IF end > Len(t) THEN 0
                 ELSE LET n == CHOOSE n \in 0..400 : ToString(n) = Last(t)
                      IN  IF t[end + 1] = "-" THEN -n ELSE n
    IN  IF Len(s) = 1 THEN <<"int", s[1]>>
        ELSE IF point = end THEN Str(s)
        ELSE IF last = 0 THEN Float(s[1] = "-", <<"0">>, 0)
        ELSE Float(s[1] = "-", SubSeq(digits, first, last), point - 1 - first + scale)

ReadScalar(s) ==
    IF s = <<>> THEN Unreadable
    ELSE IF s[1] = "\""
    THEN LET r == ReadText(Tail(s), <<>>) IN IF r.rest = <<>> THEN Str(r.text) ELSE Unreadable
    ELSE CASE s = <<"null">> -> <<"None">>
           [] s = <<"true">> -> <<"bool", TRUE>>
           [] s = <<"false">> -> <<"bool", FALSE>>
           [] s = <<"{}">> -> <<"map", <<>>>>
           [] s = <<"[]">> -> <<"seq", <<>>>>
           [] OTHER -> ReadNumber(s)

\* The block of the lines at this indentation, each with the deeper lines below it. After
\* "- " a key opens a block two columns further in.
RECURSIVE ReadBlock(_, _)
ReadBlock(lines, indent) ==
    LET heads == SelectSeq([p \in DOMAIN lines |-> p], LAMBDA p : Indent(lines[p]) = indent)
        below(h) == SubSeq(lines, heads[h] + 1,
                           IF h = Len(heads) THEN Len(lines) ELSE heads[h + 1] - 1)
        body(h) == From(lines[heads[h]], indent + 1)
        key(h) == ReadText(Tail(body(h)), <<>>)
        entry(h) ==
            LET rest == key(h).rest
            IN  << Str(key(h).text),
                   IF rest = <<":">> THEN ReadBlock(below(h), indent + 1)
                   ELSE IF Len(rest) > 2 /\ SubSeq(rest, 1, 2) = <<":", " ">> /\ below(h) = <<>>
                   THEN ReadScalar(From(rest, 3)) ELSE Unreadable >>
        item(h) ==
            LET s == Tail(body(h))
            IN  IF s # <<>> /\ s[1] = "\"" /\ ReadText(Tail(s), <<>>).rest # <<>>
                THEN ReadBlock(<<Pad(indent + 1) \o s>> \o below(h), indent + 1)
                ELSE IF below(h) = <<>> THEN ReadScalar(s) ELSE Unreadable
    IN  IF heads = <<>> \/ heads[1] # 1 THEN Unreadable
        ELSE IF \A h \in DOMAIN heads : body(h) # <<>> /\ body(h)[1] = "\""
        THEN <<"map", [h \in DOMAIN heads |-> entry(h)]>>
        ELSE IF \A h \in DOMAIN heads : body(h) # <<>> /\ body(h)[1] = "- "
        THEN <<"seq", [h \in DOMAIN heads |-> item(h)]>>
        ELSE Unreadable

-----------------------------------------------------------------------------
(* Properties *)

\* What a document means: the order of the entries of a mapping is not part of it.
RECURSIVE Meaning(_)
Meaning(v) ==
    IF IsMapping(v) THEN <<"map", {<<v[2][k][1], Meaning(v[2][k][2])>> : k \in DOMAIN v[2]}>>
    ELSE IF IsSequence(v) THEN <<"seq", [k \in DOMAIN v[2] |-> Meaning(v[2][k])]>>
    ELSE v

RECURSIVE Reinserted(_)
Reinserted(v) ==
    IF IsMapping(v)
    THEN <<"map", Reverse([k \in DOMAIN v[2] |-> <<v[2][k][1], Reinserted(v[2][k][2])>>])>>
    ELSE IF IsSequence(v) THEN <<"seq", [k \in DOMAIN v[2] |-> Reinserted(v[2][k])]>>
    ELSE v

\* In a mapping or a sequence, everything the emitter has a form for.
RECURSIVE Representable(_)
Representable(v) ==
    IF IsMapping(v)
    THEN \A k \in DOMAIN v[2] : v[2][k][1][1] = "str" /\ Representable(v[2][k][2])
    ELSE IF IsSequence(v)
    THEN \A k \in DOMAIN v[2] : ~IsSequence(v[2][k]) /\ Representable(v[2][k])
    ELSE ScalarFault(v) = "none"

\* What is serialized means to a reader what it meant to the writer: no escape, indentation,
\* collapsed dash, exponent or empty collection changes a value or its type. Two documents
\* of the same bytes, and so of the same digest, are the same document.
ReadsBack ==
    dumped.raised = "none" =>
        Meaning(ReadBlock(Lines(dumped.text), 0)) = Meaning(document)

\* A document has one serialization, whatever the order its mappings were filled in: two
\* repositories that hold the same data hash the same bytes.
OneSerialization ==
    dumped.raised = "none" => canonical_dump(Reinserted(document)) = dumped

\* The emitter refuses the documents it has no form for and no others, at any depth, and
\* it refuses them before a byte is written. The top level is a collection with something
\* in it: the brackets of an empty one go at the end of a line that is not there.
RefusalIsExact ==
    dumped # Undumped =>
        (dumped.raised = "none" <=>
            IsContainer(document) /\ document[2] # <<>> /\ Representable(document))
=============================================================================
