---------------------------- MODULE ReceiptJson ----------------------------
(***************************************************************************)
(* The strict JSON reader and writer under the receipt documents           *)
(* (dsl/src/json.cpp): Parser, writeInto, and Json::set, push and remove.  *)
(* A text is a sequence of characters; "a" is any letter, "ctl" a raw      *)
(* control character, "u", "hi" and "lo" the escapes \u of a plain code    *)
(* point, a high and a low surrogate, and "null" the literal.              *)
(***************************************************************************)
EXTENDS Integers, Sequences, FiniteSets, SequencesExt

CONSTANTS MaxText,       \* characters of a text
          MaxJsonDepth,  \* kMaxJsonDepth
          MaxEdits       \* set, push and remove calls

VARIABLES source,   \* the text handed in
          reading,  \* [ok, value], or NotRead
          edits

vars == <<source, reading, edits>>

Digits == {"0", "1"}
Value(t, s, items) == [t |-> t, s |-> s, items |-> items]
Null == Value("null", <<>>, <<>>)
Pair(key, value) == [key |-> key, value |-> value]

-----------------------------------------------------------------------------
(* Parser: a result is [ok, value, at], `at' the next position *)

Fail == [ok |-> FALSE, value |-> Null, at |-> 0]
Got(v, at) == [ok |-> TRUE, value |-> v, at |-> at]
Peek(t, i) == IF i <= Len(t) THEN t[i] ELSE "end"

RECURSIVE SkipWhitespace(_, _)
SkipWhitespace(t, i) == IF Peek(t, i) = " " THEN SkipWhitespace(t, i + 1) ELSE i

RECURSIVE SkipDigits(_, _)
SkipDigits(t, i) == IF Peek(t, i) \in Digits THEN SkipDigits(t, i + 1) ELSE i

\* The integer part, a fraction, an exponent; each returns the position after it, or 0.
IntegerPart(t, i) ==
    LET j == IF Peek(t, i) = "-" THEN i + 1 ELSE i IN
    CASE Peek(t, j) = "0" -> IF Peek(t, j + 1) \in Digits THEN 0 ELSE j + 1
      [] Peek(t, j) = "1" -> SkipDigits(t, j)
      [] OTHER -> 0
Fraction(t, i) ==
    IF i = 0 \/ Peek(t, i) # "." THEN i
    ELSE IF Peek(t, i + 1) \in Digits THEN SkipDigits(t, i + 1) ELSE 0
Exponent(t, i) ==
    IF i = 0 \/ Peek(t, i) # "e" THEN i
    ELSE LET j == IF Peek(t, i + 1) = "-" THEN i + 2 ELSE i + 1
         IN  IF Peek(t, j) \in Digits THEN SkipDigits(t, j) ELSE 0

\* The literal is kept verbatim.
ParseNumber(t, i) ==
    LET end == Exponent(t, Fraction(t, IntegerPart(t, i)))
    IN  IF end = 0 THEN Fail ELSE Got(Value("number", SubSeq(t, i, end - 1), <<>>), end)

\* From the character after the opening quote.
RECURSIVE ParseString(_, _, _)
ParseString(t, i, out) ==
    LET c == Peek(t, i)
        e == Peek(t, i + 1)
    IN  CASE c \in {"end", "ctl"} -> Fail
          [] c = "q" -> Got(Value("string", out, <<>>), i + 1)
          [] c = "b" /\ e \in {"q", "b", "n", "u"} ->
                ParseString(t, i + 2, Append(out, CASE e = "n" -> "ctl" [] e = "u" -> "a" [] OTHER -> e))
          [] c = "b" /\ e = "hi" ->
                \* A low surrogate must follow, escaped as well.
                IF Peek(t, i + 2) = "b" /\ Peek(t, i + 3) = "lo"
                THEN ParseString(t, i + 4, Append(out, "wide")) ELSE Fail
          [] c = "b" /\ e \notin {"q", "b", "n", "u", "hi"} -> Fail
          [] OTHER -> ParseString(t, i + 1, Append(out, c))

\* Last duplicate wins, in the place of the first (parseObject and Json::set).
Put(members, key, value) ==
    LET at == SelectInSeq(members, LAMBDA m : m.key = key)
    IN  IF at = 0 THEN Append(members, Pair(key, value))
        ELSE [members EXCEPT ![at].value = value]

\* What may follow a comma: anything but the closing bracket.
AfterComma(t, i, close) == Peek(t, SkipWhitespace(t, i)) # close

RECURSIVE ParseValue(_, _, _), Elements(_, _, _, _), Members(_, _, _, _)
ParseValue(t, i, depth) ==
    LET j == SkipWhitespace(t, i + 1) IN
    CASE depth > MaxJsonDepth -> Fail
      [] depth <= MaxJsonDepth /\ Peek(t, i) = "{" ->
            IF Peek(t, j) = "}" THEN Got(Value("object", <<>>, <<>>), j + 1)
            ELSE Members(t, j, depth, <<>>)
      [] depth <= MaxJsonDepth /\ Peek(t, i) = "[" ->
            IF Peek(t, j) = "]" THEN Got(Value("array", <<>>, <<>>), j + 1)
            ELSE Elements(t, j, depth, <<>>)
      [] depth <= MaxJsonDepth /\ Peek(t, i) = "q" -> ParseString(t, i + 1, <<>>)
      [] depth <= MaxJsonDepth /\ Peek(t, i) = "null" -> Got(Null, i + 1)
      [] OTHER -> ParseNumber(t, i)

\* parseArray's loop, at an element.
Elements(t, i, depth, acc) ==
    LET r == ParseValue(t, SkipWhitespace(t, i), depth + 1)
        j == SkipWhitespace(t, r.at)
        values == Append(acc, r.value)
    IN  CASE ~r.ok -> Fail
          [] r.ok /\ Peek(t, j) = "," ->
                IF AfterComma(t, j + 1, "]") THEN Elements(t, j + 1, depth, values)
                ELSE Fail
          [] r.ok /\ Peek(t, j) = "]" -> Got(Value("array", <<>>, values), j + 1)
          [] OTHER -> Fail

\* parseObject's loop, at a key.
Members(t, i, depth, acc) ==
    LET k == SkipWhitespace(t, i)
        key == IF Peek(t, k) = "q" THEN ParseString(t, k + 1, <<>>) ELSE Fail
        colon == SkipWhitespace(t, key.at)
        r == ParseValue(t, SkipWhitespace(t, colon + 1), depth + 1)
        j == SkipWhitespace(t, r.at)
        members == Put(acc, key.value.s, r.value)
    IN  CASE ~key.ok -> Fail
          [] key.ok /\ (Peek(t, colon) # ":" \/ ~r.ok) -> Fail
          [] key.ok /\ Peek(t, colon) = ":" /\ r.ok /\ Peek(t, j) = "," ->
                IF AfterComma(t, j + 1, "}") THEN Members(t, j + 1, depth, members)
                ELSE Fail
          [] key.ok /\ Peek(t, colon) = ":" /\ r.ok /\ Peek(t, j) = "}" ->
                Got(Value("object", <<>>, members), j + 1)
          [] OTHER -> Fail

\* parseJson: one value, and nothing but white space around it.
ParseJson(t) ==
    LET r == ParseValue(t, SkipWhitespace(t, 1), 0)
    IN  IF r.ok /\ SkipWhitespace(t, r.at) > Len(t) THEN [ok |-> TRUE, value |-> r.value]
        ELSE [ok |-> FALSE, value |-> Null]

-----------------------------------------------------------------------------
(* writeInto, not pretty *)

Escaped(c) == CASE c \in {"q", "b"} -> <<"b", c>> [] c = "ctl" -> <<"b", "n">> [] OTHER -> <<c>>
Quoted(s) == <<"q">> \o FlattenSeq([i \in DOMAIN s |-> Escaped(s[i])]) \o <<"q">>

Separated(parts) ==
    FlattenSeq([i \in DOMAIN parts |-> IF i = 1 THEN parts[i] ELSE <<",">> \o parts[i]])

RECURSIVE Write(_)
Write(v) ==
    CASE v.t = "null" -> <<"null">>
      [] v.t = "number" -> v.s
      [] v.t = "string" -> Quoted(v.s)
      [] v.t = "array" ->
            <<"[">> \o Separated([i \in DOMAIN v.items |-> Write(v.items[i])]) \o <<"]">>
      [] v.t = "object" ->
            <<"{">> \o Separated([i \in DOMAIN v.items |->
                          Quoted(v.items[i].key) \o <<":">> \o Write(v.items[i].value)])
            \o <<"}">>

-----------------------------------------------------------------------------
(* Reading, editing *)

Alphabets == {{"q", "b", "n", "a", "ctl"}, {"q", "b", "u", "hi", "lo"}, {"-", "0", "1", ".", "e"},
              {"[", "]", ",", "1", " ", "null"}, {"{", "}", ":", "q", ",", "1"}}
Member(k, x) == <<"q", k, "q", ":", x>>
Longer == {<<"{">> \o Member(k, "1") \o <<",">> \o Member(l, x) \o <<"}">> :
              k \in {"a", "n"}, l \in {"a", "n"}, x \in {"0", "null"}}
          \cup {<<"q", "b", "hi", "b", x, "q">> : x \in {"lo", "hi", "n"}}
          \cup {<<"[", "[", "[", "1", "]", "]", "]">>, <<"{", "q", "q", ":", "[", "{", "}", "]", "}">>}

NotRead == [ok |-> FALSE, value |-> Null, done |-> FALSE]

Init ==
    /\ source \in UNION {UNION {[1..n -> A] : n \in 1..MaxText} : A \in Alphabets} \cup Longer
    /\ reading = NotRead /\ edits = 0

Read ==
    /\ ~reading.done
    /\ LET r == ParseJson(source)
       IN  reading' = [ok |-> r.ok, value |-> r.value, done |-> TRUE]
    /\ UNCHANGED <<source, edits>>

Edit(v) ==
    /\ reading.ok /\ edits < MaxEdits /\ edits' = edits + 1
    /\ reading' = [reading EXCEPT !.value = v]
    /\ UNCHANGED source

Items(t) == IF reading.value.t = t THEN reading.value.items ELSE <<>>

\* A value of another type is replaced.
Set(key, v) == Edit(Value("object", <<>>, Put(Items("object"), key, v)))
Push(v) == Edit(Value("array", <<>>, Append(Items("array"), v)))
RemoveKey(key) ==
    LET at == SelectInSeq(Items("object"), LAMBDA m : m.key = key)
    IN  at # 0 /\ Edit(Value("object", <<>>, RemoveAt(Items("object"), at)))

Next ==
    \/ Read
    \/ \E key \in {<<"a">>, <<"q", "ctl">>}, v \in {Null, Value("string", <<"b">>, <<>>)} :
          Set(key, v) \/ Push(v) \/ RemoveKey(key)

Spec == Init /\ [][Next]_vars

-----------------------------------------------------------------------------
(* Reference definition: the grammar, by splitting the text in every way *)

Trim(t) == LET ink == {i \in DOMAIN t : t[i] # " "}
           IN  IF ink = {} THEN <<>>
               ELSE SubSeq(t, CHOOSE i \in ink : \A j \in ink : i <= j,
                              CHOOSE i \in ink : \A j \in ink : i >= j)
Upto(t, i) == SubSeq(t, 1, i)
From(t, i) == SubSeq(t, i, Len(t))

AreDigits(t) == t # <<>> /\ \A i \in DOMAIN t : t[i] \in Digits
IsNumber(t) ==
    \E i \in 0..Len(t), j \in 0..Len(t) :
        /\ i <= j
        /\ LET int == IF t # <<>> /\ t[1] = "-" THEN SubSeq(t, 2, i) ELSE Upto(t, i)
               frac == SubSeq(t, i + 1, j)
               exp == From(t, j + 1)
           IN  /\ AreDigits(int) /\ (Len(int) > 1 => int[1] # "0")
               /\ frac = <<>> \/ (frac[1] = "." /\ AreDigits(Tail(frac)))
               /\ \/ exp = <<>>
                  \/ exp[1] = "e" /\ (AreDigits(Tail(exp))
                                      \/ (Len(exp) > 1 /\ exp[2] = "-" /\ AreDigits(From(exp, 3))))

Units == {<<"a">>, <<"n">>, <<"u">>, <<"hi">>, <<"lo">>, <<"b", "q">>, <<"b", "b">>, <<"b", "n">>,
          <<"b", "u">>, <<"b", "hi", "b", "lo">>}
          \cup {<<c>> : c \in {"1", ":", ",", "{", "}", "[", "]", " ", "-", "0", ".", "e", "null"}}
RECURSIVE AreUnits(_)
AreUnits(t) == t = <<>> \/ \E n \in 1..4 : n <= Len(t) /\ Upto(t, n) \in Units /\ AreUnits(From(t, n + 1))
IsString(t) == Len(t) > 1 /\ Head(t) = "q" /\ Last(t) = "q" /\ AreUnits(SubSeq(t, 2, Len(t) - 1))

RECURSIVE IsValue(_, _), AreElements(_, _), AreMembers(_, _)
IsValue(t, deep) ==
    LET inner == Trim(SubSeq(t, 2, Len(t) - 1)) IN
    /\ deep <= MaxJsonDepth
    /\ \/ t = <<"null">> \/ IsNumber(t) \/ IsString(t)
       \/ Len(t) > 1 /\ Head(t) = "[" /\ Last(t) = "]" /\ (inner = <<>> \/ AreElements(inner, deep + 1))
       \/ Len(t) > 1 /\ Head(t) = "{" /\ Last(t) = "}" /\ (inner = <<>> \/ AreMembers(inner, deep + 1))
AreElements(t, deep) ==
    \/ IsValue(Trim(t), deep)
    \/ \E i \in DOMAIN t : t[i] = "," /\ IsValue(Trim(Upto(t, i - 1)), deep) /\ AreElements(From(t, i + 1), deep)
IsMember(t, deep) ==
    \E i \in DOMAIN t : t[i] = ":" /\ IsString(Trim(Upto(t, i - 1))) /\ IsValue(Trim(From(t, i + 1)), deep)
AreMembers(t, deep) ==
    \/ IsMember(t, deep)
    \/ \E i \in DOMAIN t : t[i] = "," /\ IsMember(Upto(t, i - 1), deep) /\ AreMembers(From(t, i + 1), deep)

Within(v) == {IF v.t = "object" THEN v.items[i].value ELSE v.items[i] : i \in DOMAIN v.items}
RECURSIVE UniqueNames(_)
UniqueNames(v) ==
    /\ v.t = "object" => Cardinality({v.items[i].key : i \in DOMAIN v.items}) = Len(v.items)
    /\ \A w \in Within(v) : UniqueNames(w)

RECURSIVE DepthOf(_)
DepthOf(v) == IF v.items = <<>> THEN 0
              ELSE LET deep == {DepthOf(w) : w \in Within(v)}
                   IN  1 + CHOOSE n \in deep : \A k \in deep : k <= n

-----------------------------------------------------------------------------
(* Properties *)

\* Strict: the reader accepts exactly the texts the grammar derives, up to the depth limit.
\* No trailing comma, leading zero, raw control character or unpaired surrogate.
AcceptsExactlyJson ==
    reading.done /\ edits = 0 => (reading.ok <=> IsValue(Trim(source), 0))

\* A value read, and edited with set, push and remove, is written as a text that reads as
\* the same value: parse, edit, serialize is stable.
WrittenReadsBack ==
    reading.ok /\ DepthOf(reading.value) <= MaxJsonDepth =>
        ParseJson(Write(reading.value)) = [ok |-> TRUE, value |-> reading.value]

\* An object never holds a name twice, so find(), which stops at the first, sees the value
\* that was read or set last.
NamesAreUnique == UniqueNames(reading.value)

=============================================================================
