--------------------------- MODULE ReceiptValues ---------------------------
(***************************************************************************)
(* What a model value becomes on paper: the symbol data of a barcode       *)
(* (dsl/src/barcode.cpp), and amounts, dates and formatter chains          *)
(* (dsl/src/format.cpp, substitute in dsl/src/bind.cpp).  Characters are   *)
(* their ASCII codes; an amount is an integer number of thousandths.       *)
(*                                                                         *)
(* SubsetB_Bare is a faulty variant, kept to show that the properties can  *)
(* fail.                                                                   *)
(***************************************************************************)
EXTENDS Integers, Sequences, FiniteSets, SequencesExt, TLC

CONSTANTS MaxData,       \* characters of a Code 128 text
          MaxDataBytes,  \* kMaxDataBytes: what GS k carries (255 in the code)
          Body,          \* digits of an EAN number before its check digit (12 and 7)
          Amounts,       \* thousandths, of either sign
          Years,
          MaxChain       \* formatters in one expression

VARIABLES given,  \* the value and what is asked of it
          text,   \* what it became
          todo,   \* formatters still to apply
          said    \* the report

vars == <<given, text, todo, said>>

-----------------------------------------------------------------------------
(* Barcodes *)

Brace == 123
SetB == 66
SetC == 67
IsDigit(c) == c \in 48..57
AllDigits(s) == s # <<>> /\ \A i \in DOMAIN s : IsDigit(s[i])

DigitRun(data, from) ==
    LET stop == SelectInSubSeq(data, from, Len(data), LAMBDA c : ~IsDigit(c))
    IN  (IF stop = 0 THEN Len(data) + 1 ELSE stop) - from

\* Where code set C pays: four digits at the tail, six in the middle, and an even count.
PairsFrom(data, i) ==
    LET run == DigitRun(data, i)
    IN  [run |-> run, pays |-> run >= 6 \/ (i + run > Len(data) /\ run >= 4),
         even |-> run % 2 = 0]

StartsInC(data) ==
    LET lead == DigitRun(data, 1)
    IN  lead % 2 = 0 /\ (lead >= 4 \/ (Len(data) = 2 /\ lead = 2))

\* A literal brace is doubled.
SubsetB_Bare(c) == <<c>>
SubsetB(c) == IF c = Brace THEN <<Brace, Brace>> ELSE <<c>>

RECURSIVE Code128(_, _, _)
Code128(data, i, inC) ==
    LET p == PairsFrom(data, i) IN
    CASE i > Len(data) -> <<>>
      [] i <= Len(data) /\ inC /\ p.run >= 2 ->
            <<(data[i] - 48) * 10 + (data[i + 1] - 48)>> \o Code128(data, i + 2, TRUE)
      [] i <= Len(data) /\ inC /\ p.run < 2 -> <<Brace, SetB>> \o Code128(data, i, FALSE)
      [] i <= Len(data) /\ ~inC /\ p.pays /\ p.even ->
            <<Brace, SetC>> \o Code128(data, i, TRUE)
      [] OTHER -> SubsetB(data[i]) \o Code128(data, i + 1, FALSE)

Refused == [ok |-> FALSE, data |-> <<>>]
EncodeCode128(data) ==
    LET inC == StartsInC(data)
        bytes == <<Brace, IF inC THEN SetC ELSE SetB>> \o Code128(data, 1, inC)
    IN  IF \/ data = <<>>
           \/ \E i \in DOMAIN data : data[i] \notin 32..126
           \/ Len(bytes) > MaxDataBytes
        THEN Refused ELSE [ok |-> TRUE, data |-> bytes]

\* Counting leftwards from the check position, the digit next to it weighs 3.
EanCheckDigit(digits) ==
    LET n == Len(digits)
        sum == FoldLeftDomain(LAMBDA a, i : a + (digits[i] - 48) * (IF (n - i) % 2 = 0 THEN 3 ELSE 1),
                              0, digits)
    IN  (10 - (sum % 10)) % 10

EncodeEan(digits) ==
    LET check(s) == 48 + EanCheckDigit(s) IN
    CASE ~AllDigits(digits) -> Refused
      [] AllDigits(digits) /\ Len(digits) = Body ->
            [ok |-> TRUE, data |-> Append(digits, check(digits))]
      [] AllDigits(digits) /\ Len(digits) = Body + 1 /\ Last(digits) = check(Front(digits)) ->
            [ok |-> TRUE, data |-> digits]
      [] OTHER -> Refused

-----------------------------------------------------------------------------
(* Amounts *)

Tens(n) == 10 ^ n
Abs(n) == IF n < 0 THEN -n ELSE n

RECURSIVE DigitsOf(_)
DigitsOf(n) == IF n < 10 THEN <<n>> ELSE Append(DigitsOf(n \div 10), n % 10)

Leading(digits, n) ==
    IF Len(digits) >= n THEN digits ELSE [i \in 1..(n - Len(digits)) |-> 0] \o digits

\* Half away from zero.  The value is v thousandths, decimals at most 3.
Scaled(v, decimals) == (2 * Abs(v) + Tens(3 - decimals)) \div (2 * Tens(3 - decimals))

\* Digits from the left, with a separator (-1) wherever a multiple of three is left.
Grouped(digits) ==
    FoldLeftDomain(LAMBDA acc, i :
                       acc \o (IF i # 1 /\ (Len(digits) - i + 1) % 3 = 0 THEN <<-1>> ELSE <<>>)
                           \o <<digits[i]>>,
                   <<>>, digits)

FormatNumber(v, decimals) ==
    LET digits == Leading(DigitsOf(Scaled(v, decimals)), decimals + 1)
        split == Len(digits) - decimals
    IN  [minus |-> v < 0 /\ \E i \in DOMAIN digits : digits[i] # 0,
         integral |-> Grouped(SubSeq(digits, 1, split)),
         fraction |-> SubSeq(digits, split + 1, Len(digits))]

-----------------------------------------------------------------------------
(* Dates *)

Quotient(a, b) == IF a < 0 THEN -((-a) \div b) ELSE a \div b  \* C's division

DaysFromCivil(year, month, day) ==
    LET y == year - (IF month <= 2 THEN 1 ELSE 0)
        era == Quotient(IF y >= 0 THEN y ELSE y - 399, 400)
        yoe == y - era * 400
        doy == (153 * (month + (IF month > 2 THEN -3 ELSE 9)) + 2) \div 5 + day - 1
    IN  era * 146097 + (yoe * 365 + yoe \div 4 - yoe \div 100 + doy) - 719468

CivilFromDays(n) ==
    LET days == n + 719468
        era == Quotient(IF days >= 0 THEN days ELSE days - 146096, 146097)
        doe == days - era * 146097
        yoe == (doe - doe \div 1460 + doe \div 36524 - doe \div 146096) \div 365
        doy == doe - (365 * yoe + yoe \div 4 - yoe \div 100)
        mp == (5 * doy + 2) \div 153
        m == IF mp < 10 THEN mp + 3 ELSE mp - 9
    IN  [year |-> yoe + era * 400 + (IF m <= 2 THEN 1 ELSE 0), month |-> m,
         day |-> doy - (153 * mp + 2) \div 5 + 1]

Weekday(d) ==
    LET n == DaysFromCivil(d.year, d.month, d.day) + 4
    IN  n - 7 * Quotient(n, 7) + (IF n < 0 /\ n # 7 * Quotient(n, 7) THEN 7 ELSE 0)

\* shiftToOffset; a value with no offset is taken to be in UTC.
Delta(d, target) == target - d.offset

ShiftToOffset(d, target) ==
    LET minutes == d.minute + Delta(d, target)
        shift == IF minutes < 0 THEN -((1439 - minutes) \div 1440) ELSE minutes \div 1440
        date == IF shift = 0 THEN [year |-> d.year, month |-> d.month, day |-> d.day]
                ELSE CivilFromDays(DaysFromCivil(d.year, d.month, d.day) + shift)
    IN  date @@ [minute |-> minutes - 1440 * shift, offset |-> target]

-----------------------------------------------------------------------------
(* Formatter chains *)

\* A formatter and whether its argument is usable: trunc:x and number:x are not, pad:8:up
\* names no side, money:XXX no currency; a date needs a zone with a fixed offset.
Formatters == [name : {"upper", "trunc", "pad", "number", "money", "date", "acme.x", "typo"},
               good : BOOLEAN]

\* applyFormatter: the kinds the result can read as, none when the text is left as it was;
\* and whether the outcome is not ok.  Bad sides, currencies and zones still format.
Declined(f, kind, registered) ==
    \/ f.name = "typo" \/ (f.name = "acme.x" /\ ~registered)
    \/ f.name \in {"trunc", "number"} /\ ~f.good
    \/ f.name \in {"number", "money"} /\ kind \notin {"number", "numeric"}
    \/ f.name = "date" /\ kind # "iso"
ReadsAs(f, kind) ==
    CASE f.name \in {"upper", "pad"} -> {IF kind = "number" THEN "numeric" ELSE kind}
      [] f.name \in {"number", "date", "trunc"} -> {"numeric", "words"}
      [] OTHER -> {"words"}

\* Anything short of what was asked is reported.
Reported(f, declined) == declined \/ (~f.good /\ f.name \in {"pad", "money", "date"})

Stage ==
    /\ todo # <<>> /\ todo' = Tail(todo)
    /\ LET f == Head(todo) IN
       \E registered \in BOOLEAN :
          LET declined == Declined(f, text.kind, registered) IN
          /\ \E kind \in IF declined THEN {IF text.kind = "number" THEN "numeric" ELSE text.kind}
                         ELSE ReadsAs(f, text.kind) :
                text' = [kind |-> kind,
                         applied |-> IF declined THEN text.applied ELSE Append(text.applied, f)]
          /\ said' = IF Reported(f, declined) THEN Append(said, f) ELSE said
    /\ UNCHANGED given

-----------------------------------------------------------------------------
(* The values *)

Characters == {49, 50, 97, Brace}
Nothing == [kind |-> "none"]
Asked(what, value) == [what |-> what, value |-> value]
Offsets == {-720, 0, 345, 1439}
Dates == [year : Years, month : {1, 2, 3, 12}, day : {1, 28, 29, 30, 31},
          minute : {0, 30, 1439}, offset : Offsets]
Chains == UNION {[1..n -> Formatters] : n \in 1..MaxChain}

Init ==
    /\ \/ given \in {Asked("code128", d) : d \in UNION {[1..n -> Characters] : n \in 0..MaxData}}
          /\ todo = <<>> /\ text = Nothing
       \/ given = Asked("code128", <<97, 200>>) /\ todo = <<>> /\ text = Nothing
       \/ given \in {Asked("ean", d) : d \in UNION {[1..n -> 48..57] : n \in 1..(Body + 1)}
                                             \cup {<<97, 48>>, <<>>}}
          /\ todo = <<>> /\ text = Nothing
       \/ given \in {Asked("number", <<v, d>>) : v \in Amounts \cup {-a : a \in Amounts}, d \in 0..3}
          /\ todo = <<>> /\ text = Nothing
       \/ given \in {Asked("date", <<d, o>>) : d \in Dates, o \in Offsets}
          /\ todo = <<>> /\ text = Nothing
       \/ \E kind \in {"number", "numeric", "iso", "words"}, chain \in Chains :
             /\ given = Asked("chain", chain) /\ todo = chain
             /\ text = [kind |-> kind, applied |-> <<>>]
    /\ said = <<>>

Encode ==
    /\ given.what \in {"code128", "ean"} /\ text = Nothing
    /\ LET e == IF given.what = "ean" THEN EncodeEan(given.value) ELSE EncodeCode128(given.value)
       IN  text' = [kind |-> "symbol", ok |-> e.ok, data |-> e.data]
    /\ UNCHANGED <<given, todo, said>>

Number ==
    /\ given.what = "number" /\ text = Nothing
    /\ text' = [kind |-> "amount", number |-> FormatNumber(given.value[1], given.value[2])]
    /\ UNCHANGED <<given, todo, said>>

Date ==
    /\ given.what = "date" /\ text = Nothing
    /\ text' = [kind |-> "moment", date |-> ShiftToOffset(given.value[1], given.value[2])]
    /\ UNCHANGED <<given, todo, said>>

Next == Encode \/ Number \/ Date \/ Stage
Spec == Init /\ [][Next]_vars

-----------------------------------------------------------------------------
(* Reference definitions *)

\* How a printer reads Code 128 data: an open brace introduces a code set or itself.
RECURSIVE Scan(_, _)
Scan(bytes, inC) ==
    CASE bytes = <<>> -> <<>>
      [] bytes # <<>> /\ Head(bytes) = Brace ->
            IF Len(bytes) = 1 THEN <<>>
            ELSE IF bytes[2] = Brace THEN <<Brace>> \o Scan(SubSeq(bytes, 3, Len(bytes)), inC)
            ELSE Scan(SubSeq(bytes, 3, Len(bytes)), bytes[2] = SetC)
      [] bytes # <<>> /\ Head(bytes) # Brace /\ inC ->
            <<48 + (Head(bytes) \div 10), 48 + (Head(bytes) % 10)>> \o Scan(Tail(bytes), TRUE)
      [] OTHER -> <<Head(bytes)>> \o Scan(Tail(bytes), FALSE)

Leap(y) == y % 4 = 0 /\ (y % 100 # 0 \/ y % 400 = 0)
MonthLength(y, m) == CASE m = 2 -> IF Leap(y) THEN 29 ELSE 28
                       [] m \in {4, 6, 9, 11} -> 30 [] OTHER -> 31
DayNumber(d) ==
    d.day + FoldLeftDomain(LAMBDA a, m : a + MonthLength(d.year, m), 0, [m \in 1..(d.month - 1) |-> m])
    + 365 * d.year + (d.year + 3) \div 4 - (d.year + 99) \div 100 + (d.year + 399) \div 400
Instant(d) == 1440 * (DayNumber(d) - 700000) + d.minute - d.offset
Exists(d) == d.day <= MonthLength(d.year, d.month)

ValueOf(digits) == FoldLeft(LAMBDA a, c : 10 * a + c, 0, SelectSeq(digits, LAMBDA c : c >= 0))

-----------------------------------------------------------------------------
(* Properties *)

\* A symbol scans as the text it was asked for, whatever code sets encodeCode128 chose on
\* the way; an EAN symbol is the number asked for, and a number that differs from an
\* accepted one in a single digit is refused (encodeEan).
ScansAsAsked ==
    text.kind = "symbol" /\ text.ok =>
        IF given.what = "code128"
        THEN Len(text.data) <= MaxDataBytes /\ Scan(text.data, FALSE) = given.value
        ELSE /\ SubSeq(text.data, 1, Body) = SubSeq(given.value, 1, Body)
             /\ \A i \in DOMAIN text.data, c \in 48..57 :
                   c # text.data[i] => ~EncodeEan([text.data EXCEPT ![i] = c]).ok

\* A printed amount reads back as the value rounded half away from zero, carries a minus
\* only when it is not zero, and its groups of digits are three long (formatNumber).
ReadsBackRounded ==
    text.kind = "amount" =>
        LET n == text.number
            v == given.value[1]
            unit == Tens(3 - given.value[2])
            printed == unit * (ValueOf(n.integral) * Tens(given.value[2]) + ValueOf(n.fraction))
            short == Abs(v) - printed
        IN  /\ 2 * short < unit /\ 2 * short >= -unit
            /\ n.minus <=> (v < 0 /\ printed # 0)
            /\ \A i \in DOMAIN n.integral : n.integral[i] = -1 <=>
                  i > 1 /\ i < Len(n.integral) /\ (Len(n.integral) - i) % 4 = 3

\* Moving a date to another fixed offset (shiftToOffset) names the same instant, on a day
\* that exists, and weekday() agrees with the calendar.  Over month and year ends, leap
\* days and year 0.
SameInstant ==
    text.kind = "moment" /\ Exists(given.value[1]) /\ text.date.year >= 0 =>
        /\ Exists(text.date) /\ text.date.minute \in 0..1439
        /\ Instant(text.date) = Instant(given.value[1])
        /\ Weekday(text.date) = (DayNumber(text.date) + 5) % 7

\* Every formatter of an expression either did exactly what was asked or is in the report,
\* and one that could not left the text as it was (applyFormatter, substitute).
AppliedOrReported ==
    given.what = "chain" /\ todo = <<>> =>
        \A i \in DOMAIN given.value :
            LET f == given.value[i] IN
            Contains(said, f) \/ (Contains(text.applied, f) /\ (f.good \/ f.name \in {"upper", "acme.x"}))

=============================================================================
