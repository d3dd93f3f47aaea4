-------------------------------- MODULE Money --------------------------------
(***************************************************************************)
(* How a text becomes the amount of an invoice: parse_money of             *)
(* app/adapters/parsers.py, and what schema_driven.py, canonical.py and    *)
(* normalizer.py make of its result. Here, and here only, a text is the    *)
(* sequence of its characters, since signs and separators are what can go  *)
(* wrong; a currency code is one symbol for its three letters.             *)
(*                                                                         *)
(* Bounded: the characters (Chars) and the length (MaxLength) of the texts.*)
(***************************************************************************)
EXTENDS Integers, SequencesExt

CONSTANTS Chars, MaxLength

DIGITS == <<"0", "1", "2", "3", "4", "5", "6", "7", "8", "9">>
Digit == ToSet(DIGITS)
Code == {"EUR", "USD", "GBP"}
Separator == {".", ","}
SYMBOLS == [dollar |-> "USD", euro |-> "EUR", pound |-> "GBP"]
Character == Digit \cup Code \cup Separator \cup DOMAIN SYMBOLS \cup {"-", " "}

ASSUME MoneyAssumption ==
    /\ Chars \subseteq Character
    /\ MaxLength \in Nat

VARIABLE text   \* the string at the path of the amount

-----------------------------------------------------------------------------
DigitValue == [d \in Digit |-> CHOOSE n \in 0..9 : DIGITS[n + 1] = d]

NumberOf(digits) == FoldLeft(LAMBDA n, d : 10 * n + DigitValue[d], 0, digits)

AllDigits(s) == s # <<>> /\ ToSet(s) \subseteq Digit

\* What int() accepts of digits and dashes, and what it makes of it.
IsNumeral(s) == AllDigits(s) \/ (s # <<>> /\ Head(s) = "-" /\ AllDigits(Tail(s)))
IntOf(s) == IF Head(s) = "-" THEN -NumberOf(Tail(s)) ELSE NumberOf(s)

\* The characters of a text that are among these.
Only(s, chars) == FoldLeft(LAMBDA t, c : IF c \in chars THEN Append(t, c) ELSE t, <<>>, s)

Without(s, chars) == Only(s, Character \ chars)

\* The codes that are words of their own: next to no digit and no letter.
CodeWords(s) ==
    {i \in DOMAIN s :
        s[i] \in Code /\ \A j \in {i - 1, i + 1} \cap DOMAIN s : s[j] \notin Digit \cup Code}

\* The first of them; else what the symbol at the front stands for.
Currency(s) ==
    LET front == Without(s, {" "}) IN
    IF CodeWords(s) # {} THEN s[Min(CodeWords(s))]
    ELSE IF front # <<>> /\ Head(front) \in DOMAIN SYMBOLS THEN SYMBOLS[Head(front)]
    ELSE "USD"

\* A bug to be caught: the dash is dropped with everything else.
Kept_WithoutDash(s) == Only(s, Digit \cup Separator)

\* re.sub(r"[^0-9.,\-]", "", s)
Kept(s) == Only(s, Digit \cup Separator \cup {"-"})

\* A bug to be caught: the first separator is the decimal one.
DecimalPos_First(s) ==
    LET at == {i \in DOMAIN s : s[i] \in Separator} IN IF at = {} THEN 0 ELSE Min(at)

DecimalPos(s) ==
    LET at == {i \in DOMAIN s : s[i] \in Separator} IN IF at = {} THEN 0 ELSE Max(at)

\* int() of each numeral among these texts; of the others it raises.
Ints(texts) == {IntOf(s) : s \in {t \in texts : IsNumeral(t)}}

\* What stands behind the last separator.
Fraction(s) == SubSeq(s, DecimalPos(s) + 1, Len(s))

Majors(s) ==
    LET integer == Without(SubSeq(s, 1, DecimalPos(s) - 1), Separator) IN
    IF integer = <<>> THEN {0} ELSE Ints({integer})

Minors(s) ==
    Ints({IF Len(Fraction(s)) = 1 THEN Append(Fraction(s), "0") ELSE Fraction(s)})

\* The minor units, or nothing where int() or parse_money raises. One or two
\* characters after the last separator are the fraction, any other number means
\* that the separator is one of thousands.
AmountMinor(s) ==
    IF DecimalPos(s) = 0 THEN {100 * n : n \in Ints({s})}
    ELSE IF Len(Fraction(s)) \in {1, 2} THEN {100 * n + k : n \in Majors(s), k \in Minors(s)}
    ELSE {100 * n : n \in Ints({t \in {Without(s, Separator)} : AllDigits(t)})}

parse_money(s) ==
    {[currency |-> Currency(s), amount_minor |-> n] : n \in AmountMinor(Kept(s))}

\* _extract_amount: what parse_money raises on and what Money refuses is no amount.
ExtractAmount(s) == {m \in parse_money(s) : m.amount_minor >= 0}

\* _normalize_money, and what is stored.
StoredAmount(s) == {[m EXCEPT !.amount_minor = Max({0, @})] : m \in ExtractAmount(s)}

-----------------------------------------------------------------------------
(* Any text, character by character. *)
Init == text = <<>>

Next == /\ Len(text) < MaxLength
        /\ \E c \in Chars : text' = Append(text, c)

Spec == Init /\ [][Next]_text

-----------------------------------------------------------------------------
DigitsOf(s) == Only(s, Digit)

\* How many of the digits are behind the last separator, if that is one or two.
Places(s) ==
    LET behind == {i \in DOMAIN s : s[i] \in Digit
                                    /\ \A j \in i..Len(s) : s[j] \notin Separator} IN
    IF Cardinality(behind) \in {1, 2} /\ ToSet(s) \cap Separator # {} THEN Cardinality(behind) ELSE 0

\* Whatever separators a vendor groups with, an amount without a dash is the
\* number its digits form, moved by the digits behind the last separator; there
\* is none only if there is no digit (parse_money, which takes thousands, both
\* notations and missing cents apart by cases).
ReadsItsDigits ==
    "-" \notin ToSet(text) =>
        {m.amount_minor : m \in StoredAmount(text)} =
            IF DigitsOf(text) = <<>> THEN {}
            ELSE {NumberOf(DigitsOf(text)) * CASE Places(text) = 0 -> 100
                                               [] Places(text) = 1 -> 10
                                               [] Places(text) = 2 -> 1}

\* An amount below zero is never stored as one above: a text that leads with a
\* dash is no amount, unless nothing stands before its decimal separator but
\* zeros, whose sign int() loses.
DebitRefused ==
    LET amount == Without(text, Code \cup DOMAIN SYMBOLS \cup {" "}) IN
    /\ amount # <<>> /\ Head(amount) = "-"
    /\ NumberOf(DigitsOf(SubSeq(amount, 1, Len(amount) - Places(amount)))) # 0
    => StoredAmount(text) = {}

=============================================================================
