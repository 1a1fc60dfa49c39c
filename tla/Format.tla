------------------------------- MODULE Format -------------------------------
(***************************************************************************)
(* printf() formatting (lib/stdio.c).  Characters are one-letter strings.  *)
(* The output of a conversion is the sequence of characters handed to      *)
(* output().  A conversion is written by the caller as flags, a field      *)
(* width and a precision, of which a `*' takes its value from the next     *)
(* argument.  Value is what the last argument's register holds.            *)
(***************************************************************************)
EXTENDS Integers, Sequences, SequencesExt, FiniteSetsExt

CONSTANTS
    Bits,        \* number of bits of each type of integer
    Value,       \* registers: natural numbers below 2^Bits["j"]
    BUFSIZE,     \* sizeof buf in format_integer()
    FlagSets, Widths, Precisions  \* what the callers write

VARIABLE spec    \* a conversion as written: flags, width, precision

Digits10 == <<"0", "1", "2", "3", "4", "5", "6", "7", "8", "9">>
LowerDigits == Digits10 \o <<"a", "b", "c", "d", "e", "f">>
UpperDigits == Digits10 \o <<"A", "B", "C", "D", "E", "F">>
Flag == {"-", "+", " ", "#", "0", "'"}
Type == {"", "hh", "h", "j", "l", "ll", "t", "z"}

base_d == [base |-> 10, digits |-> Digits10, x |-> "", group |-> 3]
base_o == [base |-> 8, digits |-> Digits10, x |-> "", group |-> 3]
base_x == [base |-> 16, digits |-> LowerDigits, x |-> "x", group |-> 4]
base_X == [base |-> 16, digits |-> UpperDigits, x |-> "X", group |-> 4]

DigitValue(ch) == (CHOOSE i \in DOMAIN LowerDigits : ch \in {LowerDigits[i], UpperDigits[i]}) - 1

Rep(ch, cnt) == [i \in 1 .. IF cnt < 0 THEN 0 ELSE cnt |-> ch]   \* output_dup()

Number(text) == FoldLeft(LAMBDA n, ch : (n * 10) + DigitValue(ch), 0, text)

\* The number at the beginning of a field, or the argument of its star.
Field(text, star) == IF text = <<"*">> THEN star ELSE Number(text)

\* parse_conversion(), of the flags, the width and the precision in s.
parse_conversion(s) ==
    LET set == (s.flags \ (IF "-" \in s.flags THEN {"0"} ELSE {}))
                        \ (IF "+" \in s.flags THEN {" "} ELSE {})
        width == Field(s.width, Head(s.stars \o <<0>>))
        given == Field(Tail(s.precision), Last(<<0>> \o s.stars))
        precision == IF s.precision = <<>> \/ given < 0 THEN -1 ELSE given
    IN  [flags |-> (set \cup (IF width < 0 THEN {"-"} ELSE {}))
                        \ (IF precision >= 0 THEN {"0"} ELSE {}),
         width |-> IF width < 0 THEN -width ELSE width,
         precision |-> precision]

\* The digits of a value, last first, with a comma before each further group.
RECURSIVE Accumulate(_, _, _, _)
Accumulate(value, b, group, digit_cnt) ==
    IF value = 0 THEN <<>>
    ELSE (IF group /\ digit_cnt > 0 /\ digit_cnt % b.group = 0 THEN <<",">> ELSE <<>>)
             \o <<b.digits[(value % b.base) + 1]>> \o Accumulate(value \div b.base, b, group, digit_cnt + 1)

SignOf_AnyType(is_signed, negative, c) ==
    IF negative THEN <<"-">> ELSE IF "+" \in c.flags THEN <<"+">> ELSE <<>>

SignOf(is_signed, negative, c) ==
    IF ~is_signed THEN <<>>
    ELSE IF negative THEN <<"-">>
    ELSE IF "+" \in c.flags THEN <<"+">>
    ELSE IF " " \in c.flags THEN <<" ">>
    ELSE <<>>

\* The buffer of format_integer(), as it is output.
DigitsOf(value, b, c) ==
    LET buf == Accumulate(value, b, "'" \in c.flags, 0)
        precision == IF c.precision < 0 THEN 1 ELSE c.precision
        padded == buf \o Rep("0", Min({precision, BUFSIZE - 1}) - Len(buf))
    IN  Reverse(IF "#" \in c.flags /\ b.base = 8 /\ Last(<<"">> \o padded) # "0"
                THEN Append(padded, "0") ELSE padded)

format_integer(value, is_signed, negative, b, c) ==
    LET x == IF "#" \in c.flags /\ value # 0 /\ b.x # "" THEN <<"0", b.x>> ELSE <<>>
        front == SignOf(is_signed, negative, c) \o x
        digits == DigitsOf(value, b, c)
        pad_cnt == c.width - Len(digits) - Len(front)
    IN  (IF c.flags \cap {"-", "0"} = {} THEN Rep(" ", pad_cnt) ELSE <<>>)
            \o front \o (IF "0" \in c.flags THEN Rep("0", pad_cnt) ELSE <<>>)
            \o digits \o (IF "-" \in c.flags THEN Rep(" ", pad_cnt) ELSE <<>>)

format_string(string, c) ==
    LET pad == Rep(" ", c.width - Len(string))
    IN  IF "-" \in c.flags THEN string \o pad ELSE pad \o string

\* va_arg() and the conversion to the type of the length modifier.
Unsigned(reg, type) == reg % 2^Bits[type]
Signed(reg, type) ==
    LET u == Unsigned(reg, type) IN IF 2 * u >= 2^Bits[type] THEN u - 2^Bits[type] ELSE u

\* One conversion of __vprintf(): the output for a register or a string.
vprintf_signed(c, type, reg) ==
    LET value == Signed(reg, type)
    IN  format_integer(IF value < 0 THEN -value ELSE value, TRUE, value < 0, base_d, c)

vprintf_unsigned(c, type, conv, reg) ==
    LET b == CASE conv = "o" -> base_o [] conv = "u" -> base_d [] conv = "x" -> base_x [] conv = "X" -> base_X
    IN  format_integer(Unsigned(reg, type), FALSE, FALSE, b, c)

vprintf_pointer(c, reg) == format_integer(reg, FALSE, FALSE, base_x, [c EXCEPT !.flags = {"#"}])

vprintf_string(c, s) ==
    LET string == IF s = <<>> THEN <<"(", "n", "u", "l", "l", ")">> ELSE s[1]   \* s: <<>> is NULL
        length == IF c.precision < 0 THEN Len(string) ELSE Min({c.precision, Len(string)})  \* strnlen()
    IN  format_string(SubSeq(string, 1, length), c)

\* vsnprintf(): what output leaves in the buffer, with its null terminator,
\* and the return value.
vsnprintf(output, buf_size) ==
    LET max_length == IF buf_size > 0 THEN buf_size - 1 ELSE 0
        helper(aux, ch) == [text |-> IF aux.length < max_length THEN Append(aux.text, ch) ELSE aux.text,
                            length |-> aux.length + 1]
        aux == FoldLeft(helper, [text |-> <<>>, length |-> 0], output)
    IN  [buffer |-> IF buf_size > 0 THEN Append(aux.text, "NUL") ELSE <<>>, length |-> aux.length]

\* atoi() of stdlib.c; the value is accumulated as a negative number, in an int.
atoi(text) ==
    LET Skip(s, S) == SelectInSeq(s \o <<"NUL">>, LAMBDA ch : ch \notin S)
        word == SubSeq(text, Skip(text, {" "}), Len(text))
        number == IF word # <<>> /\ word[1] \in {"+", "-"} THEN Tail(word) ELSE word
        digits == SubSeq(number, 1, Skip(number, ToSet(Digits10)) - 1)
        value == FoldLeft(LAMBDA n, ch : Signed((n * 10) - DigitValue(ch), ""), 0, digits)
    IN  IF word # <<>> /\ word[1] = "-" THEN value ELSE Signed(-value, "")

----------------------------------------------------------------------------
(* What formatting should do. *)

FormatInit == spec = <<>>

\* A caller writes flags, a width and a precision.
FormatNext ==
    spec = <<>> /\ \E flags \in FlagSets, width \in Widths, precision \in Precisions :
        spec' = [flags |-> flags, width |-> width.text, precision |-> precision.text,
                 stars |-> width.stars \o precision.stars]

\* The number that a text shows in a base, whatever its commas.
Shown(text, base) ==
    FoldLeft(LAMBDA n, ch : (n * base) + DigitValue(ch), 0, SelectSeq(text, LAMBDA ch : ch # ","))

DigitCnt(value, base) == Cardinality({k \in 0 .. 6 : base^k =< value})

\* The conversion asks for flags, width and precision as written in s.
LeftAligned(s) == "-" \in s.flags \/ (s.width = <<"*">> /\ s.stars[1] < 0)
FieldWidth(s) == LET w == Field(s.width, Head(s.stars \o <<0>>)) IN IF w < 0 THEN -w ELSE w
AskedDigits(s) == IF s.precision = <<>> THEN -1 ELSE Field(Tail(s.precision), Last(<<0>> \o s.stars))
ZeroFilled(s) == "0" \in s.flags /\ ~LeftAligned(s) /\ AskedDigits(s) < 0

\* One conversion of an integer: out is its output, bare the output without a
\* field width, which reads back as the value with the right sign and, as long as
\* they fit into buf, as many digits as the precision asks; out is bare, filled up to the width on one side.
IntegerExact(s, out, bare, value, is_signed, b) ==
    LET sign == IF ~is_signed THEN <<>>
                ELSE IF value < 0 THEN <<"-">>
                ELSE IF "+" \in s.flags THEN <<"+">>
                ELSE IF " " \in s.flags THEN <<" ">> ELSE <<>>
        front == sign \o (IF "#" \in s.flags /\ b.base = 16 /\ value # 0 THEN <<"0", b.x>> ELSE <<>>)
        digits == SubSeq(bare, Len(front) + 1, Len(bare))
        natural == DigitCnt(IF value < 0 THEN -value ELSE value, b.base)
        fill == FieldWidth(s) - Len(bare)
    IN  /\ IsPrefix(front, bare)
        /\ ToSet(digits) \subseteq ToSet(LowerDigits) \cup ToSet(UpperDigits) \cup {","}
        /\ Shown(digits, b.base) = IF value < 0 THEN -value ELSE value
        /\ "'" \notin s.flags /\ ~("#" \in s.flags /\ b.base = 8) /\ AskedDigits(s) < BUFSIZE =>
               Len(digits) = Max({natural, IF AskedDigits(s) < 0 THEN 1 ELSE AskedDigits(s)})
        /\ "#" \in s.flags /\ b.base = 8 => digits[1] = "0"
        /\ out = IF LeftAligned(s) THEN bare \o Rep(" ", fill)
                 ELSE IF ZeroFilled(s) THEN front \o Rep("0", fill) \o digits
                 ELSE Rep(" ", fill) \o bare

\* An integer gets its sign, its prefix, its digits and its filling as the comments
\* of format_integer() say, for every combination of flags, width, precision and
\* type and every value, the most negative included; atoi() reads it back if it
\* fits into an int; strings are cut to the precision, and vsnprintf() to the
\* buffer (stdio.c:25-50, 316-545, stdlib.c:7-41).  Not claimed are the digits of a
\* precision of BUFSIZE or more, at which format_integer() stops, and anything for
\* a zero flag with a negative `*' width: parse_conversion() lets the one cancel
\* the other before it reads the width, and both fillings are output.
FormatExact ==
    LET c == parse_conversion(spec)
        bare == [c EXCEPT !.width = 0]
    IN  spec # <<>> /\ ~("0" \in spec.flags /\ "-" \notin spec.flags /\ LeftAligned(spec) /\ AskedDigits(spec) < 0) =>
        \A reg \in Value :
            /\ \A type \in Type :
                  LET out == vprintf_signed(c, type, reg)
                  IN  /\ IntegerExact(spec, out, vprintf_signed(bare, type, reg), Signed(reg, type), TRUE, base_d)
                      /\ "'" \notin spec.flags /\ Signed(reg, type) = Signed(reg, "") => atoi(out) = Signed(reg, type)
            /\ \A conv \in {"o", "u", "x", "X"} :
                  LET b == CASE conv = "o" -> base_o [] conv = "u" -> base_d [] conv = "x" -> base_x [] OTHER -> base_X
                      type == "h"
                  IN  IntegerExact(spec, vprintf_unsigned(c, type, conv, reg), vprintf_unsigned(bare, type, conv, reg),
                                   Unsigned(reg, type), FALSE, b)
            /\ LET string == <<"a", "b", "c", "d">>
                   length == IF AskedDigits(spec) < 0 THEN 4 ELSE Min({4, AskedDigits(spec)})
                   shown == SubSeq(string, 1, length)
                   fill == Rep(" ", FieldWidth(spec) - length)
               IN  vprintf_string(c, <<string>>) = IF LeftAligned(spec) THEN shown \o fill ELSE fill \o shown
            /\ \A n \in 0 .. 6 :
                  LET out == vprintf_pointer(c, reg)
                      r == vsnprintf(out, n)
                  IN  r.length = Len(out) /\ (n > 0 => r.buffer = Append(SubSeq(out, 1, Min({n - 1, Len(out)})), "NUL"))

----------------------------------------------------------------------------

\* "Append enough zeros to match precision." (stdio.c:479).
PrecisionMatched ==
    spec # <<>> => \A reg \in Value :
        Len(DigitsOf(reg, base_d, parse_conversion(spec))) >= AskedDigits(spec)

=============================================================================
