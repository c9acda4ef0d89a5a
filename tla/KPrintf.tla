------------------------------ MODULE KPrintf ------------------------------
(***************************************************************************)
(* kvprintf (KernelBase/src/kprintf.c): a format string in memory, its     *)
(* arguments on the stack, and the characters given to the stream.         *)
(*                                                                         *)
(* A character is a one-character string, "NUL" the terminator.  A slot of *)
(* the stack is as wide as an int, a long, a size_t and a pointer; a long  *)
(* long and an intmax_t take two, the low one first.  Built as it is, with *)
(* neither floating point nor wide characters.                             *)
(***************************************************************************)
EXTENDS Integers, Sequences

CONSTANTS
    CharBits,       \* bits of a char,
    ShortBits,      \* a short,
    IntBits,        \* and an int or a pointer
    IntegerBufLen,  \* 64
    Characters,     \* the characters there are,
    CharOf,         \* and the one of a char's value
    Strings,        \* the strings in memory, by their addresses
    WildText,       \* what %s prints from any other address
    Formats,        \* format strings, in pieces
    Behind,         \* what memory holds behind a format string
    Stacks          \* arguments, and what lies on the stack behind them

CharLimit  == 2 ^ CharBits
ShortLimit == 2 ^ ShortBits
IntLimit   == 2 ^ IntBits
MaxLimit   == IntLimit * IntLimit       \* of intmax_t

FormatFlags == {"-", "+", " ", "#", "0"}

FormatTypes == {"%", "c", "s", "d", "o", "x", "X", "u", "p"}

DigitValue == [c \in {"0", "1", "2", "3", "4", "5", "6", "7", "8", "9"} |->
    CASE c = "0" -> 0 [] c = "1" -> 1 [] c = "2" -> 2 [] c = "3" -> 3 [] c = "4" -> 4
      [] c = "5" -> 5 [] c = "6" -> 6 [] c = "7" -> 7 [] c = "8" -> 8 [] c = "9" -> 9]

IsDigit(c) == c \in DOMAIN DigitValue

\* Those the code knows.
KnownCharacters ==
    FormatFlags \union DOMAIN DigitValue
        \union {"%", "*", ".", "h", "l", "j", "z", "t", "L", "NUL"}
        \union {"a", "b", "c", "d", "e", "f", "A", "B", "C", "D", "E", "F", "x", "X"}

(***************************************************************************)
(* A format as its author writes it is a sequence of pieces: a character,  *)
(* or a directive with its parts, of which any may be missing or unknown.  *)
(***************************************************************************)
IsText(p) == p.type = <<"text">>

Written(p) ==
    IF IsText(p) THEN <<p.char>>
    ELSE <<"%">> \o p.flags \o p.width \o p.precision \o p.length \o p.type

LengthModifiers == {<<>>, <<"h", "h">>, <<"h">>, <<"l">>, <<"l", "l">>, <<"j">>, <<"z">>, <<"t">>, <<"L">>}

IsPiece(p) ==
    IF IsText(p) THEN p.char \in Characters \ {"%", "NUL"}
    ELSE /\ p.flags \in Seq(FormatFlags)
         /\ \/ p.width = <<"*">>
            \/ p.width \in Seq(DOMAIN DigitValue) /\ (p.width # <<>> => p.width[1] # "0")
         /\ p.precision \in Seq(Characters \ {"%", "NUL"})
         /\ p.precision # <<>> => p.precision[1] = "."
         /\ p.length \in LengthModifiers
         /\ p.type \in Seq(Characters) /\ Len(p.type) <= 1
         /\ \A i \in DOMAIN p.type :
               p.type[i] \notin FormatFlags \union DOMAIN DigitValue
                                    \union {"*", ".", "h", "l", "j", "z", "t", "L", "NUL"}

\* The characters of the first n pieces of f.
CharsOf(f) ==
    LET chars[n \in 0 .. Len(f)] == IF n = 0 THEN <<>> ELSE chars[n - 1] \o Written(f[n])
    IN  chars

\* A format in memory: its terminator, and what lies behind it.
InMemory(f) == CharsOf(f)[Len(f)] \o <<"NUL">> \o Behind

\* What is left of a number when k digits are taken off its end.
Rest(value, radix) ==
    LET rest[k \in 0 .. IntegerBufLen] == IF k = 0 THEN value ELSE rest[k - 1] \div radix
    IN  rest

ASSUME WidthAssumption ==
    /\ {CharBits, ShortBits, IntBits, IntegerBufLen} \subseteq Nat \ {0}
    /\ {CharLimit, ShortLimit, IntLimit} \subseteq Nat \ {0}
    /\ 2 * IntegerBufLen <= IntLimit            \* an int counts the buffer
    /\ IntegerBufLen > 3 + IntBits \div 4       \* the buffer has room for "0x", a pointer
    /\ Rest(MaxLimit - 1, 8)[IntegerBufLen - 3] = 0     \* and any number in octal

(***************************************************************************)
(* kvprintf may skip one terminator, and goes on behind it: two of them    *)
(* stop it.  A slot is taken for a character of the format at most.        *)
(***************************************************************************)
ASSUME FormatAssumption ==
    /\ KnownCharacters \subseteq Characters
    /\ CharOf \in [0 .. CharLimit - 1 -> Characters] /\ CharOf[0] = "NUL"
    /\ \A c \in 1 .. CharLimit - 1 : CharOf[c] # "NUL"
    /\ DOMAIN Strings \subseteq 0 .. IntLimit - 1
    /\ \A a \in DOMAIN Strings : Strings[a] \in Seq(Characters)
    /\ WildText \in Seq(Characters)
    /\ \A f \in Formats : /\ Len(f) \in Nat /\ DOMAIN f = 1 .. Len(f)
                          /\ \A n \in DOMAIN f : IsPiece(f[n])
    /\ Behind \in Seq(Characters) /\ Behind # <<>>
    /\ Behind[Len(Behind)] = "NUL"
    /\ Len(Behind) > 1 => Behind[Len(Behind) - 1] = "NUL"
    /\ \A s \in Stacks : /\ s \in Seq(0 .. IntLimit - 1)
                         /\ \A f \in Formats : Len(InMemory(f)) <= Len(s)

VARIABLES
    format,     \* the format, in pieces
    memory,     \* the same in characters, its terminator and what lies behind it
    stream,     \* whether the caller passed a stream
    stack,      \* its arguments and what lies behind them
    fmt,        \* index of the next character of memory
    args,       \* index of the next slot of the stack
    spec,       \* the directive being formatted
    pc,         \* "call", "scan", the part of a directive that comes next, or "return"
    written,    \* the characters the stream got
    overrun     \* whether a number was written beyond its buffer

input == <<format, memory, stream, stack>>
vars  == <<input, fmt, args, spec, pc, written, overrun>>

Char == memory[fmt]

-----------------------------------------------------------------------------
(***************************************************************************)
(* format_spec.  A flag is the character that sets it.                     *)
(***************************************************************************)
EmptySpec ==
    [type |-> "empty", flags |-> {}, width |-> "", padKind |-> "default", padding |-> 0,
     precisionKind |-> "default", precision |-> 0]

\* n as a signed number of the given limit; overflow wraps.
ToSigned(n, limit) == LET m == n % limit IN IF 2 * m >= limit THEN m - limit ELSE m
ToInt(n) == ToSigned(n, IntLimit)

\* "+" beats " "; "0" with "-" leaves only "0" (flags &= FF_ZeroPad).
NormalFlags(flags) ==
    LET signs == IF {" ", "+"} \subseteq flags THEN flags \ {" "} ELSE flags
    IN  IF {"0", "-"} \subseteq signs THEN signs \intersect {"0"} ELSE signs

\* Wrong: takes every l for two.
WidthAt_TwoForL(p) ==
    CASE memory[p] = "h" -> IF memory[p + 1] = "h" THEN "hh" ELSE "h"
      [] memory[p] = "l" -> "ll"
      [] memory[p] \in {"j", "z", "t", "L"} -> memory[p]
      [] OTHER -> ""

\* The length modifier at p.
WidthAt(p) ==
    CASE memory[p] = "h" -> IF memory[p + 1] = "h" THEN "hh" ELSE "h"
      [] memory[p] = "l" -> IF memory[p + 1] = "l" THEN "ll" ELSE "l"
      [] memory[p] \in {"j", "z", "t", "L"} -> memory[p]
      [] OTHER -> ""

LengthOf(width) == CASE width = "" -> 0 [] width \in {"hh", "ll"} -> 2 [] OTHER -> 1

TypeAt(p) ==
    CASE memory[p] = "i" -> "d"
      [] memory[p] \in FormatTypes -> memory[p]
      [] OTHER -> "empty"

is_valid_spec(s) ==
    CASE s.type = "%" ->
            /\ s.flags = {} /\ s.width = ""
            /\ s.padKind = "default" /\ s.precisionKind = "default"
            /\ s.padKind # "default" /\ s.precisionKind # "default"
      [] s.type \in {"c", "s", "p"}           -> s.width = ""
      [] s.type \in {"d", "o", "x", "X", "u"} -> s.width # "L"
      [] OTHER                                -> FALSE

\* An invalid directive is ignored.
Validated(s) == IF is_valid_spec(s) THEN s ELSE [s EXCEPT !.type = "empty"]

-----------------------------------------------------------------------------
(***************************************************************************)
(* The arguments.  `at' is the index of the slot va_arg reads.             *)
(***************************************************************************)
SlotsOf(width) == IF width \in {"ll", "j"} THEN 2 ELSE 1

LimitOf(width) ==
    CASE width = "hh" -> CharLimit [] width = "h" -> ShortLimit
      [] width \in {"ll", "j"} -> MaxLimit [] OTHER -> IntLimit

read_unsigned(width, at) ==
    (IF SlotsOf(width) = 2 THEN stack[at] + IntLimit * stack[at + 1] ELSE stack[at])
        % LimitOf(width)

read_signed(width, at) == ToSigned(read_unsigned(width, at), LimitOf(width))

\* Wrong: a negative field width stays negative.
StarPadding_NoFlag(s, at) == [s EXCEPT !.padKind = "given", !.padding = ToInt(stack[at])]

\* A negative field width is a '-' flag and a positive width.
StarPadding(s, at) ==
    LET width == ToInt(stack[at])
    IN  IF width < 0
        THEN [s EXCEPT !.padKind = "given", !.padding = ToInt(-width), !.flags = @ \union {"-"}]
        ELSE [s EXCEPT !.padKind = "given", !.padding = width]

StarPrecision(s, at) ==
    LET precision == ToInt(stack[at])
    IN  IF precision >= 0
        THEN [s EXCEPT !.precisionKind = "given", !.precision = precision]
        ELSE [s EXCEPT !.precisionKind = "default"]

-----------------------------------------------------------------------------
(***************************************************************************)
(* Numbers.  The digits are written from the end of the buffer down; only  *)
(* signed_to_string looks at its beginning, one character too late.        *)
(***************************************************************************)
LowerDigits == <<"0","1","2","3","4","5","6","7","8","9","a","b","c","d","e","f">>
UpperDigits == <<"0","1","2","3","4","5","6","7","8","9","A","B","C","D","E","F">>

NumDigits(value, radix) ==
    CHOOSE n \in 0 .. IntegerBufLen :
        /\ Rest(value, radix)[n] = 0
        /\ \A k \in 0 .. n - 1 : Rest(value, radix)[k] # 0

unsigned_to_string(value, radix, precision, s) ==
    LET n      == NumDigits(value, radix)
        length == IF n < precision THEN precision ELSE n
        digits == IF s.type = "X" THEN UpperDigits ELSE LowerDigits
    IN  [i \in 1 .. length |->
            LET k == length - i
            IN  digits[IF k < n THEN 1 + (Rest(value, radix)[k] % radix) ELSE 1]]

signed_to_string(value, radix, precision, s) ==
    unsigned_to_string(IF value < 0 THEN -value ELSE value, radix,
                       IF precision < IntegerBufLen THEN precision ELSE IntegerBufLen, s)

write_chars(ch, count) == [i \in 1 .. count |-> ch]

get_format_padding(s)            == IF s.padKind = "given" THEN s.padding ELSE 0
get_format_precision(s, default) == IF s.precisionKind = "given" THEN s.precision ELSE default

get_int_sign_char(value, s) ==
    IF value < 0           THEN <<"-">>
    ELSE IF "+" \in s.flags THEN <<"+">>
    ELSE IF " " \in s.flags THEN <<" ">> ELSE <<>>

PrintsDecimal(value, s) == value # 0 \/ s.precisionKind # "default" \/ get_format_precision(s, 1) # 0
PrintsHex(value, s)     == value # 0 \/ s.precisionKind = "default" \/ get_format_precision(s, 1) # 0

\* Zeros go between the prefix and the digits, `blanks' before the prefix, the rest behind.
Justified(s, prefix, digits, blanks) ==
    LET padSize == ToInt(get_format_padding(s) - Len(digits) - Len(prefix))
    IN  IF padSize > 0 /\ "-" \notin s.flags
        THEN IF "0" \in s.flags /\ s.precisionKind = "default"
             THEN prefix \o write_chars("0", padSize) \o digits
             ELSE write_chars(" ", IF blanks = "all" THEN padSize ELSE 1) \o prefix \o digits
        ELSE prefix \o digits \o write_chars(" ", padSize)

DigitsOf(s, at) ==
    LET precision == get_format_precision(s, 1)
        value     == read_unsigned(s.width, at)
        signed    == read_signed(s.width, at)
    IN  CASE s.type = "d" -> IF PrintsDecimal(signed, s)
                             THEN signed_to_string(signed, 10, precision, s) ELSE <<>>
          [] s.type = "o" -> IF PrintsDecimal(value, s)
                             THEN unsigned_to_string(value, 8, precision, s) ELSE <<>>
          [] s.type \in {"x", "X"} ->
                             IF PrintsHex(value, s)
                             THEN unsigned_to_string(value, 16, precision, s) ELSE <<>>
          [] s.type = "u" -> IF PrintsHex(value, s)
                             THEN unsigned_to_string(value, 10, precision, s) ELSE <<>>
          [] s.type = "p" -> <<"0", "x">>
                                \o unsigned_to_string(stack[at], 16, IntBits \div 4, s)
          [] OTHER        -> <<>>

format_hex(s, at) ==
    Justified(s, IF "#" \in s.flags /\ read_unsigned(s.width, at) # 0
                 THEN <<"0", IF s.type = "X" THEN "X" ELSE "x">> ELSE <<>>,
              DigitsOf(s, at), "all")

format_octal(s, at) ==
    LET digits == DigitsOf(s, at)
    IN  Justified(s, IF "#" \in s.flags /\ digits # <<>> /\ Head(digits) # "0"
                     THEN <<"0">> ELSE <<>>,
                  digits, "all")

\* Where blanks are due before the number, one is written, however many are missing.
format_decimal(s, at) ==
    Justified(s, get_int_sign_char(read_signed(s.width, at), s), DigitsOf(s, at), "one")

format_unsigned(s, at) == Justified(s, <<>>, DigitsOf(s, at), "all")

\* Blanks only, on either side.
output_string(text, s) ==
    LET length  == IF s.precisionKind # "default" /\ s.precision < Len(text)
                   THEN s.precision ELSE Len(text)
        padSize == ToInt(s.padding - length)
        pad     == write_chars(" ", padSize)
        shown   == SubSeq(text, 1, length)
    IN  IF "-" \in s.flags THEN shown \o pad ELSE pad \o shown

format_pointer(s, at) ==
    LET digits == DigitsOf(s, at)
        pad    == write_chars(" ", ToInt(get_format_padding(s) - Len(digits)))
    IN  IF "-" \in s.flags THEN digits \o pad ELSE pad \o digits

format_character(s, at) ==
    LET char == CharOf[stack[at] % CharLimit]
    IN  output_string(IF char = "NUL" THEN <<>> ELSE <<char>>, s)

format_string(s, at) ==
    output_string(IF stack[at] \in DOMAIN Strings THEN Strings[stack[at]] ELSE WildText, s)

Formatted(s, at) ==
    CASE s.type = "%"          -> <<"%">>
      [] s.type = "c"          -> format_character(s, at)
      [] s.type = "s"          -> format_string(s, at)
      [] s.type = "d"          -> format_decimal(s, at)
      [] s.type = "o"          -> format_octal(s, at)
      [] s.type \in {"x", "X"} -> format_hex(s, at)
      [] s.type = "u"          -> format_unsigned(s, at)
      [] s.type = "p"          -> format_pointer(s, at)
      [] OTHER                 -> <<>>

-----------------------------------------------------------------------------
Init ==
    /\ format \in Formats
    /\ memory = InMemory(format)
    /\ stream \in BOOLEAN
    /\ stack \in Stacks
    /\ fmt = 1
    /\ args = 1
    /\ spec = EmptySpec
    /\ pc = "call"
    /\ written = <<>>
    /\ overrun = FALSE

\* Without a stream nothing is done.
Call ==
    /\ pc = "call"
    /\ pc' = IF stream THEN "scan" ELSE "return"
    /\ UNCHANGED <<input, fmt, args, spec, written, overrun>>

WriteLiteral ==
    /\ pc = "scan"
    /\ Char \notin {"%", "NUL"}
    /\ written' = Append(written, Char)
    /\ fmt' = fmt + 1
    /\ UNCHANGED <<input, args, spec, pc, overrun>>

-----------------------------------------------------------------------------
(***************************************************************************)
(* parse_format_spec, a character or a part of the directive at a time.    *)
(***************************************************************************)
parse_format_spec ==
    /\ pc = "scan"
    /\ Char = "%"
    /\ IF memory[fmt + 1] = "%"
       THEN /\ spec' = Validated([EmptySpec EXCEPT !.type = "%"])
            /\ fmt' = fmt + 2
            /\ pc' = "stars"
       ELSE spec' = EmptySpec /\ fmt' = fmt + 1 /\ pc' = "flags"
    /\ UNCHANGED <<input, args, written, overrun>>

\* Wrong: skips the character that ends the flags.
parse_format_flags_SkipsEnd ==
    /\ pc = "flags"
    /\ fmt' = fmt + 1
    /\ IF Char \in FormatFlags
       THEN /\ spec' = [spec EXCEPT !.flags = @ \union {Char}]
            /\ UNCHANGED pc
       ELSE /\ spec' = [spec EXCEPT !.flags = NormalFlags(@)]
            /\ pc' = "padding"
    /\ UNCHANGED <<input, args, written, overrun>>

\* Wrong: a flag is not skipped.
parse_format_flags_NotSkipped ==
    /\ pc = "flags"
    /\ spec' = [spec EXCEPT !.flags = IF Char \in FormatFlags THEN @ \union {Char} ELSE NormalFlags(@)]
    /\ pc' = IF Char \in FormatFlags THEN pc ELSE "padding"
    /\ UNCHANGED <<input, fmt, args, written, overrun>>

parse_format_flags ==
    /\ pc = "flags"
    /\ IF Char \in FormatFlags
       THEN /\ spec' = [spec EXCEPT !.flags = @ \union {Char}]
            /\ fmt' = fmt + 1
            /\ UNCHANGED pc
       ELSE /\ spec' = [spec EXCEPT !.flags = NormalFlags(@)]
            /\ pc' = "padding"
            /\ UNCHANGED fmt
    /\ UNCHANGED <<input, args, written, overrun>>

parse_format_padding ==
    /\ pc = "padding"
    /\ CASE Char = "*" /\ spec.padKind = "default" ->
              spec' = [spec EXCEPT !.padKind = "fromArg"] /\ fmt' = fmt + 1 /\ pc' = "precision"
         [] IsDigit(Char) ->
              /\ spec' = [spec EXCEPT !.padKind = "given",
                                      !.padding = ToInt(10 * @ + DigitValue[Char])]
              /\ fmt' = fmt + 1
              /\ UNCHANGED pc
         [] OTHER -> pc' = "precision" /\ UNCHANGED <<spec, fmt>>
    /\ UNCHANGED <<input, args, written, overrun>>

\* Wrong: skips the dot, and reads two digits into a precision the buffer may not hold.
parse_format_precision_SkipsDot ==
    /\ pc = "precision"
    /\ pc' = "width"
    /\ IF Char = "." /\ IsDigit(memory[fmt + 1]) /\ IsDigit(memory[fmt + 2])
       THEN /\ spec' = [spec EXCEPT !.precisionKind = "given",
                           !.precision = 10 * DigitValue[memory[fmt + 1]] + DigitValue[memory[fmt + 2]]]
            /\ fmt' = fmt + 3
       ELSE UNCHANGED <<spec, fmt>>
    /\ UNCHANGED <<input, args, written, overrun>>

(***************************************************************************)
(* A dot is not skipped before the code looks for a star or a digit, so    *)
(* what it finds there is the dot: the precision is always the default one *)
(* and the dot is left to parse_format_type.                               *)
(***************************************************************************)
parse_format_precision ==
    /\ pc = "precision"
    /\ spec' = [spec EXCEPT !.precisionKind = "default"]
    /\ pc' = "width"
    /\ UNCHANGED <<input, fmt, args, written, overrun>>

parse_format_width ==
    /\ pc = "width"
    /\ spec' = [spec EXCEPT !.width = WidthAt(fmt)]
    /\ fmt' = fmt + LengthOf(WidthAt(fmt))
    /\ pc' = "type"
    /\ UNCHANGED <<input, args, written, overrun>>

\* Also skips the terminator, if that is where the directive ends.
parse_format_type ==
    /\ pc = "type"
    /\ spec' = Validated([spec EXCEPT !.type = TypeAt(fmt)])
    /\ fmt' = fmt + 1
    /\ pc' = "stars"
    /\ UNCHANGED <<input, args, written, overrun>>

\* The arguments of the stars, those of an invalid directive too.
TakeStars ==
    /\ pc = "stars"
    /\ LET starred == spec.padKind = "fromArg"
           padded  == IF starred THEN StarPadding(spec, args) ELSE spec
           at      == IF starred THEN args + 1 ELSE args
       IN  IF padded.precisionKind = "fromArg"
           THEN spec' = StarPrecision(padded, at) /\ args' = at + 1
           ELSE spec' = padded /\ args' = at
    /\ pc' = "format"
    /\ UNCHANGED <<input, fmt, written, overrun>>

\* Wrong: every argument takes one slot.
FormatSpec_OneSlot ==
    /\ pc = "format"
    /\ written' = written \o Formatted(spec, args)
    /\ overrun' = (overrun \/ Len(DigitsOf(spec, args)) >= IntegerBufLen)
    /\ args' = args + (IF spec.type \in {"empty", "%"} THEN 0 ELSE 1)
    /\ pc' = "scan"
    /\ UNCHANGED <<input, fmt, spec>>

FormatSpec ==
    /\ pc = "format"
    /\ written' = written \o Formatted(spec, args)
    /\ overrun' = (overrun \/ Len(DigitsOf(spec, args)) >= IntegerBufLen)
    /\ args' = args + (IF spec.type \in {"empty", "%"} THEN 0 ELSE SlotsOf(spec.width))
    /\ pc' = "scan"
    /\ UNCHANGED <<input, fmt, spec>>

Return ==
    /\ pc = "scan"
    /\ Char = "NUL"
    /\ pc' = "return"
    /\ UNCHANGED <<input, fmt, args, spec, written, overrun>>

ParseStep ==
    \/ parse_format_spec
    \/ parse_format_flags
    \/ parse_format_padding
    \/ parse_format_precision
    \/ parse_format_width
    \/ parse_format_type

Next == Call \/ WriteLiteral \/ ParseStep \/ TakeStars \/ FormatSpec \/ Return

\* Nothing interrupts the kernel's one thread.
Spec == Init /\ [][Next]_vars /\ WF_vars(Next)
=============================================================================
