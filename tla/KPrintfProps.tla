---------------------------- MODULE KPrintfProps ----------------------------
(***************************************************************************)
(* What kvprintf must print: the layout the C11 standard, which the        *)
(* comments of kprintf.c quote, gives a directive, stated once for all     *)
(* conversions, and the directives for which the code keeps to it.         *)
(***************************************************************************)
EXTENDS KPrintf

Signed   == {"d", "i"}
Unsigned == {"o", "x", "X", "u"}

Percent(p)   == p.type = <<"%">>
Type(p)      == IF p.type = <<>> THEN "none" ELSE p.type[1]
Has(p, flag) == \E i \in DOMAIN p.flags : p.flags[i] = flag
Starred(p)   == p.width = <<"*">>

TwoSlots(p)  == p.length \in {<<"l", "l">>, <<"j">>}

\* The slots a directive reads: its star's, then its argument's.
StarSlots(p) == IF IsText(p) \/ ~Starred(p) THEN 0 ELSE 1
Slots(p) ==
    IF IsText(p) \/ Percent(p) THEN 0
    ELSE StarSlots(p) + IF TwoSlots(p) THEN 2 ELSE 1

-----------------------------------------------------------------------------
Limit(p) ==
    CASE p.length = <<"h", "h">> -> CharLimit
      [] p.length = <<"h">>      -> ShortLimit
      [] TwoSlots(p)             -> MaxLimit
      [] OTHER                   -> IntLimit

\* The number a directive prints whose slots begin at k.
Number(p, k) ==
    LET first == k + StarSlots(p)
        value == (stack[first] + (IF TwoSlots(p) THEN IntLimit * stack[first + 1] ELSE 0))
                    % Limit(p)
    IN  IF Type(p) \in Signed /\ 2 * value >= Limit(p) THEN value - Limit(p) ELSE value

Radix(p) == CASE Type(p) = "o" -> 8 [] Type(p) \in {"x", "X", "p"} -> 16 [] OTHER -> 10

\* The digits of a number that is not negative, the least significant last.
Numeral(n, radix, digits) ==
    LET numeral[v \in 0 .. n] ==
            IF v = 0 THEN <<>> ELSE Append(numeral[v \div radix], digits[1 + (v % radix)])
    IN  numeral[n]

Zeros(n)  == [i \in 1 .. n |-> "0"]
Spaces(n) == [i \in 1 .. n |-> " "]

\* At least `least' digits: the default precision is 1.
Digits(p, k) ==
    LET n       == Number(p, k)
        numeral == Numeral(IF n < 0 THEN -n ELSE n, Radix(p),
                           IF Type(p) = "X" THEN UpperDigits ELSE LowerDigits)
        least   == IF Type(p) = "p" THEN IntBits \div 4 ELSE 1
    IN  Zeros(least - Len(numeral)) \o numeral

\* What stands before the digits.
Sign(p, k) ==
    CASE Type(p) \in Signed /\ Number(p, k) < 0                    -> <<"-">>
      [] Type(p) \in Signed /\ Number(p, k) >= 0 /\ Has(p, "+") -> <<"+">>
      [] Type(p) \in Signed /\ Number(p, k) >= 0 /\ ~Has(p, "+") /\ Has(p, " ") -> <<" ">>
      [] Type(p) = "p" \/ (Type(p) = "x" /\ Has(p, "#") /\ Number(p, k) # 0) -> <<"0", "x">>
      [] Type(p) = "X" /\ Has(p, "#") /\ Number(p, k) # 0          -> <<"0", "X">>
      [] Type(p) = "o" /\ Has(p, "#") /\ Number(p, k) # 0          -> <<"0">>
      [] OTHER                                                     -> <<>>

Body(p, k) ==
    LET first == stack[k + StarSlots(p)]
    IN  CASE Type(p) = "c" -> <<CharOf[first % CharLimit]>>
          [] Type(p) = "s" -> Strings[first]
          [] OTHER         -> Digits(p, k)

\* The first n digits of a field width, read as one number.
WidthRead(p) ==
    LET value[n \in 0 .. Len(p.width)] ==
            IF n = 0 THEN 0 ELSE 10 * value[n - 1] + DigitValue[p.width[n]]
    IN  value

\* The star's value, or that of all digits.
WidthOf(p, k) == IF Starred(p) THEN ToInt(stack[k]) ELSE WidthRead(p)[Len(p.width)]

Left(p, k) == Has(p, "-") \/ WidthOf(p, k) < 0

\* The blanks or zeros that a field lacks.
Lacks(p, k) ==
    LET width == WidthOf(p, k)
    IN  (IF width < 0 THEN -width ELSE width) - Len(Sign(p, k)) - Len(Body(p, k))

Field(p, k) ==
    CASE IsText(p)  -> <<p.char>>
      [] Percent(p) -> <<"%">>
      [] OTHER ->
            CASE Left(p, k) -> Sign(p, k) \o Body(p, k) \o Spaces(Lacks(p, k))
              [] ~Left(p, k) /\ Has(p, "0") -> Sign(p, k) \o Zeros(Lacks(p, k)) \o Body(p, k)
              [] OTHER      -> Spaces(Lacks(p, k)) \o Sign(p, k) \o Body(p, k)

-----------------------------------------------------------------------------
(***************************************************************************)
(* The directives that take their arguments as C11 says: those without a   *)
(* precision, wide characters or a type or length that C11 does not give   *)
(* them.                                                                   *)
(***************************************************************************)
Understood(p) ==
    \/ IsText(p)
    \/ p.width = <<>> /\ p.flags = <<>> /\ p.length = <<>> /\ p.precision = <<>> /\ Percent(p)
    \/ /\ p.precision = <<>>
       /\ \/ Type(p) \in {"c", "s", "p"} /\ p.length = <<>>
          \/ Type(p) \in Signed \union Unsigned /\ p.length # <<"L">>

(***************************************************************************)
(* Those the code also prints as C11 says.  It does not print %%, a        *)
(* character 0, a '-' flag beside a '0' flag, and a decimal number that    *)
(* lacks two or more blanks before it.  A '0' or '#' that C11 leaves       *)
(* undefined, a string that is none, and a width or a string too long for  *)
(* an int and its opposite are left out.                                   *)
(***************************************************************************)
Supported(p, k) ==
    \/ IsText(p)
    \/ /\ Understood(p)
       /\ ~Percent(p)
       /\ ~(Has(p, "0") /\ Has(p, "-"))
       /\ Has(p, "0") => Type(p) \in Signed \union Unsigned
       /\ Has(p, "#") => Type(p) \in {"o", "x", "X"}
       /\ -IntLimit < 2 * WidthOf(p, k) /\ 2 * WidthOf(p, k) < IntLimit
       /\ Type(p) = "c" => stack[k + StarSlots(p)] % CharLimit # 0
       /\ Type(p) = "s" => /\ stack[k + StarSlots(p)] \in DOMAIN Strings
                           /\ 2 * Len(Strings[stack[k + StarSlots(p)]]) <= IntLimit
       /\ Type(p) \in Signed => Left(p, k) \/ Has(p, "0") \/ Lacks(p, k) <= 1

\* Where kvprintf should stand behind the first n pieces.
After ==
    LET after[n \in 0 .. Len(format)] ==
            IF n = 0 THEN [fmt |-> 1, args |-> 1]
            ELSE [fmt  |-> after[n - 1].fmt + Len(Written(format[n])),
                  args |-> after[n - 1].args + Slots(format[n])]
    IN  after

Terminator == After[Len(format)].fmt

\* What it should have printed there.
Printed ==
    LET printed[n \in 0 .. Len(format)] ==
            IF n = 0 THEN <<>> ELSE printed[n - 1] \o Field(format[n], After[n - 1].args)
    IN  printed

-----------------------------------------------------------------------------
TypeOK ==
    /\ stream \in BOOLEAN
    /\ fmt \in DOMAIN memory
    /\ args \in 1 .. Len(stack) + 1
    /\ spec.type \in FormatTypes \union {"empty"}
    /\ spec.flags \subseteq FormatFlags
    /\ spec.width \in {"", "hh", "h", "l", "ll", "j", "z", "t", "L"}
    /\ {spec.padKind, spec.precisionKind} \subseteq {"default", "given", "fromArg"}
    /\ {spec.padding, spec.precision} \subseteq Int
    /\ pc \in {"call", "scan", "flags", "padding", "precision", "width", "type", "stars",
               "format", "return"}
    /\ written \in Seq(Characters)
    /\ overrun \in BOOLEAN

(***************************************************************************)
(* The arguments stay in step with the format: whenever kvprintf is back   *)
(* in its loop it stands behind some piece of the format, and at the slot  *)
(* that piece's successor takes.  Stars, two-slot arguments and lengths of *)
(* one and two characters are what it could lose its step over.            *)
(***************************************************************************)
ArgsInStep ==
    pc = "scan" /\ (\A n \in DOMAIN format : Understood(format[n])) =>
        \E n \in 0 .. Len(format) : fmt = After[n].fmt /\ args = After[n].args

(***************************************************************************)
(* What has been printed is at every piece what C11 says of the pieces     *)
(* before it, as long as the code supports them.                           *)
(***************************************************************************)
PrintsAsC11 ==
    pc = "scan" =>
        \A n \in 0 .. Len(format) :
            /\ fmt = After[n].fmt
            /\ \A k \in 1 .. n : Supported(format[k], After[k - 1].args)
            => written = Printed[n]

(***************************************************************************)
(* kvprintf never reads on behind the terminator of a format unless one of *)
(* its directives lacks a conversion character: the format ends there or   *)
(* goes on with a character that is none, or the directive has a precision *)
(* and the '%' behind it is taken for the beginning of another one.        *)
(***************************************************************************)
CutOff(p) == ~IsText(p) /\ IF p.precision = <<>> THEN p.type = <<>> ELSE Percent(p)

StaysInFormat ==
    (\A n \in DOMAIN format : ~CutOff(format[n])) => fmt <= Terminator

(***************************************************************************)
(* No number is written beyond its buffer of IntegerBufLen characters.     *)
(* unsigned_to_string has no bound: this holds because no precision is     *)
(* ever parsed.                                                            *)
(***************************************************************************)
BufferHolds == ~overrun

\* Every call returns.
CallReturns == <>(pc = "return")
=============================================================================
