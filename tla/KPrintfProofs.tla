---------------------------- MODULE KPrintfProofs ----------------------------
(***************************************************************************)
(* kvprintf, for every format, whatever lies behind it, every stack and    *)
(* every width of the integers.                                            *)
(***************************************************************************)
EXTENDS KPrintfProps, SequenceTheorems, WellFoundedInduction, TLAPS

-----------------------------------------------------------------------------
Parsing == {"flags", "padding", "precision", "width"}

Widths == {"", "hh", "h", "l", "ll", "j", "z", "t", "L"}

Directives ==
    [type : FormatTypes \union {"empty"}, flags : SUBSET FormatFlags, width : Widths,
     padKind : {"default", "given", "fromArg"}, padding : Int,
     precisionKind : {"default"}, precision : Int]

\* The slots the directive has still to take: its star's and its argument's.
StarsLeft == IF spec.padKind = "fromArg" THEN 1 ELSE 0
Takes     == IF spec.type \in {"empty", "%"} THEN 0 ELSE SlotsOf(spec.width)

InputInv ==
    /\ format \in Formats
    /\ memory = InMemory(format)
    /\ stream \in BOOLEAN
    /\ stack \in Stacks

SpecInv ==
    /\ spec \in Directives
    /\ pc \in {"flags", "padding", "format"} => spec.padKind # "fromArg"

\* Only a directive's last character can be the last but one of memory.
PlaceInv ==
    /\ fmt \in 1 .. Len(memory)
    /\ pc \in Parsing \union {"type"} => fmt < Len(memory)

\* A slot for a character at most.
SlotsInv ==
    /\ args \in Nat \ {0}
    /\ pc \in {"call", "scan", "return"} => args <= fmt
    /\ pc \in Parsing => args + StarsLeft < fmt
    /\ pc = "type" => args + StarsLeft + SlotsOf(spec.width) <= fmt
    /\ pc = "stars" => args + StarsLeft + Takes <= fmt
    /\ pc = "format" => args + Takes <= fmt

OutputInv == written \in Seq(Characters) /\ overrun = FALSE

IInv ==
    /\ pc \in Parsing \union {"type", "call", "scan", "stars", "format", "return"}
    /\ InputInv /\ SpecInv /\ PlaceInv /\ SlotsInv /\ OutputInv

(***************************************************************************)
(* Where kvprintf stands in the pieces of its format, as long as no        *)
(* directive is cut off.  Piece n + 1 begins at After[n].fmt; what is left *)
(* of a directive with a precision is printed as it is.                    *)
(***************************************************************************)
Sound == \A n \in DOMAIN format : ~CutOff(format[n])

Known == \A n \in DOMAIN format : Understood(format[n])

\* The last characters of a directive's parts.
FlagsEnd(p)     == 1 + Len(p.flags)
WidthEnd(p)     == FlagsEnd(p) + Len(p.width)
PrecisionEnd(p) == WidthEnd(p) + Len(p.precision)
LengthEnd(p)    == PrecisionEnd(p) + Len(p.length)
TypeEnd(p)      == LengthEnd(p) + Len(p.type)

\* Where its flags and its field width end in memory.
Flagged(n) == After[n].fmt + FlagsEnd(format[n + 1])
Padded(n)  == After[n].fmt + WidthEnd(format[n + 1])
EndOf(n)   == IF format[n + 1].precision = <<>> THEN After[n + 1].fmt ELSE Padded(n) + 1

StarOf(n) == IF Starred(format[n + 1]) THEN 1 ELSE 0

ModifierOf(p) ==
    CASE p.length = <<>> -> "" [] p.length = <<"h">> -> "h" [] p.length = <<"h", "h">> -> "hh"
      [] p.length = <<"l">> -> "l" [] p.length = <<"l", "l">> -> "ll" [] p.length = <<"j">> -> "j"
      [] p.length = <<"z">> -> "z" [] p.length = <<"t">> -> "t" [] p.length = <<"L">> -> "L"

InDirective(n) ==
    /\ ~IsText(format[n + 1])
    /\ Known => args = After[n].args
    /\ pc = "flags" => fmt \in After[n].fmt + 1 .. Flagged(n) /\ spec.padKind = "default"
    /\ pc = "padding" => /\ fmt \in Flagged(n) .. Padded(n)
                         /\ spec.padKind = IF fmt = Flagged(n) THEN "default" ELSE "given"
                         /\ Starred(format[n + 1]) => fmt = Flagged(n)
    /\ pc \in {"precision", "width"} => fmt = Padded(n) /\ StarsLeft = StarOf(n)
    /\ pc = "type" =>
           /\ StarsLeft = StarOf(n)
           /\ IF format[n + 1].precision = <<>>
              THEN /\ fmt = Padded(n) + Len(format[n + 1].length)
                   /\ spec.width = ModifierOf(format[n + 1])
              ELSE fmt = Padded(n)

DirectiveDone(n) ==
    /\ ~IsText(format[n + 1])
    /\ fmt = EndOf(n)
    /\ Known => args + (IF pc = "stars" THEN StarsLeft ELSE 0) + Takes = After[n + 1].args

InLoop ==
    \/ \E n \in 0 .. Len(format) : fmt = After[n].fmt /\ (Known => args = After[n].args)
    \/ /\ ~Known
       /\ \E n \in 0 .. Len(format) - 1 :
             /\ ~IsText(format[n + 1]) /\ format[n + 1].precision # <<>>
             /\ fmt \in Padded(n) + 1 .. After[n + 1].fmt

StepInv ==
    Sound =>
        /\ pc \in {"call", "scan", "return"} => InLoop
        /\ pc \in Parsing \union {"type"} => \E n \in 0 .. Len(format) - 1 : InDirective(n)
        /\ pc \in {"stars", "format"} => \E n \in 0 .. Len(format) - 1 : DirectiveDone(n)


-----------------------------------------------------------------------------
(***************************************************************************)
(* Induction over 0 .. N, with the set of the numbers for which a claim    *)
(* holds.                                                                  *)
(***************************************************************************)
LEMMA LessThanIsWellFounded == IsWellFoundedOn({ss \in Nat \X Nat : ss[1] < ss[2]}, Nat)
BY NatLessThanWellFounded DEF OpToRel

LEMMA LeastNumber ==
    ASSUME NEW T \in SUBSET Nat, T # {}
    PROVE  \E x \in T : \A y \in T : x <= y
<1> DEFINE R == {ss \in Nat \X Nat : ss[1] < ss[2]}
<1>1. PICK x \in T : \A y \in T : <<y, x>> \notin R
  BY LessThanIsWellFounded, WFMin
<1>2. \A y \in T : ~(y < x)
  BY <1>1
<1> QED  BY <1>2

LEMMA Induction ==
    ASSUME NEW N \in Nat, NEW T, 0 \in T, \A n \in 1 .. N : n - 1 \in T => n \in T
    PROVE  0 .. N \subseteq T
<1> DEFINE Bad == {n \in 0 .. N : n \notin T}
<1> SUFFICES ASSUME Bad # {} PROVE FALSE
  OBVIOUS
<1>1. PICK n \in Bad : \A m \in Bad : n <= m
  <2>1. Bad \in SUBSET Nat
    OBVIOUS
  <2> QED  BY <2>1, LeastNumber
<1>2. n \in 1 .. N /\ n - 1 \in 0 .. N
  BY <1>1
<1>3. n - 1 \notin Bad
  BY <1>1, <1>2
<1> QED  BY <1>1, <1>2, <1>3

\* A function may be defined from its value before.
Recurs(g, N, start, step) == g[0] = start /\ \A n \in 1 .. N : g[n] = step[<<g[n - 1], n>>]

LEMMA Recursion ==
    ASSUME NEW N \in Nat, NEW V, NEW start \in V, NEW step \in [V \X (1 .. N) -> V]
    PROVE  \E g \in [0 .. N -> V] : Recurs(g, N, start, step)
<1> DEFINE Follows(g, m) == g[0] = start /\ \A n \in 1 .. m : g[n] = step[<<g[n - 1], n>>]
    T == {m \in 0 .. N : \E g \in [0 .. m -> V] : Follows(g, m)}
<1>1. 0 \in T
  <2> DEFINE g == [n \in 0 .. 0 |-> start]
  <2>1. g \in [0 .. 0 -> V] /\ Follows(g, 0)
    OBVIOUS
  <2>2. \E h \in [0 .. 0 -> V] : Follows(h, 0)
    <3> HIDE DEF g, Follows
    <3> QED  BY <2>1
  <2> QED  BY <2>2
<1>2. ASSUME NEW m \in 1 .. N, m - 1 \in T PROVE m \in T
  <2>1. PICK g \in [0 .. m - 1 -> V] : Follows(g, m - 1)
    BY <1>2
  <2> DEFINE h == [n \in 0 .. m |-> IF n = m THEN step[<<g[m - 1], m>>] ELSE g[n]]
  <2>2. g[m - 1] \in V
    BY <2>1
  <2>3. step[<<g[m - 1], m>>] \in V
    BY <2>2
  <2>4. h \in [0 .. m -> V]
    BY <2>1, <2>3
  <2>5. ASSUME NEW n \in 1 .. m PROVE h[n] = step[<<h[n - 1], n>>]
    <3>1. CASE n = m
      <4>1. h[n] = step[<<g[m - 1], m>>] /\ h[n - 1] = g[m - 1]
        BY <3>1
      <4> QED  BY <3>1, <4>1
    <3>2. CASE n # m
      <4>1. n \in 1 .. m - 1 /\ h[n] = g[n]
        BY <3>2
      <4>2. h[n - 1] = g[n - 1]
        BY <4>1
      <4> QED  BY <2>1, <4>1, <4>2
    <3> QED  BY <3>1, <3>2
  <2>6. \E e \in [0 .. m -> V] : Follows(e, m)
    <3>1. Follows(h, m)
      <4>1. h[0] = g[0]
        OBVIOUS
      <4>2. h[0] = start
        BY <2>1, <4>1
      <4> QED  BY <2>5, <4>2
    <3> HIDE DEF h, Follows
    <3> QED  BY <2>4, <3>1
  <2> QED  BY <2>6
<1>3. 0 .. N \subseteq T
  <2> HIDE DEF T
  <2> QED  BY <1>1, <1>2, Induction
<1>4. N \in T
  <2>1. N \in 0 .. N
    OBVIOUS
  <2> HIDE DEF T
  <2> QED  BY <1>3, <2>1
<1>5. PICK g \in [0 .. N -> V] : Follows(g, N)
  BY <1>4
<1>6. Recurs(g, N, start, step)
  BY <1>5 DEF Recurs
<1> QED  BY <1>6

-----------------------------------------------------------------------------
(***************************************************************************)
(* Numbers.                                                                *)
(***************************************************************************)
LEMMA Limits ==
    /\ CharBits \in Nat \ {0} /\ ShortBits \in Nat \ {0} /\ IntBits \in Nat \ {0}
    /\ IntegerBufLen \in Nat \ {0}
    /\ CharLimit \in Nat \ {0} /\ ShortLimit \in Nat \ {0} /\ IntLimit \in Nat \ {0}
    /\ MaxLimit \in Nat \ {0} /\ IntLimit <= MaxLimit
    /\ IntBits \div 4 \in Nat /\ IntegerBufLen > 3 + IntBits \div 4
<1>1. /\ CharBits \in Nat \ {0} /\ ShortBits \in Nat \ {0} /\ IntBits \in Nat \ {0}
      /\ IntegerBufLen \in Nat \ {0}
      /\ CharLimit \in Nat \ {0} /\ ShortLimit \in Nat \ {0} /\ IntLimit \in Nat \ {0}
      /\ IntegerBufLen > 3 + IntBits \div 4
  BY WidthAssumption
<1>2. \A n \in Nat \ {0} : n * n \in Nat \ {0} /\ n <= n * n
  OBVIOUS
<1> QED  BY <1>1, <1>2 DEF MaxLimit

LEMMA RestUnfolds ==
    ASSUME NEW value \in Nat, NEW radix \in Nat \ {0}
    PROVE  /\ Rest(value, radix) \in [0 .. IntegerBufLen -> Nat]
           /\ Rest(value, radix)[0] = value
           /\ \A k \in 1 .. IntegerBufLen :
                  Rest(value, radix)[k] = Rest(value, radix)[k - 1] \div radix
<1> DEFINE N == IntegerBufLen
           ValueAt(f, k) == IF k = 0 THEN value ELSE f[k - 1] \div radix
           step == [x \in Nat \X (1 .. N) |-> x[1] \div radix]
           f == Rest(value, radix)
<1>1. N \in Nat
  BY Limits
<1>2. f = CHOOSE g : g = [k \in 0 .. N |-> ValueAt(g, k)]
  BY DEF Rest
<1>3. \A m \in Nat : m \div radix \in Nat
  OBVIOUS
<1>4. step \in [Nat \X (1 .. N) -> Nat]
  BY <1>3
<1>5. PICK g \in [0 .. N -> Nat] : Recurs(g, N, value, step)
  <2> DEFINE V == Nat
  <2>1. value \in V /\ step \in [V \X (1 .. N) -> V]
    BY <1>4
  <2>2. \E g \in [0 .. N -> V] : Recurs(g, N, value, step)
    <3> HIDE DEF step, N, V
    <3> QED  BY <1>1, <2>1, Recursion
  <2> QED  BY <2>2
<1>6. \A n \in 0 .. N : g[n] = ValueAt(g, n)
  <2>1. ASSUME NEW n \in 1 .. N PROVE step[<<g[n - 1], n>>] = g[n - 1] \div radix
    <3>1. n - 1 \in 0 .. N /\ n \in 1 .. N
      BY <1>1
    <3>2. <<g[n - 1], n>> \in Nat \X (1 .. N)
      BY <3>1
    <3> HIDE DEF N
    <3> QED  BY <3>2
  <2>2. g[0] = value /\ \A n \in 1 .. N : g[n] = step[<<g[n - 1], n>>]
    BY <1>5 DEF Recurs
  <2>3. ASSUME NEW n \in 0 .. N PROVE g[n] = ValueAt(g, n)
    <3>1. n = 0 \/ n \in 1 .. N
      BY <1>1
    <3>2. n = 0 => g[n] = ValueAt(g, n)
      BY <2>2
    <3>3. ASSUME n \in 1 .. N PROVE g[n] = ValueAt(g, n)
      <4>1. n # 0 /\ g[n] = g[n - 1] \div radix
        <5>1. step[<<g[n - 1], n>>] = g[n - 1] \div radix
          BY <2>1, <3>3
        <5>2. g[n] = step[<<g[n - 1], n>>]
          BY Zenon, <2>2, <3>3
        <5>3. n # 0
          BY <1>1, <3>3
        <5> QED  BY Zenon, <5>1, <5>2, <5>3
      <4> QED  BY <4>1
    <3> QED  BY <3>1, <3>2, <3>3
  <2> QED  BY <2>3
<1>7. g = [k \in 0 .. N |-> ValueAt(g, k)]
  BY <1>5, <1>6
<1>8. f = [k \in 0 .. N |-> ValueAt(f, k)]
  <2> HIDE DEF ValueAt, N, f
  <2> QED  BY <1>2, <1>7
<1> DEFINE T == {k \in 0 .. N : f[k] \in Nat}
<1>9. 0 .. N \subseteq T
  <2> HIDE DEF f
  <2>1. 0 \in T
    BY <1>1, <1>8
  <2>2. ASSUME NEW n \in 1 .. N, n - 1 \in T PROVE n \in T
    <3>1. n \in 0 .. N /\ n # 0 /\ f[n - 1] \in Nat
      BY <1>1, <2>2
    <3>2. f[n] = f[n - 1] \div radix
      BY <1>8, <3>1
    <3> QED  BY <1>3, <3>1, <3>2
  <2> HIDE DEF T, N
  <2> QED  BY <1>1, <2>1, <2>2, Induction
<1> HIDE DEF f
<1>10. f \in [0 .. N -> Nat]
  BY <1>8, <1>9
<1>11. f[0] = value /\ \A k \in 1 .. N : f[k] = f[k - 1] \div radix
  BY <1>1, <1>8
<1> QED  BY <1>10, <1>11 DEF f

Radices == {8, 10, 16}

\* A greater radix and a lesser number leave less.
LEMMA RestIsMonotonic ==
    ASSUME NEW value \in Nat, NEW most \in Nat, value <= most, NEW radix \in Radices
    PROVE  \A k \in 0 .. IntegerBufLen : Rest(value, radix)[k] <= Rest(most, 8)[k]
<1> DEFINE f == Rest(value, radix)
           g == Rest(most, 8)
           T == {k \in 0 .. IntegerBufLen : f[k] <= g[k]}
<1>1. /\ f \in [0 .. IntegerBufLen -> Nat] /\ f[0] = value
      /\ \A k \in 1 .. IntegerBufLen : f[k] = f[k - 1] \div radix
      /\ g \in [0 .. IntegerBufLen -> Nat] /\ g[0] = most
      /\ \A k \in 1 .. IntegerBufLen : g[k] = g[k - 1] \div 8
  <2>1. radix \in Nat \ {0} /\ 8 \in Nat \ {0}
    BY DEF Radices
  <2> QED  BY <2>1, RestUnfolds
<1> HIDE DEF f, g
<1>2. 0 \in T
  BY <1>1, Limits
<1>3. ASSUME NEW n \in 1 .. IntegerBufLen, n - 1 \in T PROVE n \in T
  <2>1. f[n - 1] \in Nat /\ g[n - 1] \in Nat /\ f[n - 1] <= g[n - 1] /\ n \in 0 .. IntegerBufLen
    BY <1>1, <1>3, Limits
  <2>2. ASSUME NEW a \in Nat, NEW b \in Nat, a <= b PROVE a \div radix <= b \div 8
    BY <2>2 DEF Radices
  <2>3. f[n] <= g[n]
    BY <1>1, <2>1, <2>2
  <2> QED  BY <2>1, <2>3
<1>4. 0 .. IntegerBufLen \subseteq T
  <2> HIDE DEF T
  <2> QED  BY <1>2, <1>3, Limits, Induction
<1> QED  BY <1>4 DEF f, g

\* The number of digits: as many as are taken off before nothing is left.
LEMMA DigitsCounted ==
    ASSUME NEW value \in 0 .. MaxLimit - 1, NEW radix \in Radices
    PROVE  /\ NumDigits(value, radix) \in 0 .. IntegerBufLen - 3
           /\ Rest(value, radix)[NumDigits(value, radix)] = 0
           /\ \A k \in 0 .. NumDigits(value, radix) - 1 : Rest(value, radix)[k] # 0
<1> DEFINE f == Rest(value, radix)
           T == {k \in 0 .. IntegerBufLen : f[k] = 0}
<1>1. IntegerBufLen - 3 \in 0 .. IntegerBufLen
  BY Limits
<1>2. value \in Nat /\ MaxLimit - 1 \in Nat /\ value <= MaxLimit - 1
  BY Limits
<1>3. f \in [0 .. IntegerBufLen -> Nat]
  BY <1>2, RestUnfolds DEF Radices
<1>4. f[IntegerBufLen - 3] = 0
  <2>1. f[IntegerBufLen - 3] <= Rest(MaxLimit - 1, 8)[IntegerBufLen - 3]
    BY <1>1, <1>2, RestIsMonotonic
  <2>2. Rest(MaxLimit - 1, 8)[IntegerBufLen - 3] = 0
    BY WidthAssumption
  <2>3. f[IntegerBufLen - 3] \in Nat
    BY <1>1, <1>3
  <2> QED  BY <2>1, <2>2, <2>3
<1> HIDE DEF f
<1>5. IntegerBufLen - 3 \in T
  BY <1>1, <1>4
<1>6. PICK n \in T : \A m \in T : n <= m
  <2>1. T \in SUBSET Nat
    OBVIOUS
  <2> HIDE DEF T
  <2> QED  BY <1>5, <2>1, LeastNumber
<1>7. n \in 0 .. IntegerBufLen /\ f[n] = 0 /\ \A k \in 0 .. n - 1 : f[k] # 0
  BY <1>6, Limits
<1> DEFINE c == NumDigits(value, radix)
<1>8. c = CHOOSE m \in 0 .. IntegerBufLen : f[m] = 0 /\ \A k \in 0 .. m - 1 : f[k] # 0
  BY DEF NumDigits, f
<1>9. c \in 0 .. IntegerBufLen /\ f[c] = 0 /\ \A k \in 0 .. c - 1 : f[k] # 0
  BY <1>7, <1>8
<1> HIDE DEF c
<1>10. ~(IntegerBufLen - 3 < c)
  <2>1. SUFFICES ASSUME IntegerBufLen - 3 < c PROVE FALSE
    OBVIOUS
  <2>2. IntegerBufLen - 3 \in 0 .. c - 1
    BY <1>1, <1>9, <2>1
  <2> QED  BY <1>4, <1>9, <2>2
<1>11. c \in 0 .. IntegerBufLen - 3
  BY <1>1, <1>9, <1>10, Limits
<1> QED  BY Zenon, <1>9, <1>11 DEF c, f

LEMMA DigitsFit ==
    ASSUME NEW value \in 0 .. MaxLimit - 1, NEW radix \in Radices
    PROVE  NumDigits(value, radix) \in 0 .. IntegerBufLen - 3
BY Zenon, DigitsCounted

-----------------------------------------------------------------------------
(***************************************************************************)
(* A format and its characters.                                            *)
(***************************************************************************)
LEMMA Pieces ==
    ASSUME NEW f \in Formats
    PROVE  Len(f) \in Nat /\ DOMAIN f = 1 .. Len(f) /\ \A n \in 1 .. Len(f) : IsPiece(f[n])
BY FormatAssumption

LEMMA DigitsAreCharacters ==
    /\ DOMAIN DigitValue = {"0", "1", "2", "3", "4", "5", "6", "7", "8", "9"}
    /\ \A c \in DOMAIN DigitValue : DigitValue[c] \in 0 .. 9
BY DEF DigitValue

LEMMA KnownOnes ==
    /\ KnownCharacters \subseteq Characters
    /\ FormatFlags \subseteq Characters /\ DOMAIN DigitValue \subseteq Characters
    /\ {"%", "*", ".", "h", "l", "j", "z", "t", "L", "NUL"} \subseteq Characters
<1>1. KnownCharacters \subseteq Characters
  BY FormatAssumption
<1>2. /\ FormatFlags \subseteq KnownCharacters /\ DOMAIN DigitValue \subseteq KnownCharacters
      /\ {"%", "*", ".", "h", "l", "j", "z", "t", "L", "NUL"} \subseteq KnownCharacters
  BY DEF KnownCharacters
<1> QED  BY <1>1, <1>2

\* A text after a text.
Follows(w, s, m, t, n) ==
    /\ \A i \in 1 .. m : w[i] = s[i]
    /\ \A i \in m + 1 .. n : w[i] = t[i - m]

LEMMA Joined ==
    \A s, t \in Seq(Characters) :
        /\ s \o t \in Seq(Characters) /\ Len(s \o t) = Len(s) + Len(t)
        /\ Follows(s \o t, s, Len(s), t, Len(s) + Len(t))
<1> TAKE s, t \in Seq(Characters)
<1>1. Len(s) \in Nat /\ Len(t) \in Nat
  BY LenProperties
<1>2. /\ s \o t \in Seq(Characters) /\ Len(s \o t) = Len(s) + Len(t)
      /\ \A i \in 1 .. Len(s) + Len(t) : (s \o t)[i] = IF i <= Len(s) THEN s[i] ELSE t[i - Len(s)]
  BY ConcatProperties
<1> QED  BY <1>1, <1>2 DEF Follows

LEMMA OneCharacter ==
    ASSUME NEW c \in Characters
    PROVE  <<c>> \in Seq(Characters) /\ Len(<<c>>) = 1 /\ <<c>>[1] = c
OBVIOUS

\* The parts of a directive.
LEMMA PartsOf ==
    ASSUME NEW p, IsPiece(p), ~IsText(p)
    PROVE  /\ p.flags \in Seq(FormatFlags) /\ p.flags \in Seq(Characters)
           /\ p.width \in Seq(Characters)
           /\ p.precision \in Seq(Characters)
           /\ p.length \in Seq(Characters)
           /\ p.type \in Seq(Characters) /\ Len(p.type) \in {0, 1}
           /\ Len(p.flags) \in Nat /\ Len(p.width) \in Nat /\ Len(p.precision) \in Nat
           /\ Len(p.length) \in Nat /\ Len(p.type) \in Nat
<1>1. /\ p.flags \in Seq(FormatFlags)
      /\ p.width = <<"*">> \/ p.width \in Seq(DOMAIN DigitValue)
      /\ p.precision \in Seq(Characters \ {"%", "NUL"})
      /\ p.length \in LengthModifiers
      /\ p.type \in Seq(Characters) /\ Len(p.type) <= 1
  BY DEF IsPiece
<1>2. p.flags \in Seq(Characters)
  <2>1. FormatFlags \subseteq Characters
    BY KnownOnes
  <2> QED  BY <1>1, <2>1, SeqMonotonic
<1>3. p.width \in Seq(Characters)
  <2>1. DOMAIN DigitValue \subseteq Characters
    BY KnownOnes
  <2>2. "*" \in Characters
    BY KnownOnes
  <2>3. <<"*">> \in Seq(Characters)
    BY <2>2, OneCharacter
  <2> QED  BY <1>1, <2>1, <2>3, SeqMonotonic
<1>4. p.precision \in Seq(Characters)
  <2>1. Characters \ {"%", "NUL"} \subseteq Characters
    OBVIOUS
  <2> QED  BY <1>1, <2>1, SeqMonotonic
<1>5. p.length \in Seq(Characters)
  <2>1. \A a, b \in Characters :
            /\ <<>> \in Seq(Characters) /\ <<a>> \in Seq(Characters) /\ <<a, b>> \in Seq(Characters)
    OBVIOUS
  <2>2. "h" \in Characters /\ "l" \in Characters /\ "j" \in Characters /\ "z" \in Characters
        /\ "t" \in Characters /\ "L" \in Characters
    BY KnownOnes
  <2> QED  BY Zenon, <1>1, <2>1, <2>2 DEF LengthModifiers
<1>6. Len(p.type) \in {0, 1}
  <2>1. Len(p.type) \in Nat
    BY <1>1, LenProperties
  <2>2. \A n \in Nat : n <= 1 => n \in {0, 1}
    OBVIOUS
  <2> QED  BY <1>1, <2>1, <2>2
<1>7. \A s \in Seq(Characters) : Len(s) \in Nat
  BY LenProperties
<1> QED  BY Zenon, <1>1, <1>2, <1>3, <1>4, <1>5, <1>6, <1>7

LEMMA Ends ==
    ASSUME NEW p, IsPiece(p), ~IsText(p)
    PROVE  /\ FlagsEnd(p) \in Nat \ {0} /\ WidthEnd(p) \in Nat /\ PrecisionEnd(p) \in Nat
           /\ LengthEnd(p) \in Nat /\ TypeEnd(p) \in {LengthEnd(p), LengthEnd(p) + 1}
           /\ FlagsEnd(p) <= WidthEnd(p) /\ WidthEnd(p) <= PrecisionEnd(p)
           /\ PrecisionEnd(p) <= LengthEnd(p)
<1> DEFINE f == Len(p.flags)  w == Len(p.width)  q == Len(p.precision)  l == Len(p.length)  t == Len(p.type)
<1>1. f \in Nat /\ w \in Nat /\ q \in Nat /\ l \in Nat /\ t \in {0, 1}
  BY PartsOf
<1>2. /\ FlagsEnd(p) = 1 + f /\ WidthEnd(p) = FlagsEnd(p) + w /\ PrecisionEnd(p) = WidthEnd(p) + q
      /\ LengthEnd(p) = PrecisionEnd(p) + l /\ TypeEnd(p) = LengthEnd(p) + t
  BY DEF FlagsEnd, WidthEnd, PrecisionEnd, LengthEnd, TypeEnd
<1> HIDE DEF f, w, q, l, t
<1> QED  BY <1>1, <1>2

LEMMA PartsWritten ==
    ASSUME NEW p, IsPiece(p), ~IsText(p)
    PROVE  /\ Written(p) \in Seq(Characters) /\ Len(Written(p)) = TypeEnd(p)
           /\ Written(p)[1] = "%"
           /\ \A i \in 2 .. FlagsEnd(p) : Written(p)[i] = p.flags[i - 1]
           /\ \A i \in FlagsEnd(p) + 1 .. WidthEnd(p) : Written(p)[i] = p.width[i - FlagsEnd(p)]
           /\ \A i \in WidthEnd(p) + 1 .. PrecisionEnd(p) :
                 Written(p)[i] = p.precision[i - WidthEnd(p)]
           /\ \A i \in PrecisionEnd(p) + 1 .. LengthEnd(p) :
                 Written(p)[i] = p.length[i - PrecisionEnd(p)]
           /\ \A i \in LengthEnd(p) + 1 .. TypeEnd(p) : Written(p)[i] = p.type[i - LengthEnd(p)]
<1> DEFINE w0 == <<"%">>
           w1 == w0 \o p.flags
           w2 == w1 \o p.width
           w3 == w2 \o p.precision
           w4 == w3 \o p.length
           w5 == w4 \o p.type
<1>1. /\ p.flags \in Seq(Characters) /\ p.width \in Seq(Characters) /\ p.precision \in Seq(Characters)
      /\ p.length \in Seq(Characters) /\ p.type \in Seq(Characters)
  BY PartsOf
<1>2. w0 \in Seq(Characters) /\ Len(w0) = 1 /\ w0[1] = "%"
  <2>1. "%" \in Characters
    BY KnownOnes
  <2> QED  BY <2>1, OneCharacter
<1> HIDE DEF w0
<1>3. /\ w1 \in Seq(Characters) /\ Len(w1) = FlagsEnd(p)
      /\ Follows(w1, w0, 1, p.flags, FlagsEnd(p))
  <2>1. /\ w1 \in Seq(Characters) /\ Len(w1) = Len(w0) + Len(p.flags)
        /\ Follows(w1, w0, Len(w0), p.flags, Len(w0) + Len(p.flags))
    BY Zenon, <1>1, <1>2, Joined
  <2>2. Len(w0) = 1
    BY Zenon, <1>2
  <2> QED  BY Zenon, <2>1, <2>2 DEF FlagsEnd
<1> HIDE DEF w1
<1>4. /\ w2 \in Seq(Characters) /\ Len(w2) = WidthEnd(p)
      /\ Follows(w2, w1, FlagsEnd(p), p.width, WidthEnd(p))
  <2>1. /\ w2 \in Seq(Characters) /\ Len(w2) = Len(w1) + Len(p.width)
        /\ Follows(w2, w1, Len(w1), p.width, Len(w1) + Len(p.width))
    BY Zenon, <1>1, <1>3, Joined
  <2>2. Len(w1) = FlagsEnd(p)
    BY Zenon, <1>3
  <2> QED  BY Zenon, <2>1, <2>2 DEF WidthEnd
<1> HIDE DEF w2
<1>5. /\ w3 \in Seq(Characters) /\ Len(w3) = PrecisionEnd(p)
      /\ Follows(w3, w2, WidthEnd(p), p.precision, PrecisionEnd(p))
  <2>1. /\ w3 \in Seq(Characters) /\ Len(w3) = Len(w2) + Len(p.precision)
        /\ Follows(w3, w2, Len(w2), p.precision, Len(w2) + Len(p.precision))
    BY Zenon, <1>1, <1>4, Joined
  <2>2. Len(w2) = WidthEnd(p)
    BY Zenon, <1>4
  <2> QED  BY Zenon, <2>1, <2>2 DEF PrecisionEnd
<1> HIDE DEF w3
<1>6. /\ w4 \in Seq(Characters) /\ Len(w4) = LengthEnd(p)
      /\ Follows(w4, w3, PrecisionEnd(p), p.length, LengthEnd(p))
  <2>1. /\ w4 \in Seq(Characters) /\ Len(w4) = Len(w3) + Len(p.length)
        /\ Follows(w4, w3, Len(w3), p.length, Len(w3) + Len(p.length))
    BY Zenon, <1>1, <1>5, Joined
  <2>2. Len(w3) = PrecisionEnd(p)
    BY Zenon, <1>5
  <2> QED  BY Zenon, <2>1, <2>2 DEF LengthEnd
<1> HIDE DEF w4
<1>7. /\ w5 \in Seq(Characters) /\ Len(w5) = TypeEnd(p)
      /\ Follows(w5, w4, LengthEnd(p), p.type, TypeEnd(p))
  <2>1. /\ w5 \in Seq(Characters) /\ Len(w5) = Len(w4) + Len(p.type)
        /\ Follows(w5, w4, Len(w4), p.type, Len(w4) + Len(p.type))
    BY Zenon, <1>1, <1>6, Joined
  <2>2. Len(w4) = LengthEnd(p)
    BY Zenon, <1>6
  <2> QED  BY Zenon, <2>1, <2>2 DEF TypeEnd
<1> HIDE DEF w5
<1>8. Written(p) = w5
  BY DEF Written, w5, w4, w3, w2, w1, w0
<1>9. /\ w5[1] = w0[1]
      /\ \A i \in 2 .. FlagsEnd(p) : w5[i] = p.flags[i - 1]
      /\ \A i \in FlagsEnd(p) + 1 .. WidthEnd(p) : w5[i] = p.width[i - FlagsEnd(p)]
      /\ \A i \in WidthEnd(p) + 1 .. PrecisionEnd(p) : w5[i] = p.precision[i - WidthEnd(p)]
      /\ \A i \in PrecisionEnd(p) + 1 .. LengthEnd(p) : w5[i] = p.length[i - PrecisionEnd(p)]
      /\ \A i \in LengthEnd(p) + 1 .. TypeEnd(p) : w5[i] = p.type[i - LengthEnd(p)]
  <2> DEFINE a == FlagsEnd(p)  b == WidthEnd(p)  c == PrecisionEnd(p)  d == LengthEnd(p)  e == TypeEnd(p)
  <2>1. /\ a \in Nat \ {0} /\ b \in Nat /\ c \in Nat /\ d \in Nat /\ e \in Nat
        /\ a <= b /\ b <= c /\ c <= d /\ d <= e
    BY Ends
  <2>2. /\ Follows(w1, w0, 1, p.flags, a) /\ Follows(w2, w1, a, p.width, b)
        /\ Follows(w3, w2, b, p.precision, c) /\ Follows(w4, w3, c, p.length, d)
        /\ Follows(w5, w4, d, p.type, e)
    BY <1>3, <1>4, <1>5, <1>6, <1>7
  <2> HIDE DEF a, b, c, d, e
  <2>3. w1[1] = w0[1] /\ \A i \in 2 .. a : w1[i] = p.flags[i - 1]
    BY <2>1, <2>2 DEF Follows
  <2>4. (\A i \in 1 .. a : w2[i] = w1[i]) /\ \A i \in a + 1 .. b : w2[i] = p.width[i - a]
    BY <2>2 DEF Follows
  <2>5. (\A i \in 1 .. b : w3[i] = w2[i]) /\ \A i \in b + 1 .. c : w3[i] = p.precision[i - b]
    BY <2>2 DEF Follows
  <2>6. (\A i \in 1 .. c : w4[i] = w3[i]) /\ \A i \in c + 1 .. d : w4[i] = p.length[i - c]
    BY <2>2 DEF Follows
  <2>7. (\A i \in 1 .. d : w5[i] = w4[i]) /\ \A i \in d + 1 .. e : w5[i] = p.type[i - d]
    BY <2>2 DEF Follows
  <2>8. w5[1] = w0[1]
    BY <2>1, <2>3, <2>4, <2>5, <2>6, <2>7
  <2>9. \A i \in 2 .. a : w5[i] = p.flags[i - 1]
    BY <2>1, <2>3, <2>4, <2>5, <2>6, <2>7
  <2>10. \A i \in a + 1 .. b : w5[i] = p.width[i - a]
    BY <2>1, <2>4, <2>5, <2>6, <2>7
  <2>11. \A i \in b + 1 .. c : w5[i] = p.precision[i - b]
    BY <2>1, <2>5, <2>6, <2>7
  <2>12. \A i \in c + 1 .. d : w5[i] = p.length[i - c]
    BY <2>1, <2>6, <2>7
  <2> QED  BY Zenon, <2>7, <2>8, <2>9, <2>10, <2>11, <2>12 DEF a, b, c, d, e
<1> QED  BY Zenon, <1>2, <1>7, <1>8, <1>9

LEMMA WrittenIsText ==
    ASSUME NEW p, IsPiece(p)
    PROVE  Written(p) \in Seq(Characters) /\ Len(Written(p)) \in Nat \ {0}
<1>1. CASE IsText(p)
  <2>1. p.char \in Characters /\ Written(p) = <<p.char>>
    BY <1>1 DEF IsPiece, Written
  <2> QED  BY <2>1, OneCharacter
<1>2. CASE ~IsText(p)
  <2>1. Written(p) \in Seq(Characters) /\ Len(Written(p)) = TypeEnd(p)
    BY <1>2, PartsWritten
  <2>2. TypeEnd(p) \in Nat \ {0}
    BY <1>2, Ends
  <2> QED  BY <2>1, <2>2
<1> QED  BY <1>1, <1>2

\* The characters of a format, piece after piece.
LEMMA CharsUnfold ==
    ASSUME NEW f \in Formats
    PROVE  /\ CharsOf(f) \in [0 .. Len(f) -> Seq(Characters)]
           /\ CharsOf(f)[0] = <<>>
           /\ \A n \in 1 .. Len(f) : CharsOf(f)[n] = CharsOf(f)[n - 1] \o Written(f[n])
<1> DEFINE N == Len(f)
           V == Seq(Characters)
           ValueAt(c, n) == IF n = 0 THEN <<>> ELSE c[n - 1] \o Written(f[n])
           step == [x \in V \X (1 .. N) |-> x[1] \o Written(f[x[2]])]
           c == CharsOf(f)
<1>1. N \in Nat /\ \A n \in 1 .. N : Written(f[n]) \in V
  BY Pieces, WrittenIsText
<1>2. c = CHOOSE g : g = [n \in 0 .. N |-> ValueAt(g, n)]
  BY DEF CharsOf
<1>3. \A s, t \in V : s \o t \in V
  BY Joined
<1>4. <<>> \in V
  OBVIOUS
<1> HIDE DEF V
<1>5. step \in [V \X (1 .. N) -> V]
  <2>1. ASSUME NEW x \in V \X (1 .. N) PROVE x[1] \o Written(f[x[2]]) \in V
    BY <1>1, <1>3
  <2> HIDE DEF N
  <2> QED  BY <2>1
<1>6. PICK g \in [0 .. N -> V] : Recurs(g, N, <<>>, step)
  <2> HIDE DEF N, step
  <2> QED  BY <1>1, <1>4, <1>5, Recursion
<1>7. g = [n \in 0 .. N |-> ValueAt(g, n)]
  <2>1. g[0] = <<>> /\ \A n \in 1 .. N : g[n] = step[<<g[n - 1], n>>]
    BY <1>6 DEF Recurs
  <2>2. ASSUME NEW n \in 1 .. N PROVE step[<<g[n - 1], n>>] = g[n - 1] \o Written(f[n])
    <3>1. n - 1 \in 0 .. N
      BY <1>1
    <3>2. <<g[n - 1], n>> \in V \X (1 .. N)
      BY <3>1
    <3> HIDE DEF N
    <3> QED  BY <3>2
  <2>3. ASSUME NEW n \in 0 .. N PROVE g[n] = ValueAt(g, n)
    <3>1. n = 0 \/ n \in 1 .. N
      BY <1>1
    <3>2. n = 0 => g[n] = ValueAt(g, n)
      BY <2>1
    <3>3. ASSUME n \in 1 .. N PROVE g[n] = ValueAt(g, n)
      <4>1. step[<<g[n - 1], n>>] = g[n - 1] \o Written(f[n])
        BY <2>2, <3>3
      <4>2. g[n] = step[<<g[n - 1], n>>]
        BY Zenon, <2>1, <3>3
      <4>3. n # 0
        BY <1>1, <3>3
      <4> QED  BY Zenon, <4>1, <4>2, <4>3
    <3> QED  BY <3>1, <3>2, <3>3
  <2> HIDE DEF ValueAt
  <2> QED  BY <2>3
<1>8. c = [n \in 0 .. N |-> ValueAt(c, n)]
  <2> HIDE DEF ValueAt, N, c
  <2> QED  BY <1>2, <1>7
<1> DEFINE T == {n \in 0 .. N : c[n] \in V}
<1> HIDE DEF c
<1>9. c[0] = <<>> /\ \A n \in 1 .. N : c[n] = c[n - 1] \o Written(f[n])
  <2>1. 0 \in 0 .. N
    BY <1>1
  <2>2. ASSUME NEW n \in 1 .. N PROVE n \in 0 .. N /\ n # 0
    BY <1>1
  <2> HIDE DEF N
  <2> QED  BY <1>8, <2>1, <2>2
<1>10. 0 .. N \subseteq T
  <2>1. 0 \in T
    BY <1>1, <1>4, <1>9
  <2>2. ASSUME NEW n \in 1 .. N, n - 1 \in T PROVE n \in T
    <3>1. n \in 0 .. N /\ c[n - 1] \in V
      BY <1>1, <2>2
    <3>2. c[n] \in V
      BY <1>1, <1>3, <1>9, <3>1
    <3> QED  BY <3>1, <3>2
  <2> HIDE DEF T, N
  <2> QED  BY <1>1, <2>1, <2>2, Induction
<1>11. c \in [0 .. N -> V]
  BY <1>8, <1>10
<1> QED  BY <1>9, <1>11 DEF c, V

Marks == [fmt : Nat \ {0}, args : Nat \ {0}]

LEMMA SlotsTyped ==
    ASSUME NEW p
    PROVE  Slots(p) \in Nat /\ StarSlots(p) \in {0, 1}
BY DEF Slots, StarSlots

LEMMA AfterUnfolds ==
    ASSUME format \in Formats
    PROVE  /\ After \in [0 .. Len(format) -> Marks]
           /\ After[0].fmt = 1 /\ After[0].args = 1
           /\ \A n \in 1 .. Len(format) :
                 /\ After[n].fmt = After[n - 1].fmt + Len(Written(format[n]))
                 /\ After[n].args = After[n - 1].args + Slots(format[n])
<1> DEFINE N == Len(format)
           V == Marks
           start == [fmt |-> 1, args |-> 1]
           Step(a, n) == [fmt  |-> a.fmt + Len(Written(format[n])),
                          args |-> a.args + Slots(format[n])]
           ValueAt(a, n) == IF n = 0 THEN start ELSE Step(a[n - 1], n)
           step == [x \in V \X (1 .. N) |-> Step(x[1], x[2])]
           a == After
<1>1. N \in Nat /\ \A n \in 1 .. N : Len(Written(format[n])) \in Nat /\ Slots(format[n]) \in Nat
  BY Pieces, WrittenIsText, SlotsTyped
<1>2. a = CHOOSE g : g = [n \in 0 .. N |-> ValueAt(g, n)]
  BY DEF After
<1>3. ASSUME NEW x \in V, NEW n \in 1 .. N PROVE Step(x, n) \in V
  <2>1. ASSUME NEW l \in Nat, NEW s \in Nat
        PROVE  [fmt |-> x.fmt + l, args |-> x.args + s] \in V
    BY DEF Marks
  <2> QED  BY <1>1, <2>1
<1>4. start \in V
  BY DEF Marks
<1> HIDE DEF V, Step
<1>5. step \in [V \X (1 .. N) -> V]
  <2>1. ASSUME NEW x \in V \X (1 .. N) PROVE Step(x[1], x[2]) \in V
    BY <1>3
  <2> HIDE DEF N
  <2> QED  BY <2>1
<1>6. PICK g \in [0 .. N -> V] : Recurs(g, N, start, step)
  <2> HIDE DEF N, step, start
  <2> QED  BY <1>1, <1>4, <1>5, Recursion
<1>7. g = [n \in 0 .. N |-> ValueAt(g, n)]
  <2>1. g[0] = start /\ \A n \in 1 .. N : g[n] = step[<<g[n - 1], n>>]
    BY <1>6 DEF Recurs
  <2>2. ASSUME NEW n \in 1 .. N PROVE step[<<g[n - 1], n>>] = Step(g[n - 1], n)
    <3>1. n - 1 \in 0 .. N
      BY <1>1
    <3>2. <<g[n - 1], n>> \in V \X (1 .. N)
      BY <3>1
    <3> HIDE DEF N
    <3> QED  BY <3>2
  <2>3. ASSUME NEW n \in 0 .. N PROVE g[n] = ValueAt(g, n)
    <3>1. n = 0 \/ n \in 1 .. N
      BY <1>1
    <3>2. n = 0 => g[n] = ValueAt(g, n)
      BY <2>1
    <3>3. ASSUME n \in 1 .. N PROVE g[n] = ValueAt(g, n)
      <4>1. step[<<g[n - 1], n>>] = Step(g[n - 1], n)
        BY <2>2, <3>3
      <4>2. g[n] = step[<<g[n - 1], n>>]
        BY Zenon, <2>1, <3>3
      <4>3. n # 0
        BY <1>1, <3>3
      <4> QED  BY Zenon, <4>1, <4>2, <4>3
    <3> QED  BY <3>1, <3>2, <3>3
  <2> HIDE DEF ValueAt
  <2> QED  BY <2>3
<1>8. a = [n \in 0 .. N |-> ValueAt(a, n)]
  <2> HIDE DEF ValueAt, N, a
  <2> QED  BY <1>2, <1>7
<1> DEFINE T == {n \in 0 .. N : a[n] \in V}
<1> HIDE DEF a
<1>9. a[0] = start /\ \A n \in 1 .. N : a[n] = Step(a[n - 1], n)
  <2>1. 0 \in 0 .. N
    BY <1>1
  <2>2. ASSUME NEW n \in 1 .. N PROVE n \in 0 .. N /\ n # 0
    BY <1>1
  <2> HIDE DEF N
  <2> QED  BY <1>8, <2>1, <2>2
<1>10. 0 .. N \subseteq T
  <2>1. 0 \in T
    BY <1>1, <1>4, <1>9
  <2>2. ASSUME NEW n \in 1 .. N, n - 1 \in T PROVE n \in T
    <3>1. n \in 0 .. N /\ a[n - 1] \in V
      BY <1>1, <2>2
    <3>2. a[n] \in V
      BY <1>3, <1>9, <3>1
    <3> QED  BY <3>1, <3>2
  <2> HIDE DEF T, N
  <2> QED  BY <1>1, <2>1, <2>2, Induction
<1>11. a \in [0 .. N -> V]
  BY <1>8, <1>10
<1>12. a[0].fmt = 1 /\ a[0].args = 1
  BY <1>9
<1>13. \A n \in 1 .. N : /\ a[n].fmt = a[n - 1].fmt + Len(Written(format[n]))
                         /\ a[n].args = a[n - 1].args + Slots(format[n])
  <2> TAKE n \in 1 .. N
  <2> DEFINE x == a[n - 1].fmt + Len(Written(format[n]))
             y == a[n - 1].args + Slots(format[n])
  <2>1. a[n] = [fmt |-> x, args |-> y]
    BY Zenon, <1>9 DEF Step
  <2> HIDE DEF x, y
  <2>2. a[n].fmt = x /\ a[n].args = y
    BY <2>1
  <2> QED  BY <2>2 DEF x, y
<1> QED  BY <1>11, <1>12, <1>13 DEF a, V

\* The pieces lie one behind the other.
LEMMA MarksAscend ==
    ASSUME format \in Formats
    PROVE  /\ \A n \in 0 .. Len(format) : After[n].fmt \in Nat \ {0} /\ After[n].args \in Nat \ {0}
           /\ \A n \in 1 .. Len(format) : After[n - 1].fmt < After[n].fmt
           /\ \A m \in 0 .. Len(format) : \A n \in 0 .. m : After[n].fmt <= After[m].fmt
<1> DEFINE N == Len(format)
           T == {m \in 0 .. N : \A n \in 0 .. m : After[n].fmt <= After[m].fmt}
<1>1. /\ N \in Nat
      /\ \A n \in 0 .. N : After[n].fmt \in Nat \ {0} /\ After[n].args \in Nat \ {0}
  BY Pieces, AfterUnfolds DEF Marks
<1>2. \A n \in 1 .. N : After[n - 1].fmt < After[n].fmt
  <2> TAKE n \in 1 .. N
  <2>1. Len(Written(format[n])) \in Nat \ {0}
    BY Pieces, WrittenIsText
  <2>2. n - 1 \in 0 .. N /\ n \in 0 .. N
    BY <1>1
  <2>3. After[n].fmt = After[n - 1].fmt + Len(Written(format[n]))
    BY AfterUnfolds
  <2>4. \A x, y \in Nat \ {0} : x < x + y
    OBVIOUS
  <2> QED  BY <1>1, <2>1, <2>2, <2>3, <2>4
<1>3. 0 .. N \subseteq T
  <2>1. 0 \in T
    BY <1>1
  <2>2. ASSUME NEW m \in 1 .. N, m - 1 \in T PROVE m \in T
    <3>1. m \in 0 .. N /\ \A n \in 0 .. m - 1 : After[n].fmt <= After[m - 1].fmt
      BY <1>1, <2>2
    <3>2. ASSUME NEW n \in 0 .. m PROVE After[n].fmt <= After[m].fmt
      <4>1. n \in 0 .. N /\ m - 1 \in 0 .. N
        BY <1>1, <3>1
      <4>2. /\ After[n].fmt \in Nat /\ After[m].fmt \in Nat /\ After[m - 1].fmt \in Nat
            /\ After[m - 1].fmt < After[m].fmt
        BY <1>1, <1>2, <3>1, <4>1
      <4>3. CASE n = m
        BY <4>2, <4>3
      <4>4. CASE n # m
        <5>1. After[n].fmt <= After[m - 1].fmt
          BY <3>1, <4>4
        <5> QED  BY <4>2, <5>1
      <4> QED  BY <4>3, <4>4
    <3> QED  BY <3>1, <3>2
  <2> HIDE DEF N, T
  <2> QED  BY <1>1, <2>1, <2>2, Induction
<1> QED  BY <1>1, <1>2, <1>3

\* The characters of the pieces.
LEMMA CharsOfPieces ==
    ASSUME format \in Formats
    PROVE  \A m \in 0 .. Len(format) :
               /\ CharsOf(format)[m] \in Seq(Characters)
               /\ Len(CharsOf(format)[m]) = After[m].fmt - 1
               /\ \A n \in 1 .. m : \A i \in After[n - 1].fmt .. After[n].fmt - 1 :
                     CharsOf(format)[m][i] = Written(format[n])[i - (After[n - 1].fmt - 1)]
<1> DEFINE N == Len(format)
           c == CharsOf(format)
           Same(m, n) == \A i \in After[n - 1].fmt .. After[n].fmt - 1 :
                            c[m][i] = Written(format[n])[i - (After[n - 1].fmt - 1)]
           T == {m \in 0 .. N : Len(c[m]) = After[m].fmt - 1 /\ \A n \in 1 .. m : Same(m, n)}
<1>1. N \in Nat
  BY Pieces
<1>2. /\ \A n \in 0 .. N : c[n] \in Seq(Characters)
      /\ c[0] = <<>> /\ \A n \in 1 .. N : c[n] = c[n - 1] \o Written(format[n])
  BY CharsUnfold
<1> HIDE DEF c, Same
<1>3. 0 \in T
  <2>1. Len(<<>>) = 0 /\ 0 \in 0 .. N
    BY <1>1
  <2>2. \A n \in 1 .. 0 : Same(0, n)
    OBVIOUS
  <2>3. After[0].fmt = 1
    BY AfterUnfolds
  <2> QED  BY <1>2, <2>1, <2>2, <2>3
<1>4. ASSUME NEW m \in 1 .. N, m - 1 \in T PROVE m \in T
  <2> DEFINE a == After[m - 1].fmt
             b == After[m].fmt
             w == Written(format[m])
             s == c[m - 1]
             t == c[m]
  <2>1. m - 1 \in 0 .. N /\ m \in 0 .. N
    BY <1>1
  <2>2. /\ a \in Nat \ {0} /\ b \in Nat \ {0} /\ a < b
        /\ \A n \in 0 .. m - 1 : After[n].fmt \in Nat \ {0} /\ After[n].fmt <= a
    <3>1. \A n \in 0 .. m - 1 : n \in 0 .. N
      BY <1>1
    <3> QED  BY <2>1, <3>1, MarksAscend
  <2>3. w \in Seq(Characters) /\ b = a + Len(w)
    BY Pieces, WrittenIsText, AfterUnfolds
  <2>4. s \in Seq(Characters) /\ t = s \o w
    BY <1>2, <2>1
  <2>5. Len(s) = a - 1 /\ \A n \in 1 .. m - 1 : Same(m - 1, n)
    BY <1>4
  <2> HIDE DEF a, b, w, s, t
  <2>6. Len(t) = Len(s) + Len(w) /\ Follows(t, s, Len(s), w, Len(s) + Len(w))
    BY Zenon, <2>3, <2>4, Joined
  <2>7. Len(s) + Len(w) = b - 1
    <3>1. Len(w) \in Nat
      BY <2>3, LenProperties
    <3> QED  BY <2>2, <2>3, <2>5, <3>1
  <2>8. Len(t) = b - 1 /\ Follows(t, s, a - 1, w, b - 1)
    BY Zenon, <2>5, <2>6, <2>7
  <2>9. (\A i \in 1 .. a - 1 : t[i] = s[i]) /\ \A i \in a .. b - 1 : t[i] = w[i - (a - 1)]
    <3> DEFINE k == a - 1
    <3>1. k \in Nat /\ a = k + 1
      BY <2>2
    <3>2. Follows(t, s, k, w, b - 1)
      BY <2>8
    <3> HIDE DEF k
    <3>3. (\A i \in 1 .. k : t[i] = s[i]) /\ \A i \in k + 1 .. b - 1 : t[i] = w[i - k]
      BY <3>2 DEF Follows
    <3>4. a - 1 = k
      BY <3>1
    <3> QED  BY Zenon, <3>1, <3>3, <3>4
  <2>10. ASSUME NEW n \in 1 .. m - 1 PROVE Same(m, n)
    <3>1. Same(m - 1, n)
      BY <2>5
    <3>2. n \in 0 .. m - 1 /\ n - 1 \in 0 .. m - 1
      BY <1>1
    <3>3. /\ After[n].fmt \in Nat \ {0} /\ After[n - 1].fmt \in Nat \ {0}
          /\ After[n].fmt <= a
      BY <2>2, <3>2
    <3>4. ASSUME NEW i \in After[n - 1].fmt .. After[n].fmt - 1 PROVE t[i] = s[i]
      BY <2>2, <2>9, <3>3
    <3> QED  BY <3>1, <3>4 DEF Same, s, t
  <2>11. Same(m, m)
    BY <2>9 DEF Same, a, b, w, t
  <2>12. \A n \in 1 .. m : n = m \/ n \in 1 .. m - 1
    BY <1>1
  <2> QED  BY <2>1, <2>8, <2>10, <2>11, <2>12 DEF b, t
<1>5. 0 .. N \subseteq T
  <2> HIDE DEF T, N
  <2> QED  BY <1>1, <1>3, <1>4, Induction
<1> QED  BY <1>2, <1>5 DEF Same, c

LEMMA TextBehind ==
    /\ Behind \in Seq(Characters) /\ Len(Behind) \in Nat \ {0}
    /\ Behind[Len(Behind)] = "NUL"
    /\ Len(Behind) > 1 => Behind[Len(Behind) - 1] = "NUL"
<1>1. /\ Behind \in Seq(Characters) /\ Behind # <<>>
      /\ Behind[Len(Behind)] = "NUL"
      /\ Len(Behind) > 1 => Behind[Len(Behind) - 1] = "NUL"
  BY FormatAssumption
<1>2. Len(Behind) \in Nat \ {0}
  BY <1>1, EmptySeq
<1> QED  BY <1>1, <1>2

\* Memory: the pieces, a terminator, and two at its end.
LEMMA Memory ==
    ASSUME format \in Formats, memory = InMemory(format)
    PROVE  /\ memory \in Seq(Characters)
           /\ Len(memory) \in Nat \ {0} /\ Terminator \in Nat \ {0} /\ Terminator < Len(memory)
           /\ memory[Terminator] = "NUL"
           /\ memory[Len(memory)] = "NUL" /\ memory[Len(memory) - 1] = "NUL"
           /\ \A n \in 1 .. Len(format) : \A i \in After[n - 1].fmt .. After[n].fmt - 1 :
                 memory[i] = Written(format[n])[i - (After[n - 1].fmt - 1)]
<1> DEFINE N == Len(format)
           c == CharsOf(format)[N]
           z == <<"NUL">>
           u == c \o z
           k == After[N].fmt - 1
           l == Len(Behind)
<1>1. N \in Nat /\ N \in 0 .. N
  BY Pieces
<1>2. k \in Nat /\ Terminator = k + 1
  <2>1. After[N].fmt \in Nat \ {0}
    BY <1>1, MarksAscend
  <2> QED  BY <2>1 DEF Terminator
<1>3. /\ c \in Seq(Characters) /\ Len(c) = k
      /\ \A n \in 1 .. N : \A i \in After[n - 1].fmt .. After[n].fmt - 1 :
            c[i] = Written(format[n])[i - (After[n - 1].fmt - 1)]
  BY <1>1, CharsOfPieces
<1>4. z \in Seq(Characters) /\ Len(z) = 1 /\ z[1] = "NUL"
  <2>1. "NUL" \in Characters
    BY KnownOnes
  <2> QED  BY <2>1, OneCharacter
<1>5. memory = u \o Behind
  BY DEF InMemory
<1>6. \A n \in 1 .. N : \A i \in After[n - 1].fmt .. After[n].fmt - 1 : i \in 1 .. k
  <2> SUFFICES ASSUME NEW n \in 1 .. N, NEW i \in After[n - 1].fmt .. After[n].fmt - 1
               PROVE  i \in 1 .. k
    OBVIOUS
  <2>1. n - 1 \in 0 .. N /\ n \in 0 .. N
    BY <1>1
  <2>2. After[n - 1].fmt \in Nat \ {0} /\ After[n].fmt \in Nat \ {0} /\ After[n].fmt <= After[N].fmt
    BY <1>1, <2>1, MarksAscend
  <2>3. After[N].fmt = k + 1
    BY <1>2 DEF Terminator
  <2> HIDE DEF k, N
  <2> QED  BY <1>2, <2>2, <2>3
<1> HIDE DEF N, c, z, k
<1>7. u \in Seq(Characters) /\ Len(u) = k + 1 /\ Follows(u, c, k, z, k + 1)
  BY Zenon, <1>3, <1>4, Joined
<1> HIDE DEF u
<1>8. l \in Nat \ {0} /\ Behind[l] = "NUL" /\ (l > 1 => Behind[l - 1] = "NUL")
  BY TextBehind
<1>9. /\ memory \in Seq(Characters) /\ Len(memory) = (k + 1) + l
      /\ Follows(memory, u, k + 1, Behind, (k + 1) + l)
  BY Zenon, <1>5, <1>7, TextBehind, Joined
<1> HIDE DEF l
<1>10. (\A i \in 1 .. k : u[i] = c[i]) /\ u[k + 1] = "NUL"
  <2>1. \A i \in k + 1 .. k + 1 : u[i] = z[i - k]
    BY Zenon, <1>7 DEF Follows
  <2>2. k + 1 \in k + 1 .. k + 1 /\ (k + 1) - k = 1
    BY <1>2
  <2>3. u[k + 1] = z[1]
    BY <2>1, <2>2
  <2> QED  BY Zenon, <1>4, <1>7, <2>3 DEF Follows
<1>11. /\ \A i \in 1 .. k + 1 : memory[i] = u[i]
       /\ \A i \in k + 2 .. k + 1 + l : memory[i] = Behind[i - (k + 1)]
  <2>1. /\ \A i \in 1 .. k + 1 : memory[i] = u[i]
        /\ \A i \in (k + 1) + 1 .. (k + 1) + l : memory[i] = Behind[i - (k + 1)]
    BY Zenon, <1>9 DEF Follows
  <2>2. (k + 1) + 1 = k + 2
    BY <1>2
  <2> QED  BY Zenon, <2>1, <2>2
<1>12. memory[k + 1] = "NUL"
  <2>1. k + 1 \in 1 .. k + 1
    BY <1>2
  <2> QED  BY <1>10, <1>11, <2>1
<1>13. memory[k + 1 + l] = "NUL"
  <2>1. k + 1 + l \in k + 2 .. k + 1 + l /\ (k + 1 + l) - (k + 1) = l
    BY <1>2, <1>8
  <2> QED  BY <1>8, <1>11, <2>1
<1>14. memory[(k + 1 + l) - 1] = "NUL"
  <2>1. CASE l = 1
    <3>1. (k + 1 + l) - 1 = k + 1
      BY <1>2, <2>1
    <3> QED  BY <1>12, <3>1
  <2>2. CASE l # 1
    <3>1. (k + 1 + l) - 1 \in k + 2 .. k + 1 + l /\ ((k + 1 + l) - 1) - (k + 1) = l - 1 /\ l > 1
      BY <1>2, <1>8, <2>2
    <3> QED  BY <1>8, <1>11, <3>1
  <2> QED  BY <2>1, <2>2
<1>15. \A n \in 1 .. N : \A i \in After[n - 1].fmt .. After[n].fmt - 1 :
           memory[i] = Written(format[n])[i - (After[n - 1].fmt - 1)]
  <2>1. \A i \in 1 .. k : i \in 1 .. k + 1
    BY <1>2
  <2> QED  BY Zenon, <1>3, <1>6, <1>10, <1>11, <2>1
<1>16. Len(memory) = k + 1 + l /\ k + 1 + l \in Nat \ {0} /\ k + 1 < k + 1 + l
  BY <1>2, <1>8, <1>9
<1>17. memory[Len(memory)] = "NUL" /\ memory[Len(memory) - 1] = "NUL"
  <2> DEFINE e == k + 1 + l
  <2>1. memory[e] = "NUL" /\ memory[e - 1] = "NUL"
    BY Zenon, <1>13, <1>14
  <2>2. Len(memory) = e
    BY Zenon, <1>16
  <2> HIDE DEF e
  <2> QED  BY Zenon, <2>1, <2>2
<1>18. Len(memory) \in Nat \ {0} /\ Terminator \in Nat \ {0} /\ Terminator < Len(memory)
  BY <1>2, <1>16
<1>19. memory[Terminator] = "NUL"
  BY Zenon, <1>2, <1>12
<1> QED  BY Zenon, <1>9, <1>15, <1>17, <1>18, <1>19 DEF N

LEMMA Stack ==
    ASSUME stack \in Stacks, format \in Formats, memory = InMemory(format)
    PROVE  /\ stack \in Seq(0 .. IntLimit - 1) /\ Len(stack) \in Nat /\ Len(memory) <= Len(stack)
           /\ \A k \in 1 .. Len(stack) : stack[k] \in 0 .. IntLimit - 1
<1>1. stack \in Seq(0 .. IntLimit - 1) /\ Len(memory) <= Len(stack)
  BY FormatAssumption
<1>2. Len(stack) \in Nat /\ \A k \in 1 .. Len(stack) : stack[k] \in 0 .. IntLimit - 1
  BY <1>1, LenProperties, ElementOfSeq
<1> QED  BY <1>1, <1>2

-----------------------------------------------------------------------------
(***************************************************************************)
(* What a directive prints, and how many digits.                           *)
(***************************************************************************)
LEMMA IntsTyped ==
    ASSUME NEW n \in Int
    PROVE  ToInt(n) \in Int
<1>1. IntLimit \in Nat \ {0}
  BY Limits
<1> HIDE DEF IntLimit
<1>2. n % IntLimit \in Int
  BY <1>1
<1>3. \A m \in Int : (IF 2 * m >= IntLimit THEN m - IntLimit ELSE m) \in Int
  BY <1>1
<1> QED  BY <1>2, <1>3 DEF ToInt, ToSigned

\* A number of a width, and its amount.
LEMMA SignedTyped ==
    ASSUME NEW limit \in Nat \ {0}, NEW m \in 0 .. limit - 1
    PROVE  /\ ToSigned(m, limit) \in Int
           /\ (IF ToSigned(m, limit) < 0 THEN -ToSigned(m, limit) ELSE ToSigned(m, limit)) \in 0 .. m
<1>1. m % limit = m
  OBVIOUS
<1>2. ToSigned(m, limit) = IF 2 * m >= limit THEN m - limit ELSE m
  BY <1>1 DEF ToSigned
<1>3. CASE 2 * m >= limit
  <2>1. ToSigned(m, limit) = m - limit
    BY <1>2, <1>3
  <2> QED  BY <1>3, <2>1
<1>4. CASE ~(2 * m >= limit)
  <2>1. ToSigned(m, limit) = m
    BY <1>2, <1>4
  <2> QED  BY <2>1
<1> QED  BY <1>3, <1>4

LEMMA NumbersTyped ==
    ASSUME InputInv, NEW width \in Widths, NEW at \in Nat \ {0}, at + SlotsOf(width) <= Len(stack)
    PROVE  /\ stack[at] \in 0 .. IntLimit - 1
           /\ read_unsigned(width, at) \in 0 .. MaxLimit - 1
           /\ read_signed(width, at) \in Int
           /\ (IF read_signed(width, at) < 0 THEN -read_signed(width, at)
               ELSE read_signed(width, at)) \in 0 .. MaxLimit - 1
<1> DEFINE I == IntLimit
           M == MaxLimit
           L == LimitOf(width)
           S == SlotsOf(width)
           x == IF S = 2 THEN stack[at] + I * stack[at + 1] ELSE stack[at]
           r == read_unsigned(width, at)
           z == read_signed(width, at)
<1>1. S \in {1, 2}
  BY DEF SlotsOf
<1>2. I \in Nat \ {0} /\ M \in Nat \ {0} /\ I <= M
  BY Limits
<1>3. L \in Nat \ {0}
  BY Limits DEF LimitOf
<1>4. Len(stack) \in Nat /\ \A k \in 1 .. Len(stack) : stack[k] \in 0 .. I - 1
  BY Stack DEF InputInv
<1>5. at \in 1 .. Len(stack) /\ (S = 2 => at + 1 \in 1 .. Len(stack))
  <2>1. \A n \in Nat : \A s \in {1, 2} : at + s <= n => at \in 1 .. n /\ (s = 2 => at + 1 \in 1 .. n)
    OBVIOUS
  <2> QED  BY Zenon, <1>1, <1>4, <2>1
<1>6. stack[at] \in 0 .. I - 1 /\ (S = 2 => stack[at + 1] \in 0 .. I - 1)
  BY <1>4, <1>5
<1>7. x \in 0 .. M - 1
  <2>1. CASE S = 2
    <3>1. M = I * I
      BY DEF MaxLimit
    <3> HIDE DEF I, M
    <3>2. ASSUME NEW a \in 0 .. I - 1, NEW b \in 0 .. I - 1 PROVE a + I * b \in 0 .. (I * I) - 1
      <4>1. I * b \in Nat /\ I * b <= I * (I - 1) /\ I * (I - 1) = (I * I) - I /\ I * I \in Nat
        <5>1. I * b \in Nat /\ I * I \in Nat
          BY <1>2
        <5>2. I * (I - 1) = (I * I) - I
          BY <1>2
        <5>3. I * b <= I * (I - 1)
          BY <1>2
        <5> QED  BY <5>1, <5>2, <5>3
      <4> DEFINE p == I * b
                 q == I * I
      <4>2. p \in Nat /\ p <= q - I /\ q \in Nat
        BY <4>1
      <4> HIDE DEF p, q
      <4>3. a + p \in 0 .. q - 1
        BY <1>2, <4>2
      <4> QED  BY <4>3 DEF p, q
    <3>3. x = stack[at] + I * stack[at + 1]
      BY <2>1
    <3>4. stack[at] \in 0 .. I - 1 /\ stack[at + 1] \in 0 .. I - 1
      BY <1>6, <2>1
    <3>5. stack[at] + I * stack[at + 1] \in 0 .. (I * I) - 1
      BY <3>2, <3>4
    <3> QED  BY <3>1, <3>3, <3>5
  <2>2. CASE S # 2
    <3>1. x = stack[at]
      BY <2>2
    <3> HIDE DEF x, I, M
    <3> QED  BY <1>2, <1>6, <3>1
  <2> QED  BY <2>1, <2>2
<1>8. r = x % L
  BY DEF read_unsigned
<1>9. z = ToSigned(r, L)
  BY DEF read_signed
<1> HIDE DEF I, M, L, S, x, r, z
<1>10. r \in 0 .. L - 1 /\ r <= x
  BY <1>3, <1>7, <1>8, <1>2
<1>11. r \in 0 .. M - 1
  BY <1>2, <1>3, <1>7, <1>10
<1>12. z \in Int /\ (IF z < 0 THEN -z ELSE z) \in 0 .. r
  BY <1>3, <1>9, <1>10, SignedTyped
<1>13. (IF z < 0 THEN -z ELSE z) \in 0 .. M - 1
  <2>1. \A v \in 0 .. r : v \in 0 .. M - 1
    BY <1>2, <1>11
  <2> QED  BY <1>12, <2>1
<1> QED  BY <1>6, <1>11, <1>12, <1>13 DEF I, M, r, z

LEMMA Tables == \A i \in 1 .. 16 : LowerDigits[i] \in Characters /\ UpperDigits[i] \in Characters
<1>1. {"0", "1", "2", "3", "4", "5", "6", "7", "8", "9", "a", "b", "c", "d", "e", "f",
       "A", "B", "C", "D", "E", "F"} \subseteq Characters
  <2>1. {"0", "1", "2", "3", "4", "5", "6", "7", "8", "9", "a", "b", "c", "d", "e", "f",
         "A", "B", "C", "D", "E", "F"} \subseteq KnownCharacters
    BY DigitsAreCharacters DEF KnownCharacters
  <2> QED  BY <2>1, KnownOnes
<1> SUFFICES ASSUME NEW i \in 1 .. 16 PROVE LowerDigits[i] \in Characters /\ UpperDigits[i] \in Characters
  OBVIOUS
<1>2. /\ LowerDigits[i] \in {"0", "1", "2", "3", "4", "5", "6", "7", "8", "9", "a", "b", "c", "d", "e", "f"}
      /\ UpperDigits[i] \in {"0", "1", "2", "3", "4", "5", "6", "7", "8", "9", "A", "B", "C", "D", "E", "F"}
  BY DEF LowerDigits, UpperDigits
<1> QED  BY <1>1, <1>2

\* The digits of a number: as many as the precision says, or as it has.
LEMMA TextOfNumber ==
    ASSUME NEW value \in 0 .. MaxLimit - 1, NEW radix \in Radices, NEW precision \in Nat, NEW s,
           precision <= IntegerBufLen - 3
    PROVE  /\ unsigned_to_string(value, radix, precision, s) \in Seq(Characters)
           /\ Len(unsigned_to_string(value, radix, precision, s)) \in 0 .. IntegerBufLen - 3
<1> DEFINE n == NumDigits(value, radix)
           length == IF n < precision THEN precision ELSE n
           digits == IF s.type = "X" THEN UpperDigits ELSE LowerDigits
           rest == Rest(value, radix)
           At(i) == digits[IF length - i < n THEN 1 + (rest[length - i] % radix) ELSE 1]
           text == [i \in 1 .. length |-> At(i)]
<1>1. n \in 0 .. IntegerBufLen - 3
  BY DigitsFit
<1>2. length \in 0 .. IntegerBufLen - 3
  <2> HIDE DEF n
  <2> QED  BY <1>1, Limits
<1>3. \A i \in 1 .. 16 : digits[i] \in Characters
  BY Tables
<1>4. rest \in [0 .. IntegerBufLen -> Nat]
  <2>1. value \in Nat /\ radix \in Nat \ {0}
    BY Limits DEF Radices
  <2> QED  BY <2>1, RestUnfolds
<1> HIDE DEF n, length, digits, rest
<1>5. ASSUME NEW i \in 1 .. length PROVE At(i) \in Characters
  <2>1. CASE length - i < n
    <3>1. length - i \in 0 .. IntegerBufLen
      BY <1>2, Limits
    <3>2. rest[length - i] \in Nat
      BY <1>4, <3>1
    <3>3. \A m \in Nat : 1 + (m % radix) \in 1 .. 16
      BY DEF Radices
    <3>4. At(i) = digits[1 + (rest[length - i] % radix)]
      BY <2>1
    <3> QED  BY <1>3, <3>2, <3>3, <3>4
  <2>2. CASE ~(length - i < n)
    <3>1. At(i) = digits[1]
      BY <2>2
    <3>2. 1 \in 1 .. 16
      OBVIOUS
    <3> QED  BY <1>3, <3>1, <3>2
  <2> QED  BY <2>1, <2>2
<1>6. text \in Seq(Characters) /\ Len(text) = length
  <2>1. length \in Nat
    BY <1>2, Limits
  <2> HIDE DEF At
  <2> QED  BY <1>5, <2>1
<1>7. unsigned_to_string(value, radix, precision, s) = text
  BY Zenon DEF unsigned_to_string, text, At, n, length, digits, rest
<1> HIDE DEF text
<1> QED  BY Zenon, <1>2, <1>6, <1>7

\* A directive whose argument is on the stack prints fewer digits than the buffer holds.
LEMMA DigitsInBuffer ==
    ASSUME InputInv, NEW s \in Directives, NEW at \in Nat \ {0},
           s.type \notin {"empty", "%"} => at + SlotsOf(s.width) <= Len(stack)
    PROVE  /\ DigitsOf(s, at) \in Seq(Characters)
           /\ Len(DigitsOf(s, at)) \in 0 .. IntegerBufLen - 1
<1>1. s.type \in FormatTypes \union {"empty"} /\ s.width \in Widths /\ s.precisionKind = "default"
  BY DEF Directives
<1>2. get_format_precision(s, 1) = 1
  BY <1>1 DEF get_format_precision
<1>3. <<>> \in Seq(Characters) /\ Len(<<>>) = 0
  OBVIOUS
<1>4. 1 \in Nat /\ 1 <= IntegerBufLen - 3 /\ 1 < IntegerBufLen
  BY Limits
<1> DEFINE Fits(t) == t \in Seq(Characters) /\ Len(t) \in 0 .. IntegerBufLen - 1
<1>5. Fits(<<>>)
  BY <1>3, Limits
<1>6. ASSUME NEW value \in 0 .. MaxLimit - 1, NEW radix \in Radices
      PROVE  Fits(unsigned_to_string(value, radix, 1, s))
  <2>1. /\ unsigned_to_string(value, radix, 1, s) \in Seq(Characters)
        /\ Len(unsigned_to_string(value, radix, 1, s)) \in 0 .. IntegerBufLen - 3
    BY <1>4, TextOfNumber
  <2>2. \A n \in 0 .. IntegerBufLen - 3 : n \in 0 .. IntegerBufLen - 1
    BY Limits
  <2> QED  BY Zenon, <2>1, <2>2
<1> HIDE DEF Fits
<1>7. CASE s.type \in {"empty", "%", "c", "s"}
  <2>1. DigitsOf(s, at) = <<>>
    BY <1>7 DEF DigitsOf
  <2> QED  BY <1>5, <2>1 DEF Fits
<1>8. CASE s.type \notin {"empty", "%", "c", "s"}
  <2> DEFINE value == read_unsigned(s.width, at)
             signed == read_signed(s.width, at)
             amount == IF signed < 0 THEN -signed ELSE signed
  <2>1. /\ stack[at] \in 0 .. IntLimit - 1 /\ value \in 0 .. MaxLimit - 1 /\ amount \in 0 .. MaxLimit - 1
    BY <1>1, <1>8, NumbersTyped
  <2>2. 8 \in Radices /\ 10 \in Radices /\ 16 \in Radices
    BY DEF Radices
  <2>3. CASE s.type = "d"
    <3>1. signed_to_string(signed, 10, 1, s) = unsigned_to_string(amount, 10, 1, s)
      BY <1>4 DEF signed_to_string
    <3> HIDE DEF signed, amount
    <3>2. DigitsOf(s, at) = IF PrintsDecimal(signed, s) THEN signed_to_string(signed, 10, 1, s) ELSE <<>>
      BY <1>2, <2>3 DEF DigitsOf, signed
    <3>3. Fits(unsigned_to_string(amount, 10, 1, s))
      BY <1>6, <2>1, <2>2
    <3> QED  BY <1>5, <3>1, <3>2, <3>3 DEF Fits
  <2> HIDE DEF value, signed, amount
  <2>4. CASE s.type \in {"o", "x", "X", "u"}
    <3>1. \/ DigitsOf(s, at) = <<>>
          \/ \E radix \in Radices : DigitsOf(s, at) = unsigned_to_string(value, radix, 1, s)
      <4>1. CASE s.type = "o"
        <5>1. DigitsOf(s, at) = IF PrintsDecimal(value, s) THEN unsigned_to_string(value, 8, 1, s) ELSE <<>>
          BY <1>2, <4>1 DEF DigitsOf, value
        <5> QED  BY <2>2, <5>1
      <4>2. CASE s.type \in {"x", "X"}
        <5>1. DigitsOf(s, at) = IF PrintsHex(value, s) THEN unsigned_to_string(value, 16, 1, s) ELSE <<>>
          BY <1>2, <4>2 DEF DigitsOf, value
        <5> QED  BY <2>2, <5>1
      <4>3. CASE s.type = "u"
        <5>1. DigitsOf(s, at) = IF PrintsHex(value, s) THEN unsigned_to_string(value, 10, 1, s) ELSE <<>>
          BY <1>2, <4>3 DEF DigitsOf, value
        <5> QED  BY <2>2, <5>1
      <4> QED  BY <2>4, <4>1, <4>2, <4>3
    <3>2. \A radix \in Radices : Fits(unsigned_to_string(value, radix, 1, s))
      BY <1>6, <2>1
    <3> QED  BY <1>5, <3>1, <3>2 DEF Fits
  <2>5. CASE s.type = "p"
    <3> DEFINE x == <<"0", "x">>
               u == unsigned_to_string(stack[at], 16, IntBits \div 4, s)
    <3>1. stack[at] \in 0 .. MaxLimit - 1
      BY <2>1, Limits
    <3>2. IntBits \div 4 \in Nat /\ IntBits \div 4 <= IntegerBufLen - 3
      BY Limits
    <3>3. u \in Seq(Characters) /\ Len(u) \in 0 .. IntegerBufLen - 3
      BY <2>2, <3>1, <3>2, TextOfNumber
    <3>4. x \in Seq(Characters) /\ Len(x) = 2
      <4>1. "0" \in Characters /\ "x" \in Characters
        <5>1. "0" \in KnownCharacters /\ "x" \in KnownCharacters
          BY DigitsAreCharacters DEF KnownCharacters
        <5> QED  BY <5>1, KnownOnes
      <4>2. \A a, b \in Characters : <<a, b>> \in Seq(Characters) /\ Len(<<a, b>>) = 2
        OBVIOUS
      <4> QED  BY Zenon, <4>1, <4>2
    <3>5. DigitsOf(s, at) = x \o u
      BY <2>5 DEF DigitsOf
    <3> HIDE DEF x, u
    <3>6. x \o u \in Seq(Characters) /\ Len(x \o u) = 2 + Len(u)
      BY Zenon, <3>3, <3>4, Joined
    <3>7. \A n \in 0 .. IntegerBufLen - 3 : 2 + n \in 0 .. IntegerBufLen - 1
      BY Limits
    <3> QED  BY Zenon, <3>3, <3>5, <3>6, <3>7
  <2>6. FormatTypes \union {"empty"} =
          {"d", "o", "x", "X", "u", "p"} \union {"empty", "%", "c", "s"}
    BY DEF FormatTypes
  <2>7. s.type = "d" \/ s.type \in {"o", "x", "X", "u"} \/ s.type = "p"
    BY <1>1, <1>8, <2>6
  <2> QED  BY <2>3, <2>4, <2>5, <2>7
<1> QED  BY <1>7, <1>8

LEMMA CharsWritten ==
    ASSUME NEW ch \in Characters, NEW count \in Int
    PROVE  write_chars(ch, count) \in Seq(Characters)
<1>1. CASE count \in Nat
  BY <1>1 DEF write_chars
<1>2. CASE count \notin Nat
  <2>1. 1 .. count = 1 .. 0
    BY <1>2
  <2>2. write_chars(ch, count) = [i \in 1 .. 0 |-> ch]
    BY <2>1 DEF write_chars
  <2> QED  BY <2>2
<1> QED  BY <1>1, <1>2

LEMMA Literals ==
    /\ \A c \in {" ", "0", "+", "-", "x", "X", "%"} : c \in Characters
    /\ \A c \in {" ", "0", "+", "-", "x", "X", "%"} : <<c>> \in Seq(Characters)
    /\ <<"0", "x">> \in Seq(Characters) /\ <<"0", "X">> \in Seq(Characters)
    /\ <<>> \in Seq(Characters)
<1>1. \A c \in {" ", "0", "+", "-", "x", "X", "%"} : c \in Characters
  <2>1. \A c \in {" ", "0", "+", "-", "x", "X", "%"} : c \in KnownCharacters
    BY DigitsAreCharacters DEF KnownCharacters, FormatFlags
  <2> QED  BY <2>1, KnownOnes
<1>2. \A a, b \in Characters : <<a>> \in Seq(Characters) /\ <<a, b>> \in Seq(Characters)
  OBVIOUS
<1>3. <<>> \in Seq(Characters)
  OBVIOUS
<1> QED  BY Zenon, <1>1, <1>2, <1>3

LEMMA JustifiedTyped ==
    ASSUME NEW s \in Directives, NEW prefix \in Seq(Characters), NEW digits \in Seq(Characters), NEW blanks
    PROVE  Justified(s, prefix, digits, blanks) \in Seq(Characters)
<1> DEFINE padSize == ToInt(get_format_padding(s) - Len(digits) - Len(prefix))
           V == Seq(Characters)
<1>1. padSize \in Int
  <2>1. get_format_padding(s) \in Int
    BY DEF Directives, get_format_padding
  <2>2. Len(digits) \in Nat /\ Len(prefix) \in Nat
    BY LenProperties
  <2>3. \A a \in Int : \A b, c \in Nat : a - b - c \in Int
    OBVIOUS
  <2> QED  BY Zenon, <2>1, <2>2, <2>3, IntsTyped
<1>2. \A n \in Int : write_chars("0", n) \in V /\ write_chars(" ", n) \in V
  BY Literals, CharsWritten
<1>3. \A t, u \in V : t \o u \in V
  BY Joined
<1>4. 1 \in Int
  OBVIOUS
<1> HIDE DEF V, padSize
<1>5. prefix \in V /\ digits \in V
  BY DEF V
<1>6. \A t \in V : prefix \o t \o digits \in V /\ t \o prefix \o digits \in V /\ prefix \o digits \o t \in V
  BY <1>3, <1>5
<1>7. Justified(s, prefix, digits, blanks) =
        IF padSize > 0 /\ "-" \notin s.flags
        THEN IF "0" \in s.flags /\ s.precisionKind = "default"
             THEN prefix \o write_chars("0", padSize) \o digits
             ELSE write_chars(" ", IF blanks = "all" THEN padSize ELSE 1) \o prefix \o digits
        ELSE prefix \o digits \o write_chars(" ", padSize)
  BY Zenon DEF Justified, padSize
<1>8. write_chars(" ", IF blanks = "all" THEN padSize ELSE 1) \in V
  BY <1>1, <1>2, <1>4
<1>9. write_chars("0", padSize) \in V /\ write_chars(" ", padSize) \in V
  BY <1>1, <1>2
<1> DEFINE a == prefix \o write_chars("0", padSize) \o digits
           b == write_chars(" ", IF blanks = "all" THEN padSize ELSE 1) \o prefix \o digits
           c == prefix \o digits \o write_chars(" ", padSize)
<1>10. a \in V /\ b \in V /\ c \in V
  BY <1>6, <1>8, <1>9
<1> HIDE DEF a, b, c
<1>11. Justified(s, prefix, digits, blanks) \in {a, b, c}
  BY <1>7 DEF a, b, c
<1> QED  BY <1>10, <1>11 DEF V

LEMMA StringTyped ==
    ASSUME NEW s \in Directives, NEW text \in Seq(Characters)
    PROVE  output_string(text, s) \in Seq(Characters)
<1> DEFINE length == Len(text)
           padSize == ToInt(s.padding - length)
           pad == write_chars(" ", padSize)
           shown == SubSeq(text, 1, length)
           V == Seq(Characters)
<1>1. s.precisionKind = "default" /\ s.padding \in Int
  BY DEF Directives
<1>2. length \in Nat
  BY LenProperties
<1>3. padSize \in Int
  <2>1. s.padding - length \in Int
    BY <1>1, <1>2
  <2> QED  BY <2>1, IntsTyped
<1>4. pad \in V
  BY <1>3, Literals, CharsWritten
<1>5. shown \in V
  BY SubSeqFull
<1>6. output_string(text, s) = IF "-" \in s.flags THEN shown \o pad ELSE pad \o shown
  BY <1>1 DEF output_string
<1> HIDE DEF pad, shown, V
<1>7. shown \o pad \in V /\ pad \o shown \in V
  BY <1>4, <1>5, Joined DEF V
<1> QED  BY <1>6, <1>7 DEF V

LEMMA FormattedTyped ==
    ASSUME InputInv, NEW s \in Directives, NEW at \in Nat \ {0},
           s.type \notin {"empty", "%"} => at + SlotsOf(s.width) <= Len(stack)
    PROVE  Formatted(s, at) \in Seq(Characters)
<1> DEFINE V == Seq(Characters)
           digits == DigitsOf(s, at)
<1>1. digits \in V
  BY DigitsInBuffer
<1>2. ASSUME s.type \notin {"empty", "%"} PROVE stack[at] \in 0 .. IntLimit - 1
  BY <1>2, NumbersTyped DEF Directives
<1> HIDE DEF digits, V
<1>3. \A prefix \in V : Justified(s, prefix, digits, "all") \in V /\ Justified(s, prefix, digits, "one") \in V
  BY <1>1, JustifiedTyped DEF V
<1>4. format_decimal(s, at) \in V
  <2>1. get_int_sign_char(read_signed(s.width, at), s) \in V
    BY Literals DEF get_int_sign_char, V
  <2> QED  BY <1>3, <2>1 DEF format_decimal, digits
<1>5. format_octal(s, at) \in V
  <2> DEFINE prefix == IF "#" \in s.flags /\ digits # <<>> /\ Head(digits) # "0" THEN <<"0">> ELSE <<>>
  <2>1. prefix \in V
    BY Zenon, Literals DEF V
  <2>2. format_octal(s, at) = Justified(s, prefix, digits, "all")
    BY Zenon DEF format_octal, digits
  <2> HIDE DEF prefix
  <2> QED  BY <1>3, <2>1, <2>2
<1>6. format_hex(s, at) \in V
  <2> DEFINE prefix == IF "#" \in s.flags /\ read_unsigned(s.width, at) # 0
                       THEN <<"0", IF s.type = "X" THEN "X" ELSE "x">> ELSE <<>>
  <2>1. prefix \in V
    <3>1. prefix \in {<<"0", "X">>, <<"0", "x">>, <<>>}
      BY Zenon
    <3> HIDE DEF prefix
    <3> QED  BY Zenon, <3>1, Literals DEF V
  <2>2. format_hex(s, at) = Justified(s, prefix, digits, "all")
    BY Zenon DEF format_hex, digits
  <2> HIDE DEF prefix
  <2> QED  BY <1>3, <2>1, <2>2
<1>7. format_unsigned(s, at) \in V
  <2>1. <<>> \in V
    BY Literals DEF V
  <2> QED  BY <1>3, <2>1 DEF format_unsigned, digits
<1>8. format_pointer(s, at) \in V
  <2> DEFINE pad == write_chars(" ", ToInt(get_format_padding(s) - Len(digits)))
  <2>1. get_format_padding(s) \in Int
    BY DEF Directives, get_format_padding
  <2>2. Len(digits) \in Nat
    BY <1>1, LenProperties DEF V
  <2>3. \A a \in Int : \A b \in Nat : a - b \in Int
    OBVIOUS
  <2>4. pad \in V
    BY Zenon, <2>1, <2>2, <2>3, IntsTyped, Literals, CharsWritten DEF V
  <2>5. format_pointer(s, at) = IF "-" \in s.flags THEN digits \o pad ELSE pad \o digits
    BY Zenon DEF format_pointer, digits
  <2> HIDE DEF pad
  <2>6. digits \o pad \in V /\ pad \o digits \in V
    BY <1>1, <2>4, Joined DEF V
  <2> QED  BY <2>5, <2>6
<1>9. ASSUME s.type = "c" PROVE format_character(s, at) \in V
  <2> DEFINE char == CharOf[stack[at] % CharLimit]
  <2>1. stack[at] % CharLimit \in 0 .. CharLimit - 1
    BY <1>2, <1>9, Limits
  <2>2. char \in Characters
    BY <2>1, FormatAssumption
  <2>3. (IF char = "NUL" THEN <<>> ELSE <<char>>) \in Seq(Characters)
    BY Zenon, <2>2, OneCharacter, Literals
  <2>4. format_character(s, at) = output_string(IF char = "NUL" THEN <<>> ELSE <<char>>, s)
    BY Zenon DEF format_character
  <2> HIDE DEF char
  <2> QED  BY Zenon, <2>3, <2>4, StringTyped DEF V
<1>10. ASSUME s.type = "s" PROVE format_string(s, at) \in V
  <2> DEFINE text == IF stack[at] \in DOMAIN Strings THEN Strings[stack[at]] ELSE WildText
  <2>1. text \in Seq(Characters)
    BY Zenon, FormatAssumption
  <2>2. format_string(s, at) = output_string(text, s)
    BY Zenon DEF format_string
  <2> HIDE DEF text
  <2> QED  BY Zenon, <2>1, <2>2, StringTyped DEF V
<1>11. <<"%">> \in V /\ <<>> \in V
  BY Literals DEF V
<1>12. s.type \in FormatTypes \union {"empty"}
  BY DEF Directives
<1>13. CASE s.type = "%"
  <2>1. Formatted(s, at) = <<"%">>
    BY Zenon, <1>13 DEF Formatted
  <2> QED  BY Zenon, <1>11, <2>1 DEF V
<1>14. CASE s.type = "empty"
  <2>1. Formatted(s, at) = <<>>
    BY <1>14 DEF Formatted
  <2> QED  BY Zenon, <1>11, <2>1 DEF V
<1>15. CASE s.type = "c"
  BY <1>9, <1>15 DEF Formatted, V
<1>16. CASE s.type = "s"
  BY <1>10, <1>16 DEF Formatted, V
<1>17. CASE s.type = "d"
  BY <1>4, <1>17 DEF Formatted, V
<1>18. CASE s.type = "o"
  BY <1>5, <1>18 DEF Formatted, V
<1>19. CASE s.type \in {"x", "X"}
  BY <1>6, <1>19 DEF Formatted, V
<1>20. CASE s.type = "u"
  BY <1>7, <1>20 DEF Formatted, V
<1>21. CASE s.type = "p"
  BY <1>8, <1>21 DEF Formatted, V
<1> QED
  BY <1>12, <1>13, <1>14, <1>15, <1>16, <1>17, <1>18, <1>19, <1>20, <1>21 DEF FormatTypes

-----------------------------------------------------------------------------
(***************************************************************************)
(* The first invariant: types, the end of memory, a slot for a character.  *)
(***************************************************************************)
LEMMA InputStays ==
    ASSUME InputInv, UNCHANGED input
    PROVE  InputInv'
BY DEF InputInv, input

\* Two terminators end memory.
LEMMA CharactersOfMemory ==
    ASSUME InputInv, NEW i \in 1 .. Len(memory)
    PROVE  /\ Len(memory) \in Nat \ {0} /\ Len(memory) <= Len(stack) /\ Len(stack) \in Nat
           /\ memory[i] \in Characters
           /\ memory[i] # "NUL" => i + 1 < Len(memory)
<1>1. /\ memory \in Seq(Characters) /\ Len(memory) \in Nat \ {0}
      /\ memory[Len(memory)] = "NUL" /\ memory[Len(memory) - 1] = "NUL"
  BY Memory DEF InputInv
<1>2. memory[i] \in Characters
  BY <1>1, ElementOfSeq
<1>3. ASSUME NEW n \in Nat \ {0}, i \in 1 .. n, i # n, i # n - 1 PROVE i + 1 < n
  BY <1>3
<1>4. memory[i] # "NUL" => i # Len(memory) /\ i # Len(memory) - 1
  BY Zenon, <1>1
<1>5. Len(memory) <= Len(stack) /\ Len(stack) \in Nat
  BY Stack DEF InputInv
<1> QED  BY Zenon, <1>1, <1>2, <1>3, <1>4, <1>5

LEMMA EmptySpecTyped == EmptySpec \in Directives /\ EmptySpec.padKind = "default" /\ EmptySpec.type = "empty"
BY DEF EmptySpec, Directives, FormatFlags, Widths

LEMMA ValidatedTyped ==
    ASSUME NEW s \in Directives
    PROVE  /\ Validated(s) \in Directives
           /\ Validated(s).padKind = s.padKind /\ Validated(s).width = s.width
           /\ Validated(s).type \in {s.type, "empty"}
<1>1. Validated(s) = s \/ Validated(s) = [s EXCEPT !.type = "empty"]
  BY Zenon DEF Validated
<1>2. [s EXCEPT !.type = "empty"] \in Directives
  BY DEF Directives
<1>3. /\ [s EXCEPT !.type = "empty"].padKind = s.padKind /\ [s EXCEPT !.type = "empty"].width = s.width
      /\ [s EXCEPT !.type = "empty"].type = "empty"
  BY DEF Directives
<1> QED  BY Zenon, <1>1, <1>2, <1>3

LEMMA InitIInv ==
    ASSUME Init
    PROVE  IInv
<1>1. /\ format \in Formats /\ memory = InMemory(format) /\ stream \in BOOLEAN /\ stack \in Stacks
      /\ fmt = 1 /\ args = 1 /\ spec = EmptySpec /\ pc = "call" /\ written = <<>> /\ overrun = FALSE
  BY Zenon DEF Init
<1>2. InputInv
  BY <1>1 DEF InputInv
<1>3. SpecInv
  BY <1>1, EmptySpecTyped DEF SpecInv
<1>4. PlaceInv
  <2>1. Len(memory) \in Nat \ {0}
    BY <1>1, Memory
  <2> QED  BY <1>1, <2>1 DEF PlaceInv, Parsing
<1>5. SlotsInv
  BY <1>1 DEF SlotsInv, Parsing
<1>6. OutputInv
  <2>1. <<>> \in Seq(Characters)
    OBVIOUS
  <2> QED  BY <1>1, <2>1 DEF OutputInv
<1> QED  BY <1>1, <1>2, <1>3, <1>4, <1>5, <1>6 DEF IInv

LEMMA CallKeeps ==
    ASSUME IInv, Call
    PROVE  IInv'
<1>1. /\ pc = "call" /\ pc' \in {"scan", "return"}
      /\ UNCHANGED input /\ UNCHANGED <<fmt, args, spec, written, overrun>> /\ UNCHANGED memory
  BY DEF Call, input
<1>2. InputInv /\ SpecInv /\ PlaceInv /\ SlotsInv /\ OutputInv
  BY DEF IInv
<1>3. InputInv'
  BY <1>1, <1>2, InputStays
<1>4. SpecInv' /\ PlaceInv' /\ SlotsInv' /\ OutputInv'
  BY <1>1, <1>2 DEF SpecInv, PlaceInv, SlotsInv, OutputInv, Parsing
<1> QED  BY <1>1, <1>3, <1>4 DEF IInv

LEMMA ReturnKeeps ==
    ASSUME IInv, Return
    PROVE  IInv'
<1>1. /\ pc = "scan" /\ pc' = "return"
      /\ UNCHANGED input /\ UNCHANGED <<fmt, args, spec, written, overrun>> /\ UNCHANGED memory
  BY DEF Return, input
<1>2. InputInv /\ SpecInv /\ PlaceInv /\ SlotsInv /\ OutputInv
  BY DEF IInv
<1>3. InputInv'
  BY <1>1, <1>2, InputStays
<1>4. SpecInv' /\ PlaceInv' /\ SlotsInv' /\ OutputInv'
  BY <1>1, <1>2 DEF SpecInv, PlaceInv, SlotsInv, OutputInv, Parsing
<1> QED  BY <1>1, <1>3, <1>4 DEF IInv

LEMMA WriteLiteralKeeps ==
    ASSUME IInv, WriteLiteral
    PROVE  IInv'
<1> DEFINE n == Len(memory)
<1>1. /\ pc = "scan" /\ Char \notin {"%", "NUL"} /\ written' = Append(written, Char) /\ fmt' = fmt + 1
      /\ UNCHANGED input /\ UNCHANGED <<args, spec, pc, overrun>> /\ UNCHANGED memory
  BY DEF WriteLiteral, input
<1>2. InputInv /\ SpecInv /\ PlaceInv /\ SlotsInv /\ OutputInv
  BY DEF IInv
<1>3. InputInv'
  BY <1>1, <1>2, InputStays
<1>4. n \in Nat /\ fmt \in 1 .. n /\ fmt + 1 < n /\ Char \in Characters
  BY <1>1, <1>2, CharactersOfMemory DEF PlaceInv, Char
<1>5. n' = n
  BY <1>1
<1>6. OutputInv'
  <2>1. Append(written, Char) \in Seq(Characters)
    BY <1>2, <1>4, AppendProperties DEF OutputInv
  <2> QED  BY <1>1, <1>2, <2>1 DEF OutputInv
<1>7. PlaceInv'
  <2>1. fmt' \in 1 .. n'
    <3> HIDE DEF n
    <3> QED  BY <1>1, <1>4, <1>5
  <2> QED  BY <1>1, <2>1 DEF PlaceInv, Parsing
<1>8. SpecInv' /\ SlotsInv'
  <2>1. args \in Nat \ {0} /\ args <= fmt /\ fmt \in Nat
    BY <1>1, <1>2, <1>4 DEF SlotsInv
  <2>2. args' \in Nat \ {0} /\ args' <= fmt'
    BY <1>1, <2>1
  <2> QED  BY <1>1, <1>2, <2>2 DEF SpecInv, SlotsInv, Parsing
<1> QED  BY <1>1, <1>3, <1>6, <1>7, <1>8 DEF IInv

LEMMA ParseSpecKeeps ==
    ASSUME IInv, parse_format_spec
    PROVE  IInv'
<1> DEFINE n == Len(memory)
<1>1. /\ pc = "scan" /\ Char = "%"
      /\ UNCHANGED input /\ UNCHANGED <<args, written, overrun>> /\ UNCHANGED memory
  BY DEF parse_format_spec, input
<1>2. InputInv /\ SpecInv /\ PlaceInv /\ SlotsInv /\ OutputInv
  BY DEF IInv
<1>3. InputInv' /\ OutputInv'
  BY <1>1, <1>2, InputStays DEF OutputInv
<1>4. n \in Nat /\ fmt \in 1 .. n /\ fmt + 1 < n
  BY <1>1, <1>2, CharactersOfMemory DEF PlaceInv, Char
<1>5. n' = n
  BY <1>1
<1>6. args \in Nat \ {0} /\ args <= fmt
  BY <1>1, <1>2 DEF SlotsInv
<1>7. CASE memory[fmt + 1] = "%"
  <2>1. /\ spec' = Validated([EmptySpec EXCEPT !.type = "%"]) /\ fmt' = fmt + 2 /\ pc' = "stars"
    BY <1>7 DEF parse_format_spec
  <2>2. fmt + 1 \in 1 .. n
    <3> HIDE DEF n
    <3> QED  BY <1>4
  <2>3. (fmt + 1) + 1 < n
    BY <1>2, <1>7, <2>2, CharactersOfMemory
  <2>4. fmt' \in 1 .. n'
    <3> HIDE DEF n
    <3> QED  BY <1>4, <1>5, <2>1, <2>3
  <2>5. /\ [EmptySpec EXCEPT !.type = "%"] \in Directives
        /\ [EmptySpec EXCEPT !.type = "%"].padKind = "default" /\ [EmptySpec EXCEPT !.type = "%"].type = "%"
    <3>1. "%" \in FormatTypes
      BY DEF FormatTypes
    <3> QED  BY <3>1, EmptySpecTyped DEF Directives
  <2>6. spec' \in Directives /\ spec'.padKind = "default" /\ spec'.type \in {"empty", "%"}
    BY Zenon, <2>1, <2>5, ValidatedTyped
  <2>7. args' \in Nat \ {0} /\ StarsLeft' = 0 /\ Takes' = 0
    BY <1>1, <1>6, <2>6 DEF StarsLeft, Takes
  <2>8. args' <= fmt' /\ args' + 0 + 0 = args'
    BY <1>1, <1>4, <1>6, <2>1
  <2>9. SpecInv'
    BY <2>1, <2>6 DEF SpecInv
  <2>10. PlaceInv'
    BY <2>1, <2>4 DEF PlaceInv, Parsing
  <2>11. SlotsInv'
    BY <2>1, <2>7, <2>8 DEF SlotsInv, Parsing
  <2> QED  BY <1>3, <2>1, <2>9, <2>10, <2>11 DEF IInv
<1>8. CASE memory[fmt + 1] # "%"
  <2>1. spec' = EmptySpec /\ fmt' = fmt + 1 /\ pc' = "flags"
    BY <1>8 DEF parse_format_spec
  <2>2. fmt' \in 1 .. n' /\ fmt' < n'
    <3> HIDE DEF n
    <3> QED  BY <1>4, <1>5, <2>1
  <2>3. SpecInv'
    BY <2>1, EmptySpecTyped DEF SpecInv
  <2>4. PlaceInv'
    BY <2>1, <2>2 DEF PlaceInv
  <2>5. args' \in Nat \ {0} /\ StarsLeft' = 0
    BY <1>1, <1>6, <2>1, EmptySpecTyped DEF StarsLeft
  <2>6. args' < fmt' /\ args' + 0 = args'
    BY <1>1, <1>4, <1>6, <2>1
  <2>7. SlotsInv'
    BY <2>1, <2>5, <2>6 DEF SlotsInv, Parsing
  <2> QED  BY <1>3, <2>1, <2>3, <2>4, <2>7 DEF IInv, Parsing
<1> QED  BY <1>7, <1>8

\* A step inside a directive, at most one character on.
LEMMA StillParsing ==
    ASSUME IInv, pc \in Parsing, UNCHANGED input, UNCHANGED <<args, written, overrun>>,
           NEW k \in {0, 1}, fmt' = fmt + k, k = 1 => Char # "NUL",
           spec' \in Directives, StarsLeft' <= StarsLeft + k, StarsLeft' \in {0, 1},
           pc' \in Parsing, pc' \in {"flags", "padding"} => spec'.padKind # "fromArg"
    PROVE  IInv'
<1> DEFINE n == Len(memory)
<1>1. UNCHANGED memory /\ InputInv /\ SpecInv /\ PlaceInv /\ SlotsInv /\ OutputInv
  BY DEF IInv, input
<1>2. InputInv' /\ OutputInv'
  BY <1>1, InputStays DEF OutputInv
<1>3. n \in Nat /\ fmt \in 1 .. n /\ fmt < n /\ n' = n
  BY <1>1, CharactersOfMemory DEF PlaceInv
<1>4. k = 1 => fmt + 1 < n
  BY <1>1, <1>3, CharactersOfMemory DEF Char
<1>5. fmt' \in 1 .. n' /\ fmt' < n'
  <2> HIDE DEF n
  <2> QED  BY <1>3, <1>4
<1>6. args \in Nat \ {0} /\ args + StarsLeft < fmt /\ StarsLeft \in {0, 1}
  BY <1>1 DEF SlotsInv, StarsLeft
<1>7. args' \in Nat \ {0} /\ args' + StarsLeft' < fmt'
  <2>1. fmt \in Nat
    BY <1>3
  <2>2. ASSUME NEW a \in Nat, NEW s \in {0, 1}, NEW t \in {0, 1}, NEW f \in Nat,
               a + s < f, t <= s + k
        PROVE  a + t < f + k
    BY <2>2
  <2>3. args' = args /\ fmt' = fmt + k
    OBVIOUS
  <2> QED  BY <1>6, <2>1, <2>2, <2>3
<1>8. PlaceInv'
  BY <1>5 DEF PlaceInv
<1>9. pc' \notin {"type", "call", "scan", "return", "stars", "format"}
  BY DEF Parsing
<1>10. SpecInv' /\ SlotsInv'
  BY <1>7, <1>9 DEF SpecInv, SlotsInv
<1> QED  BY <1>2, <1>8, <1>10 DEF IInv

LEMMA FlagsKeeps ==
    ASSUME IInv, parse_format_flags
    PROVE  IInv'
<1>1. /\ pc = "flags" /\ UNCHANGED input /\ UNCHANGED <<args, written, overrun>>
      /\ spec \in Directives /\ spec.padKind # "fromArg"
  BY DEF parse_format_flags, IInv, SpecInv
<1>2. CASE Char \in FormatFlags
  <2>1. spec' = [spec EXCEPT !.flags = @ \union {Char}] /\ fmt' = fmt + 1 /\ pc' = pc
    BY <1>2 DEF parse_format_flags
  <2>2. spec' \in Directives /\ spec'.padKind = spec.padKind
    BY <1>1, <1>2, <2>1 DEF Directives
  <2>3. StarsLeft' = 0 /\ StarsLeft = 0
    BY <1>1, <2>2 DEF StarsLeft
  <2>4. Char # "NUL"
    BY <1>2 DEF FormatFlags
  <2> QED  BY <1>1, <2>1, <2>2, <2>3, <2>4, StillParsing DEF Parsing
<1>3. CASE Char \notin FormatFlags
  <2>1. spec' = [spec EXCEPT !.flags = NormalFlags(@)] /\ fmt' = fmt /\ pc' = "padding"
    BY <1>3 DEF parse_format_flags
  <2>2. NormalFlags(spec.flags) \subseteq spec.flags
    BY DEF NormalFlags
  <2>3. spec' \in Directives /\ spec'.padKind = spec.padKind
    BY <1>1, <2>1, <2>2 DEF Directives
  <2>4. StarsLeft' = 0 /\ StarsLeft = 0
    BY <1>1, <2>3 DEF StarsLeft
  <2>5. fmt' = fmt + 0
    BY <2>1 DEF IInv, PlaceInv
  <2> QED  BY <1>1, <2>1, <2>3, <2>4, <2>5, StillParsing DEF Parsing
<1> QED  BY <1>2, <1>3

LEMMA PaddingKeeps ==
    ASSUME IInv, parse_format_padding
    PROVE  IInv'
<1>1. /\ pc = "padding" /\ UNCHANGED input /\ UNCHANGED <<args, written, overrun>>
      /\ spec \in Directives /\ spec.padKind # "fromArg"
  BY DEF parse_format_padding, IInv, SpecInv
<1>2. StarsLeft = 0
  BY <1>1 DEF StarsLeft
<1>3. CASE Char = "*" /\ spec.padKind = "default"
  <2>1. spec' = [spec EXCEPT !.padKind = "fromArg"] /\ fmt' = fmt + 1 /\ pc' = "precision"
    <3>1. ~IsDigit(Char)
      BY <1>3, DigitsAreCharacters DEF IsDigit
    <3> QED  BY <1>3, <3>1 DEF parse_format_padding
  <2>2. spec' \in Directives
    BY <1>1, <2>1 DEF Directives
  <2>3. StarsLeft' \in {0, 1} /\ StarsLeft' <= StarsLeft + 1
    BY <1>2 DEF StarsLeft
  <2>4. Char # "NUL"
    BY <1>3
  <2> QED  BY <1>1, <2>1, <2>2, <2>3, <2>4, StillParsing DEF Parsing
<1>4. CASE ~(Char = "*" /\ spec.padKind = "default") /\ IsDigit(Char)
  <2>1. /\ spec' = [spec EXCEPT !.padKind = "given", !.padding = ToInt(10 * @ + DigitValue[Char])]
        /\ fmt' = fmt + 1 /\ pc' = pc
    <3>1. Char # "*"
      BY <1>4, DigitsAreCharacters DEF IsDigit
    <3> QED  BY <1>4, <3>1 DEF parse_format_padding
  <2>2. ToInt(10 * spec.padding + DigitValue[Char]) \in Int
    <3>1. 10 * spec.padding + DigitValue[Char] \in Int
      BY <1>1, <1>4, DigitsAreCharacters DEF IsDigit, Directives
    <3> QED  BY <3>1, IntsTyped
  <2>3. spec' \in Directives /\ spec'.padKind = "given"
    BY <1>1, <2>1, <2>2 DEF Directives
  <2>4. StarsLeft' = 0
    BY <2>3 DEF StarsLeft
  <2>5. Char # "NUL"
    BY <1>4, DigitsAreCharacters DEF IsDigit
  <2> QED  BY <1>1, <1>2, <2>1, <2>3, <2>4, <2>5, StillParsing DEF Parsing
<1>5. CASE ~(Char = "*" /\ spec.padKind = "default") /\ ~IsDigit(Char)
  <2>1. spec' = spec /\ fmt' = fmt /\ pc' = "precision"
    BY <1>5 DEF parse_format_padding
  <2>2. StarsLeft' = 0
    BY <1>2, <2>1 DEF StarsLeft
  <2>3. fmt' = fmt + 0
    BY <2>1 DEF IInv, PlaceInv
  <2> QED  BY <1>1, <1>2, <2>1, <2>2, <2>3, StillParsing DEF Parsing
<1> QED  BY <1>3, <1>4, <1>5

LEMMA PrecisionKeeps ==
    ASSUME IInv, parse_format_precision
    PROVE  IInv'
<1>1. /\ pc = "precision" /\ UNCHANGED input /\ UNCHANGED <<args, written, overrun>>
      /\ spec \in Directives
      /\ spec' = [spec EXCEPT !.precisionKind = "default"] /\ fmt' = fmt /\ pc' = "width"
  BY DEF parse_format_precision, IInv, SpecInv
<1>2. spec' \in Directives /\ spec'.padKind = spec.padKind
  BY <1>1 DEF Directives
<1>3. StarsLeft' = StarsLeft /\ StarsLeft \in {0, 1}
  BY <1>2 DEF StarsLeft
<1>4. fmt' = fmt + 0
  BY <1>1 DEF IInv, PlaceInv
<1> QED  BY <1>1, <1>2, <1>3, <1>4, StillParsing DEF Parsing

LEMMA ZeroOne == 0 \in 0 .. 2 /\ 1 \in {1, 2}
OBVIOUS

\* A length modifier is no longer than the terminator is away, and takes a slot more
\* only if it is "ll" or "j".
LEMMA ModifierFits ==
    ASSUME InputInv, NEW p \in 1 .. Len(memory), p < Len(memory)
    PROVE  /\ WidthAt(p) \in Widths /\ LengthOf(WidthAt(p)) \in 0 .. 2
           /\ p + LengthOf(WidthAt(p)) \in 1 .. Len(memory)
           /\ p + LengthOf(WidthAt(p)) < Len(memory)
           /\ SlotsOf(WidthAt(p)) <= 1 + LengthOf(WidthAt(p)) /\ SlotsOf(WidthAt(p)) \in {1, 2}
<1> DEFINE n == Len(memory)
           w == WidthAt(p)
<1>1. n \in Nat /\ p \in 1 .. n /\ p + 1 \in 1 .. n /\ p < n
  <2>1. n \in Nat
    BY CharactersOfMemory
  <2> HIDE DEF n
  <2> QED  BY <2>1 DEF n
<1>2. memory[p] # "NUL" => p + 1 < n
  BY <1>1, CharactersOfMemory
<1>3. memory[p + 1] # "NUL" => (p + 1) + 1 < n
  BY <1>1, CharactersOfMemory
<1>4. \/ w = ""
      \/ w \in {"h", "l", "j", "z", "t", "L"} /\ memory[p] # "NUL"
      \/ w \in {"hh", "ll"} /\ memory[p] # "NUL" /\ memory[p + 1] # "NUL"
  BY DEF WidthAt
<1> HIDE DEF n
<1>5. CASE w = ""
  <2>1. LengthOf(w) = 0 /\ SlotsOf(w) = 1 /\ w \in Widths
    BY <1>5 DEF LengthOf, SlotsOf, Widths
  <2> HIDE DEF w
  <2>2. p + LengthOf(w) = p /\ SlotsOf(w) <= 1 + LengthOf(w)
    BY <1>1, <2>1
  <2> QED  BY Zenon, <1>1, <2>1, <2>2, ZeroOne DEF n, w
<1>6. CASE w \in {"h", "l", "j", "z", "t", "L"} /\ memory[p] # "NUL"
  <2>1. LengthOf(w) = 1 /\ SlotsOf(w) \in {1, 2} /\ w \in Widths
    BY <1>6 DEF LengthOf, SlotsOf, Widths
  <2>2. p + 1 < n
    BY <1>2, <1>6
  <2> QED  BY <1>1, <2>1, <2>2 DEF n
<1>7. CASE w \in {"hh", "ll"} /\ memory[p] # "NUL" /\ memory[p + 1] # "NUL"
  <2>1. LengthOf(w) = 2 /\ SlotsOf(w) \in {1, 2} /\ w \in Widths
    BY <1>7 DEF LengthOf, SlotsOf, Widths
  <2>2. p + 2 < n /\ p + 2 \in 1 .. n
    BY <1>1, <1>3, <1>7
  <2> QED  BY <2>1, <2>2 DEF n
<1> QED  BY <1>4, <1>5, <1>6, <1>7

LEMMA WidthKeeps ==
    ASSUME IInv, parse_format_width
    PROVE  IInv'
<1> DEFINE w == WidthAt(fmt)
           l == LengthOf(w)
<1>1. /\ pc = "width" /\ UNCHANGED input /\ UNCHANGED <<args, written, overrun>> /\ UNCHANGED memory
      /\ InputInv /\ SpecInv /\ PlaceInv /\ SlotsInv /\ OutputInv
      /\ spec' = [spec EXCEPT !.width = w] /\ fmt' = fmt + l /\ pc' = "type"
  BY DEF parse_format_width, IInv, input
<1>2. fmt \in 1 .. Len(memory) /\ fmt < Len(memory) /\ args \in Nat \ {0} /\ args + StarsLeft < fmt
  BY <1>1 DEF PlaceInv, SlotsInv, Parsing
<1>3. /\ w \in Widths /\ l \in 0 .. 2 /\ SlotsOf(w) <= 1 + l /\ SlotsOf(w) \in {1, 2}
      /\ fmt + l \in 1 .. Len(memory) /\ fmt + l < Len(memory)
  BY <1>1, <1>2, ModifierFits
<1> HIDE DEF w, l
<1>4. spec' \in Directives /\ spec'.padKind = spec.padKind /\ spec'.width = w
  BY <1>1, <1>3 DEF SpecInv, Directives
<1>5. StarsLeft' = StarsLeft /\ StarsLeft \in {0, 1}
  BY <1>4 DEF StarsLeft
<1>6. args' \in Nat \ {0} /\ args' + StarsLeft' + SlotsOf(spec.width)' <= fmt'
  <2>1. SlotsOf(spec.width)' = SlotsOf(w) /\ args' = args
    BY Zenon, <1>1, <1>4
  <2>2. fmt \in Nat
    BY <1>2
  <2>3. ASSUME NEW a \in Nat \ {0}, NEW s \in {0, 1}, NEW d \in {1, 2}, NEW f \in Nat, NEW m \in 0 .. 2,
               a + s < f, d <= 1 + m
        PROVE  a + s + d <= f + m
    BY <2>3
  <2> QED  BY <1>1, <1>2, <1>3, <1>5, <2>1, <2>2, <2>3
<1>7. PlaceInv'
  BY <1>1, <1>3 DEF PlaceInv
<1>8. SpecInv' /\ SlotsInv' /\ OutputInv'
  BY <1>1, <1>4, <1>6 DEF SpecInv, SlotsInv, OutputInv, Parsing
<1> QED  BY <1>1, <1>7, <1>8, InputStays DEF IInv, Parsing

LEMMA TypesTyped ==
    ASSUME NEW p
    PROVE  TypeAt(p) \in FormatTypes \union {"empty"}
BY DEF TypeAt, FormatTypes

LEMMA TypeKeeps ==
    ASSUME IInv, parse_format_type
    PROVE  IInv'
<1> DEFINE n == Len(memory)
           typed == [spec EXCEPT !.type = TypeAt(fmt)]
<1>1. /\ pc = "type" /\ UNCHANGED input /\ UNCHANGED <<args, written, overrun>> /\ UNCHANGED memory
      /\ InputInv /\ SpecInv /\ PlaceInv /\ SlotsInv /\ OutputInv
      /\ spec' = Validated(typed) /\ fmt' = fmt + 1 /\ pc' = "stars"
  BY DEF parse_format_type, IInv, input
<1>2. typed \in Directives /\ typed.padKind = spec.padKind /\ typed.width = spec.width
  BY <1>1, TypesTyped DEF SpecInv, Directives
<1> HIDE DEF typed
<1>3. spec' \in Directives /\ spec'.padKind = spec.padKind /\ spec'.width = spec.width
  BY <1>1, <1>2, ValidatedTyped
<1>4. n \in Nat /\ fmt \in 1 .. n /\ fmt < n /\ n' = n
  BY <1>1, CharactersOfMemory DEF PlaceInv
<1>5. fmt' \in 1 .. n'
  <2> HIDE DEF n
  <2> QED  BY <1>1, <1>4
<1>6. /\ args \in Nat \ {0} /\ args + StarsLeft + SlotsOf(spec.width) <= fmt
      /\ StarsLeft \in {0, 1} /\ SlotsOf(spec.width) \in {1, 2}
  BY <1>1 DEF SlotsInv, StarsLeft, SlotsOf, Parsing
<1>7. StarsLeft' = StarsLeft /\ Takes' \in {0, SlotsOf(spec.width)}
  <2>1. SlotsOf(spec'.width) = SlotsOf(spec.width)
    BY Zenon, <1>3
  <2> QED  BY <1>3, <2>1 DEF StarsLeft, Takes
<1>8. args' \in Nat \ {0} /\ args' + StarsLeft' + Takes' <= fmt'
  <2>1. fmt \in Nat
    BY <1>4
  <2>2. ASSUME NEW a \in Nat, NEW s \in {0, 1}, NEW d \in {1, 2}, NEW t \in {0, d}, NEW f \in Nat,
               a + s + d <= f
        PROVE  a + s + t <= f + 1
    BY <2>2
  <2> QED  BY <1>1, <1>6, <1>7, <2>1, <2>2
<1>9. SpecInv' /\ PlaceInv' /\ SlotsInv' /\ OutputInv'
  BY <1>1, <1>3, <1>5, <1>8 DEF SpecInv, PlaceInv, SlotsInv, OutputInv, Parsing
<1> QED  BY <1>1, <1>9, InputStays DEF IInv, Parsing

\* Behind its star's argument a directive has no star.
LEMMA PaddingTyped ==
    ASSUME NEW s \in Directives, NEW at, stack[at] \in Int
    PROVE  /\ StarPadding(s, at) \in Directives
           /\ StarPadding(s, at).padKind = "given"
           /\ StarPadding(s, at).width = s.width /\ StarPadding(s, at).type = s.type
<1> DEFINE width == ToInt(stack[at])
           left == [s EXCEPT !.padKind = "given", !.padding = ToInt(-width), !.flags = @ \union {"-"}]
           right == [s EXCEPT !.padKind = "given", !.padding = width]
           IsOf(r) == /\ r \in Directives /\ r.padKind = "given"
                      /\ r.width = s.width /\ r.type = s.type
<1>1. width \in Int
  BY IntsTyped
<1> HIDE DEF width
<1>2. ToInt(-width) \in Int
  <2>1. -width \in Int
    BY <1>1
  <2> QED  BY <2>1, IntsTyped
<1>3. IsOf(left)
  BY <1>2 DEF Directives, FormatFlags
<1>4. IsOf(right)
  BY <1>1 DEF Directives
<1>5. StarPadding(s, at) = IF width < 0 THEN left ELSE right
  BY DEF StarPadding, width
<1> HIDE DEF left, right, IsOf
<1>6. IsOf(StarPadding(s, at))
  BY <1>3, <1>4, <1>5
<1> QED  BY <1>6 DEF IsOf

LEMMA StarsTaken ==
    ASSUME IInv, TakeStars
    PROVE  /\ spec' \in Directives /\ spec'.padKind # "fromArg"
           /\ args' = args + StarsLeft /\ Takes' = Takes
<1> DEFINE starred == spec.padKind = "fromArg"
           padded == IF starred THEN StarPadding(spec, args) ELSE spec
           at == IF starred THEN args + 1 ELSE args
<1>1. /\ pc = "stars" /\ pc' = "format" /\ UNCHANGED input /\ UNCHANGED <<fmt, written, overrun>>
      /\ UNCHANGED memory
      /\ InputInv /\ SpecInv /\ PlaceInv /\ SlotsInv /\ OutputInv
  BY DEF TakeStars, IInv, input
<1>2. /\ args \in Nat \ {0} /\ args + StarsLeft + Takes <= fmt /\ StarsLeft \in {0, 1}
      /\ Takes \in {0, 1, 2} /\ fmt \in Nat /\ spec \in Directives
  <2>1. Len(memory) \in Nat /\ fmt \in 1 .. Len(memory)
    BY <1>1, CharactersOfMemory DEF PlaceInv
  <2>2. fmt \in Nat
    BY <2>1
  <2> QED  BY <1>1, <2>2 DEF SlotsInv, SpecInv, StarsLeft, Takes, SlotsOf, Parsing
<1>3. StarsLeft = 1 => stack[args] \in Int
  <2> DEFINE l == Len(stack)
             m == Len(memory)
  <2>1. l \in Nat /\ m \in Nat /\ m <= l /\ fmt \in 1 .. m
    BY <1>1, CharactersOfMemory DEF PlaceInv
  <2>2. StarsLeft = 1 => args \in 1 .. l
    <3> HIDE DEF l, m
    <3> QED  BY <1>2, <2>1
  <2>3. \A k \in 1 .. l : stack[k] \in Int
    <3>1. \A k \in 1 .. l : stack[k] \in 0 .. IntLimit - 1
      BY <1>1, Stack DEF InputInv
    <3> HIDE DEF l
    <3> QED  BY <3>1, Limits
  <2> QED  BY <2>2, <2>3
<1>4. /\ padded \in Directives /\ padded.padKind # "fromArg"
      /\ padded.width = spec.width /\ padded.type = spec.type
  <2>1. CASE starred
    <3>1. StarsLeft = 1
      BY <2>1 DEF StarsLeft
    <3>2. /\ StarPadding(spec, args) \in Directives /\ StarPadding(spec, args).padKind = "given"
          /\ StarPadding(spec, args).width = spec.width /\ StarPadding(spec, args).type = spec.type
      BY <1>2, <1>3, <3>1, PaddingTyped
    <3> QED  BY <2>1, <3>2
  <2>2. CASE ~starred
    BY <1>2, <2>2
  <2> QED  BY <2>1, <2>2
<1>5. at = args + StarsLeft
  BY <1>2 DEF StarsLeft
<1>6. padded.precisionKind = "default"
  BY <1>4 DEF Directives
<1>7. spec' = padded /\ args' = at
  <2>1. IF padded.precisionKind = "fromArg"
        THEN spec' = StarPrecision(padded, at) /\ args' = at + 1
        ELSE spec' = padded /\ args' = at
    BY Zenon DEF TakeStars
  <2> HIDE DEF padded, at
  <2> QED  BY <1>6, <2>1
<1> HIDE DEF starred, padded, at
<1>8. Takes' = Takes
  <2>1. spec'.type = spec.type /\ SlotsOf(spec'.width) = SlotsOf(spec.width)
    BY Zenon, <1>4, <1>7
  <2> QED  BY <2>1 DEF Takes
<1> QED  BY <1>4, <1>5, <1>7, <1>8

LEMMA StarsKeeps ==
    ASSUME IInv, TakeStars
    PROVE  IInv'
<1>1. /\ pc = "stars" /\ pc' = "format" /\ UNCHANGED input /\ UNCHANGED <<fmt, written, overrun>>
      /\ UNCHANGED memory
      /\ InputInv /\ SpecInv /\ PlaceInv /\ SlotsInv /\ OutputInv
  BY DEF TakeStars, IInv, input
<1>2. /\ args \in Nat \ {0} /\ args + StarsLeft + Takes <= fmt /\ StarsLeft \in {0, 1}
      /\ Takes \in {0, 1, 2}
  BY <1>1 DEF SlotsInv, StarsLeft, Takes, SlotsOf, Parsing
<1>3. fmt \in Nat
  <2>1. Len(memory) \in Nat /\ fmt \in 1 .. Len(memory)
    BY <1>1, CharactersOfMemory DEF PlaceInv
  <2> QED  BY <2>1
<1>4. /\ spec' \in Directives /\ spec'.padKind # "fromArg"
      /\ args' = args + StarsLeft /\ Takes' = Takes
  BY StarsTaken
<1>5. args' \in Nat \ {0} /\ args' + Takes' <= fmt'
  BY <1>1, <1>2, <1>3, <1>4
<1>6. SpecInv' /\ PlaceInv' /\ SlotsInv' /\ OutputInv'
  <2>1. Len(memory)' = Len(memory)
    BY <1>1
  <2>2. SpecInv' /\ SlotsInv' /\ OutputInv'
    BY <1>1, <1>4, <1>5 DEF SpecInv, SlotsInv, OutputInv, Parsing
  <2>3. PlaceInv'
    BY <1>1, <2>1 DEF PlaceInv, Parsing
  <2> QED  BY <2>2, <2>3
<1> QED  BY <1>1, <1>6, InputStays DEF IInv, Parsing

LEMMA FormatKeeps ==
    ASSUME IInv, FormatSpec
    PROVE  IInv'
<1> DEFINE l == Len(stack)
           m == Len(memory)
           digits == DigitsOf(spec, args)
           text == Formatted(spec, args)
<1>1. /\ pc = "format" /\ pc' = "scan" /\ UNCHANGED input /\ UNCHANGED <<fmt, spec>>
      /\ UNCHANGED memory
      /\ InputInv /\ SpecInv /\ PlaceInv /\ SlotsInv /\ OutputInv
  BY DEF FormatSpec, IInv, input
<1>2. /\ written' = written \o text
      /\ overrun' = (overrun \/ Len(digits) >= IntegerBufLen)
      /\ args' = args + Takes
  <2>1. args' = args + (IF spec.type \in {"empty", "%"} THEN 0 ELSE SlotsOf(spec.width))
    BY DEF FormatSpec
  <2> QED  BY <2>1 DEF FormatSpec, Takes
<1>3. /\ args \in Nat \ {0} /\ args + Takes <= fmt /\ Takes \in {0, 1, 2}
      /\ spec \in Directives /\ spec.padKind # "fromArg"
  BY <1>1 DEF SlotsInv, SpecInv, Takes, SlotsOf, Parsing
<1>4. l \in Nat /\ m \in Nat /\ m <= l /\ fmt \in 1 .. m
  BY <1>1, CharactersOfMemory DEF PlaceInv
<1>5. spec.type \notin {"empty", "%"} => args + SlotsOf(spec.width) <= l
  <2>1. ASSUME spec.type \notin {"empty", "%"}
        PROVE  Takes = SlotsOf(spec.width)
    BY <2>1 DEF Takes
  <2> HIDE DEF l, m
  <2>2. args + Takes <= l
    BY <1>3, <1>4
  <2> QED  BY <2>1, <2>2
<1> HIDE DEF l, m
<1>6. text \in Seq(Characters) /\ Len(digits) \in 0 .. IntegerBufLen - 1
  BY Zenon, <1>1, <1>3, <1>5, FormattedTyped, DigitsInBuffer DEF l
<1> HIDE DEF text, digits
<1>7. OutputInv'
  <2>1. written' \in Seq(Characters)
    BY <1>1, <1>2, <1>6, Joined DEF OutputInv
  <2>2. ~(Len(digits) >= IntegerBufLen)
    BY <1>6, Limits
  <2>3. overrun' = FALSE
    BY Zenon, <1>1, <1>2, <2>2 DEF OutputInv
  <2> QED  BY <2>1, <2>3 DEF OutputInv
<1>8. args' \in Nat \ {0} /\ args' <= fmt'
  BY <1>1, <1>2, <1>3
<1>9. SpecInv' /\ SlotsInv'
  BY <1>1, <1>3, <1>8 DEF SpecInv, SlotsInv, Parsing
<1>10. PlaceInv'
  BY <1>1, <1>4 DEF PlaceInv, Parsing, m
<1> QED  BY <1>1, <1>7, <1>9, <1>10, InputStays DEF IInv, Parsing

LEMMA StutterKeeps ==
    ASSUME IInv, UNCHANGED vars
    PROVE  IInv'
<1>1. UNCHANGED <<input, fmt, args, spec, pc, written, overrun>> /\ UNCHANGED memory
  BY DEF vars, input
<1>2. InputInv /\ SpecInv /\ PlaceInv /\ SlotsInv /\ OutputInv
  BY DEF IInv
<1>3. SpecInv' /\ PlaceInv' /\ SlotsInv' /\ OutputInv'
  BY <1>1, <1>2 DEF SpecInv, PlaceInv, SlotsInv, OutputInv, StarsLeft, Takes
<1> QED  BY <1>1, <1>2, <1>3, InputStays DEF IInv

LEMMA IInvStep == IInv /\ [Next]_vars => IInv'
<1> SUFFICES ASSUME IInv, [Next]_vars PROVE IInv'
  OBVIOUS
<1>1. CASE Call                   BY <1>1, CallKeeps
<1>2. CASE WriteLiteral           BY <1>2, WriteLiteralKeeps
<1>3. CASE parse_format_spec      BY <1>3, ParseSpecKeeps
<1>4. CASE parse_format_flags     BY <1>4, FlagsKeeps
<1>5. CASE parse_format_padding   BY <1>5, PaddingKeeps
<1>6. CASE parse_format_precision BY <1>6, PrecisionKeeps
<1>7. CASE parse_format_width     BY <1>7, WidthKeeps
<1>8. CASE parse_format_type      BY <1>8, TypeKeeps
<1>9. CASE TakeStars              BY <1>9, StarsKeeps
<1>10. CASE FormatSpec            BY <1>10, FormatKeeps
<1>11. CASE Return                BY <1>11, ReturnKeeps
<1>12. CASE UNCHANGED vars        BY <1>12, StutterKeeps
<1> QED  BY Zenon, <1>1, <1>2, <1>3, <1>4, <1>5, <1>6, <1>7, <1>8, <1>9, <1>10, <1>11, <1>12
         DEF Next, ParseStep

LEMMA IInvAlways == Spec => []IInv
<1>1. Init => IInv
  BY InitIInv
<1> QED  BY <1>1, IInvStep, PTL DEF Spec

LEMMA TypesFollow == IInv => TypeOK
<1> SUFFICES ASSUME IInv PROVE TypeOK
  OBVIOUS
<1> DEFINE l == Len(stack)
           m == Len(memory)
<1>1. InputInv /\ SpecInv /\ PlaceInv /\ SlotsInv /\ OutputInv
  BY DEF IInv
<1>2. l \in Nat /\ m \in Nat /\ m <= l /\ fmt \in 1 .. m /\ DOMAIN memory = 1 .. m
  <2>1. memory \in Seq(Characters)
    BY <1>1, Memory DEF InputInv
  <2> QED  BY <1>1, <2>1, CharactersOfMemory, LenProperties DEF PlaceInv
<1>3. args \in Nat \ {0} /\ args <= fmt
  <2>1. StarsLeft \in {0, 1} /\ Takes \in {0, 1, 2} /\ SlotsOf(spec.width) \in {1, 2}
    BY DEF StarsLeft, Takes, SlotsOf
  <2>2. fmt \in Nat /\ args \in Nat \ {0}
    BY <1>1, <1>2 DEF SlotsInv
  <2>3. \/ args <= fmt \/ args + StarsLeft < fmt
        \/ args + StarsLeft + SlotsOf(spec.width) <= fmt
        \/ args + StarsLeft + Takes <= fmt \/ args + Takes <= fmt
    BY Zenon, <1>1 DEF SlotsInv, IInv, Parsing
  <2> QED  BY <2>1, <2>2, <2>3
<1>4. args \in 1 .. l + 1
  <2> HIDE DEF l, m
  <2> QED  BY <1>2, <1>3
<1>5. /\ spec.type \in FormatTypes \union {"empty"} /\ spec.flags \subseteq FormatFlags
      /\ spec.width \in {"", "hh", "h", "l", "ll", "j", "z", "t", "L"}
      /\ {spec.padKind, spec.precisionKind} \subseteq {"default", "given", "fromArg"}
      /\ {spec.padding, spec.precision} \subseteq Int
  BY <1>1 DEF SpecInv, Directives, Widths
<1>6. written \in Seq(Characters) /\ overrun \in BOOLEAN
  BY <1>1 DEF OutputInv
<1> QED  BY <1>1, <1>2, <1>4, <1>5, <1>6 DEF TypeOK, InputInv, IInv, Parsing

(***************************************************************************)
(* Types; in particular kvprintf reads neither beyond memory nor beyond    *)
(* the stack: fmt and args never leave them.                               *)
(***************************************************************************)
THEOREM KPrintfTypeOK == Spec => []TypeOK
BY IInvAlways, TypesFollow, PTL

(***************************************************************************)
(* No number is ever written beyond the buffer it is converted in.         *)
(***************************************************************************)
THEOREM NumbersStayInBuffer == Spec => []BufferHolds
<1>1. IInv => BufferHolds
  BY DEF IInv, OutputInv, BufferHolds
<1> QED  BY <1>1, IInvAlways, PTL

-----------------------------------------------------------------------------
(***************************************************************************)
(* The second invariant: kvprintf and the pieces of its format.            *)
(***************************************************************************)
Letters == {"h", "l", "j", "z", "t", "L"}

\* What no part but the conversion character begins with.
Parts == FormatFlags \union DOMAIN DigitValue \union {"*", ".", "NUL"} \union Letters

LEMMA Characters0 ==
    /\ "%" \notin Parts
    /\ \A c \in Parts : /\ c \in DOMAIN DigitValue /\ c # "0" => c \notin FormatFlags
                        /\ c \in Letters \union {"."} => c \notin FormatFlags \union DOMAIN DigitValue \union {"*"}
    /\ "*" \notin FormatFlags \union DOMAIN DigitValue
BY DigitsAreCharacters DEF Parts, Letters, FormatFlags

\* The modifiers as texts.
LEMMA Modifiers ==
    ASSUME NEW l \in LengthModifiers
    PROVE  /\ l = <<>> \/ (Len(l) = 1 /\ l[1] \in Letters) \/ (Len(l) = 2 /\ l[1] \in {"h", "l"} /\ l[2] = l[1])
           /\ Len(l) \in 0 .. 2
           /\ \A i \in 1 .. Len(l) : l[i] \in Letters
BY DEF LengthModifiers, Letters

LEMMA TypeOfPiece ==
    ASSUME NEW p, IsPiece(p), ~IsText(p)
    PROVE  /\ p.type # <<>> => Len(p.type) = 1 /\ p.type = <<p.type[1]>> /\ p.type[1] \notin Parts
           /\ p.type = <<>> <=> Len(p.type) = 0
<1>1. /\ p.type \in Seq(Characters) /\ Len(p.type) \in {0, 1}
      /\ \A i \in DOMAIN p.type : p.type[i] \notin Parts
  BY PartsOf DEF IsPiece, Parts, Letters
<1>2. p.type = <<>> <=> Len(p.type) = 0
  BY <1>1, EmptySeq
<1>3. ASSUME Len(p.type) = 1 PROVE p.type = <<p.type[1]>> /\ p.type[1] \notin Parts
  BY <1>1, <1>3
<1> QED  BY Zenon, <1>1, <1>2, <1>3

\* What stands behind the field width of a directive that is not cut off.
LEMMA BehindWidth ==
    ASSUME NEW p, IsPiece(p), ~IsText(p), ~CutOff(p)
    PROVE  /\ WidthEnd(p) + 1 \in Nat /\ WidthEnd(p) + 1 <= TypeEnd(p)
           /\ \/ p.precision # <<>> /\ Written(p)[WidthEnd(p) + 1] = "."
              \/ p.precision = <<>> /\ Written(p)[WidthEnd(p) + 1] \in Letters
              \/ /\ p.precision = <<>> /\ p.length = <<>> /\ p.type # <<>>
                 /\ Written(p)[WidthEnd(p) + 1] = p.type[1]
<1> DEFINE w == Written(p)
           b == WidthEnd(p)
           c == PrecisionEnd(p)
           d == LengthEnd(p)
           e == TypeEnd(p)
           pl == Len(p.precision)
           ll == Len(p.length)
           tl == Len(p.type)
<1>1. /\ b \in Nat /\ c \in Nat /\ d \in Nat /\ e \in {d, d + 1} /\ b <= c /\ c <= d
      /\ c = b + pl /\ d = c + ll /\ e = d + tl
  BY Ends DEF PrecisionEnd, LengthEnd, TypeEnd
<1>2. /\ \A i \in b + 1 .. c : w[i] = p.precision[i - b]
      /\ \A i \in c + 1 .. d : w[i] = p.length[i - c]
      /\ \A i \in d + 1 .. e : w[i] = p.type[i - d]
  BY PartsWritten
<1>3. /\ p.length \in LengthModifiers /\ p.precision \in Seq(Characters)
      /\ Len(p.precision) \in Nat /\ Len(p.length) \in Nat /\ Len(p.type) \in {0, 1}
      /\ p.precision # <<>> => p.precision[1] = "."
  BY PartsOf DEF IsPiece
<1>4. /\ p.precision = <<>> <=> Len(p.precision) = 0
      /\ p.length = <<>> <=> Len(p.length) = 0
      /\ p.type = <<>> <=> Len(p.type) = 0
  BY <1>3, PartsOf, EmptySeq
<1>9. pl \in Nat /\ ll \in Nat /\ tl \in {0, 1}
  BY <1>3
<1>5. p.precision = <<>> => p.type # <<>>
  BY DEF CutOff
<1> HIDE DEF w, b, c, d, e, pl, ll, tl
<1>6. CASE p.precision # <<>>
  <2>1. pl \in Nat \ {0}
    BY <1>4, <1>6, <1>9 DEF pl
  <2>2. b + 1 \in b + 1 .. c /\ (b + 1) - b = 1 /\ b + 1 <= e /\ b + 1 \in Nat
    BY <1>1, <1>9, <2>1
  <2>3. w[b + 1] = "."
    BY <1>2, <1>3, <1>6, <2>2
  <2> QED  BY <1>6, <2>2, <2>3 DEF w, b, e
<1>7. CASE p.precision = <<>> /\ p.length # <<>>
  <2>1. pl = 0 /\ ll \in Nat \ {0} /\ p.length[1] \in Letters
    BY <1>3, <1>4, <1>7, <1>9, Modifiers DEF pl, ll
  <2>2. b + 1 \in c + 1 .. d /\ (b + 1) - c = 1 /\ b + 1 <= e /\ b + 1 \in Nat
    BY <1>1, <1>9, <2>1
  <2>3. w[b + 1] \in Letters
    BY <1>2, <2>1, <2>2
  <2> QED  BY <1>7, <2>2, <2>3 DEF w, b, e
<1>8. CASE p.precision = <<>> /\ p.length = <<>>
  <2>1. pl = 0 /\ ll = 0 /\ tl = 1
    BY <1>4, <1>5, <1>8, <1>9 DEF pl, ll, tl
  <2>2. b + 1 \in d + 1 .. e /\ (b + 1) - d = 1 /\ b + 1 <= e /\ b + 1 \in Nat
    BY <1>1, <1>9, <2>1
  <2>3. w[b + 1] = p.type[1]
    BY <1>2, <2>1, <2>2
  <2> QED  BY <1>5, <1>8, <2>2, <2>3 DEF w, b, e
<1> QED  BY <1>6, <1>7, <1>8

\* The directive's own parts: flags, then width, then neither a flag, a digit nor a star.
LEMMA FlagsAndWidth ==
    ASSUME NEW p, IsPiece(p), ~IsText(p), ~CutOff(p)
    PROVE  /\ \A i \in 2 .. FlagsEnd(p) : Written(p)[i] \in FormatFlags
           /\ Written(p)[WidthEnd(p) + 1] \notin FormatFlags \union DOMAIN DigitValue \union {"*"}
           /\ Starred(p) => WidthEnd(p) = FlagsEnd(p) + 1 /\ Written(p)[FlagsEnd(p) + 1] = "*"
           /\ ~Starred(p) => \A i \in FlagsEnd(p) + 1 .. WidthEnd(p) : IsDigit(Written(p)[i])
           /\ Written(p)[FlagsEnd(p) + 1] \notin FormatFlags
<1> DEFINE w == Written(p)
           a == FlagsEnd(p)
           b == WidthEnd(p)
           fl == Len(p.flags)
           wl == Len(p.width)
<1>1. a \in Nat /\ b \in Nat /\ a <= b /\ b = a + wl /\ a = 1 + fl
  BY Ends DEF FlagsEnd, WidthEnd
<1>2. /\ \A i \in 2 .. a : w[i] = p.flags[i - 1]
      /\ \A i \in a + 1 .. b : w[i] = p.width[i - a]
  BY PartsWritten
<1>3. /\ p.flags \in Seq(FormatFlags) /\ Len(p.flags) \in Nat
      /\ p.width \in Seq(Characters) /\ Len(p.width) \in Nat
      /\ ~Starred(p) => p.width \in Seq(DOMAIN DigitValue) /\ (p.width # <<>> => p.width[1] # "0")
  BY PartsOf DEF IsPiece, Starred
<1>4. w[b + 1] \notin FormatFlags \union DOMAIN DigitValue \union {"*"}
  <2>1. \/ w[b + 1] \in Letters \union {"."}
        \/ w[b + 1] \notin Parts
    BY BehindWidth, TypeOfPiece
  <2> QED  BY <2>1, Characters0 DEF Parts
<1>5. \A k \in 1 .. Len(p.flags) : p.flags[k] \in FormatFlags
  BY <1>3, ElementOfSeq
<1>6. Starred(p) => Len(p.width) = 1 /\ p.width[1] = "*"
  BY DEF Starred
<1>7. ~Starred(p) => \A k \in 1 .. Len(p.width) : IsDigit(p.width[k])
  BY <1>3, ElementOfSeq DEF IsDigit
<1>12. fl \in Nat /\ wl \in Nat /\ (Starred(p) => wl = 1) /\ (wl # 0 => p.width # <<>>)
  BY <1>3, <1>6, EmptySeq
<1> HIDE DEF w, a, b, fl, wl
<1>8. ASSUME NEW i \in 2 .. a PROVE w[i] \in FormatFlags
  <2>1. i - 1 \in 1 .. fl
    BY <1>1, <1>12
  <2> QED  BY <1>2, <1>5, <2>1 DEF fl
<1>9. ASSUME Starred(p) PROVE b = a + 1 /\ w[a + 1] = "*"
  <2>1. a + 1 \in a + 1 .. b /\ (a + 1) - a = 1 /\ b = a + 1
    BY <1>1, <1>9, <1>12
  <2> QED  BY <1>2, <1>6, <1>9, <2>1
<1>10. ASSUME ~Starred(p), NEW i \in a + 1 .. b PROVE IsDigit(w[i])
  <2>1. i - a \in 1 .. wl
    BY <1>1, <1>12
  <2> QED  BY <1>2, <1>7, <1>10, <2>1 DEF wl
<1>11. w[a + 1] \notin FormatFlags
  <2>1. CASE Starred(p)
    BY <1>9, <2>1, Characters0
  <2>2. CASE ~Starred(p) /\ wl = 0
    <3>1. a + 1 = b + 1
      BY <1>1, <2>2
    <3> QED  BY <1>4, <3>1
  <2>3. CASE ~Starred(p) /\ wl # 0
    <3>1. a + 1 \in a + 1 .. b /\ (a + 1) - a = 1
      BY <1>1, <1>12, <2>3
    <3>2. p.width # <<>>
      BY <1>12, <2>3
    <3>3. w[a + 1] = p.width[1] /\ w[a + 1] # "0" /\ IsDigit(w[a + 1])
      BY <1>2, <1>3, <1>10, <2>3, <3>1, <3>2
    <3> QED  BY <3>3, Characters0 DEF Parts, IsDigit
  <2> QED  BY <2>1, <2>2, <2>3
<1> QED  BY Zenon, <1>4, <1>8, <1>9, <1>10, <1>11 DEF w, a, b

LEMMA WithoutPrecision ==
    ASSUME NEW p, IsPiece(p), ~IsText(p), ~CutOff(p), p.precision = <<>>
    PROVE  /\ TypeEnd(p) = WidthEnd(p) + Len(p.length) + 1
           /\ Written(p)[TypeEnd(p)] = p.type[1] /\ p.type # <<>>
           /\ \A i \in 1 .. Len(p.length) : Written(p)[WidthEnd(p) + i] = p.length[i]
<1> DEFINE w == Written(p)
           b == WidthEnd(p)
           c == PrecisionEnd(p)
           d == LengthEnd(p)
           e == TypeEnd(p)
           ll == Len(p.length)
           tl == Len(p.type)
<1>1. p.type # <<>>
  BY DEF CutOff
<1>2. tl = 1 /\ ll \in Nat /\ Len(p.precision) = 0
  BY <1>1, PartsOf, TypeOfPiece, EmptySeq
<1>3. b \in Nat /\ c = b + Len(p.precision) /\ d = c + ll /\ e = d + tl
  BY Ends DEF PrecisionEnd, LengthEnd, TypeEnd
<1>4. /\ \A i \in c + 1 .. d : w[i] = p.length[i - c]
      /\ \A i \in d + 1 .. e : w[i] = p.type[i - d]
  BY PartsWritten
<1> HIDE DEF w, b, c, d, e, ll, tl
<1>5. c = b /\ d = b + ll /\ e = d + 1 /\ e = b + ll + 1 /\ d + 1 \in d + 1 .. e /\ (d + 1) - d = 1
  BY <1>2, <1>3
<1>6. w[e] = p.type[1]
  <2>1. w[d + 1] = p.type[(d + 1) - d]
    BY <1>4, <1>5
  <2> QED  BY Zenon, <1>5, <2>1
<1>7. ASSUME NEW i \in 1 .. ll PROVE w[b + i] = p.length[i]
  <2>1. b + i \in c + 1 .. d /\ (b + i) - c = i
    BY <1>2, <1>3, <1>5
  <2> QED  BY <1>4, <2>1
<1> QED  BY Zenon, <1>1, <1>5, <1>6, <1>7 DEF w, b, e, ll

LEMMA BehindDot ==
    ASSUME NEW p, IsPiece(p), ~IsText(p), ~CutOff(p), p.precision # <<>>
    PROVE  /\ Written(p)[WidthEnd(p) + 1] = "."
           /\ \A i \in WidthEnd(p) + 1 .. TypeEnd(p) : Written(p)[i] # "%"
<1> DEFINE w == Written(p)
           b == WidthEnd(p)
           c == PrecisionEnd(p)
           d == LengthEnd(p)
           e == TypeEnd(p)
           pl == Len(p.precision)
           ll == Len(p.length)
           tl == Len(p.type)
<1>1. w[b + 1] = "."
  BY BehindWidth
<1>2. pl \in Nat /\ ll \in Nat /\ tl \in {0, 1}
  BY PartsOf
<1>3. b \in Nat /\ c = b + pl /\ d = c + ll /\ e = d + tl
  BY Ends DEF PrecisionEnd, LengthEnd, TypeEnd
<1>4. /\ \A i \in b + 1 .. c : w[i] = p.precision[i - b]
      /\ \A i \in c + 1 .. d : w[i] = p.length[i - c]
      /\ \A i \in d + 1 .. e : w[i] = p.type[i - d]
  BY PartsWritten
<1>5. \A k \in 1 .. pl : p.precision[k] # "%"
  <2>1. p.precision \in Seq(Characters \ {"%", "NUL"})
    BY DEF IsPiece
  <2> QED  BY <2>1, ElementOfSeq
<1>6. \A k \in 1 .. ll : p.length[k] # "%"
  <2>1. \A k \in 1 .. ll : p.length[k] \in Letters
    BY Modifiers DEF IsPiece
  <2> QED  BY <2>1, Characters0 DEF Parts
<1>7. tl = 1 => p.type[1] # "%"
  <2>1. p.type # <<"%">>
    BY DEF CutOff, Percent
  <2>2. p.type # <<>> => p.type = <<p.type[1]>>
    BY TypeOfPiece
  <2>3. tl = 1 => p.type # <<>>
    BY TypeOfPiece
  <2> QED  BY Zenon, <2>1, <2>2, <2>3
<1> HIDE DEF w, b, c, d, e, pl, ll, tl
<1>8. ASSUME NEW i \in b + 1 .. e PROVE w[i] # "%"
  <2>1. CASE i <= c
    <3>1. i \in b + 1 .. c /\ i - b \in 1 .. pl
      BY <1>2, <1>3, <2>1
    <3> QED  BY <1>4, <1>5, <3>1
  <2>2. CASE i > c /\ i <= d
    <3>1. i \in c + 1 .. d /\ i - c \in 1 .. ll
      BY <1>2, <1>3, <2>2
    <3> QED  BY <1>4, <1>6, <3>1
  <2>3. CASE i > d
    <3>1. i \in d + 1 .. e /\ i - d = 1 /\ tl = 1
      BY <1>2, <1>3, <2>3
    <3> QED  BY <1>4, <1>7, <3>1
  <2>4. i \in Int /\ c \in Int /\ d \in Int
    BY <1>2, <1>3
  <2> QED  BY <2>1, <2>2, <2>3, <2>4
<1> QED  BY Zenon, <1>1, <1>8 DEF w, b, e

LEMMA TwoPercents ==
    ASSUME NEW p, IsPiece(p), ~IsText(p), ~CutOff(p), Written(p)[2] = "%"
    PROVE  /\ p.precision = <<>> /\ p.type = <<"%">>
           /\ FlagsEnd(p) = 1 /\ WidthEnd(p) = 1 /\ TypeEnd(p) = 2
<1> DEFINE w == Written(p)
           a == FlagsEnd(p)
           b == WidthEnd(p)
           e == TypeEnd(p)
<1>1. a \in Nat \ {0} /\ b \in Nat /\ a <= b
  BY Ends
<1>2. /\ \A i \in 2 .. a : w[i] \in FormatFlags
      /\ Starred(p) => b = a + 1 /\ w[a + 1] = "*"
      /\ ~Starred(p) => \A i \in a + 1 .. b : IsDigit(w[i])
  BY FlagsAndWidth
<1>3. "%" \notin FormatFlags /\ "%" \notin DOMAIN DigitValue /\ "%" # "*" /\ "%" \notin Letters
  BY Characters0 DEF Parts
<1>4. w[2] = "%"
  OBVIOUS
<1> HIDE DEF w, a, b
<1>5. a = 1
  <2>1. a # 1 => 2 \in 2 .. a
    BY <1>1
  <2> QED  BY <1>2, <1>3, <1>4, <2>1
<1>6. ~Starred(p)
  <2>1. a + 1 = 2
    BY <1>5
  <2> QED  BY Zenon, <1>2, <1>3, <1>4, <2>1
<1>7. b = 1
  <2>1. b # 1 => 2 \in a + 1 .. b
    BY <1>1, <1>5
  <2> QED  BY <1>2, <1>3, <1>4, <1>6, <2>1 DEF IsDigit
<1>8. w[b + 1] = "%"
  <2>1. b + 1 = 2
    BY <1>7
  <2> QED  BY Zenon, <1>4, <2>1
<1>9. p.precision = <<>> /\ p.length = <<>> /\ p.type # <<>> /\ p.type[1] = "%"
  <2>1. "%" # "."
    OBVIOUS
  <2> QED  BY Zenon, <1>3, <1>8, <2>1, BehindWidth DEF w, b
<1>10. p.type = <<"%">>
  <2>1. p.type = <<p.type[1]>>
    BY <1>9, TypeOfPiece
  <2> QED  BY Zenon, <1>9, <2>1
<1>11. e = 2
  <2>1. e = b + Len(p.length) + 1
    BY <1>9, WithoutPrecision DEF b
  <2>2. Len(p.length) = 0
    BY <1>9
  <2> QED  BY <1>7, <2>1, <2>2
<1> QED  BY <1>5, <1>7, <1>9, <1>10, <1>11 DEF a, b

(***************************************************************************)
(* The same in memory: a piece lies between its marks.                     *)
(***************************************************************************)
LEMMA InPiece ==
    ASSUME InputInv, NEW n \in 0 .. Len(format) - 1
    PROVE  /\ Len(format) \in Nat /\ n + 1 \in DOMAIN format /\ n + 1 \in 0 .. Len(format)
           /\ IsPiece(format[n + 1])
           /\ After[n].fmt \in Nat \ {0} /\ After[n].args \in Nat \ {0}
           /\ After[n + 1].fmt = After[n].fmt + Len(Written(format[n + 1]))
           /\ After[n + 1].args = After[n].args + Slots(format[n + 1])
           /\ \A k \in 1 .. Len(Written(format[n + 1])) :
                 memory[After[n].fmt + (k - 1)] = Written(format[n + 1])[k]
<1> DEFINE N == Len(format)
           w == Written(format[n + 1])
           s == After[n].fmt
           t == After[n + 1].fmt
           l == Len(w)
<1>1. N \in Nat /\ DOMAIN format = 1 .. N /\ \A m \in 1 .. N : IsPiece(format[m])
  BY Pieces DEF InputInv
<1>2. n + 1 \in 1 .. N /\ n + 1 \in 0 .. N /\ (n + 1) - 1 = n /\ n \in 0 .. N
  <2> HIDE DEF N
  <2>1. n \in 0 .. N - 1
    BY DEF N
  <2> QED  BY <1>1, <2>1
<1>3. IsPiece(format[n + 1])
  BY <1>1, <1>2
<1>4. l \in Nat
  BY <1>3, WrittenIsText
<1>5. s \in Nat \ {0} /\ After[n].args \in Nat \ {0}
  BY <1>2, MarksAscend DEF InputInv
<1>6. t = s + l /\ After[n + 1].args = After[n].args + Slots(format[n + 1])
  <2>1. \A m \in 1 .. N : /\ After[m].fmt = After[m - 1].fmt + Len(Written(format[m]))
                          /\ After[m].args = After[m - 1].args + Slots(format[m])
    BY AfterUnfolds DEF InputInv
  <2> QED  BY Zenon, <1>2, <2>1
<1>7. \A i \in s .. t - 1 : memory[i] = w[i - (s - 1)]
  <2>1. \A m \in 1 .. N : \A i \in After[m - 1].fmt .. After[m].fmt - 1 :
            memory[i] = Written(format[m])[i - (After[m - 1].fmt - 1)]
    BY Memory DEF InputInv
  <2> QED  BY Zenon, <1>2, <2>1
<1> HIDE DEF N, w, s, t, l
<1>8. ASSUME NEW k \in 1 .. l PROVE memory[s + (k - 1)] = w[k]
  <2>1. s + (k - 1) \in s .. t - 1 /\ (s + (k - 1)) - (s - 1) = k
    BY <1>4, <1>5, <1>6
  <2>2. memory[s + (k - 1)] = w[(s + (k - 1)) - (s - 1)]
    BY Zenon, <1>7, <2>1
  <2> QED  BY Zenon, <2>1, <2>2
<1> QED  BY Zenon, <1>1, <1>2, <1>3, <1>5, <1>6, <1>8 DEF N, w, s, t, l

LEMMA Borders ==
    ASSUME InputInv, NEW n \in 0 .. Len(format) - 1, ~IsText(format[n + 1]),
           Sound \/ ~CutOff(format[n + 1])
    PROVE  /\ IsPiece(format[n + 1]) /\ ~CutOff(format[n + 1])
           /\ After[n].fmt \in Nat \ {0} /\ After[n + 1].fmt \in Nat
           /\ Flagged(n) \in Nat /\ Padded(n) \in Nat
           /\ After[n].fmt < Flagged(n) /\ Flagged(n) <= Padded(n) /\ Padded(n) < After[n + 1].fmt
           /\ After[n + 1].fmt = After[n].fmt + TypeEnd(format[n + 1])
           /\ FlagsEnd(format[n + 1]) \in Nat \ {0} /\ WidthEnd(format[n + 1]) \in Nat
           /\ TypeEnd(format[n + 1]) \in Nat
<1> DEFINE p == format[n + 1]
           s == After[n].fmt
           t == After[n + 1].fmt
           a == FlagsEnd(p)
           b == WidthEnd(p)
           e == TypeEnd(p)
<1>1. IsPiece(p) /\ ~CutOff(p)
  BY InPiece DEF Sound
<1>2. s \in Nat \ {0} /\ t = s + Len(Written(p))
  BY InPiece
<1>3. Len(Written(p)) = e
  BY <1>1, PartsWritten
<1>4. a \in Nat \ {0} /\ b \in Nat /\ a <= b /\ e \in Nat /\ b + 1 <= e
  <2>1. e \in {LengthEnd(p), LengthEnd(p) + 1} /\ LengthEnd(p) \in Nat
    BY <1>1, Ends
  <2>2. e \in Nat
    <3> HIDE DEF e
    <3> QED  BY <2>1
  <2> QED  BY <1>1, <2>2, Ends, BehindWidth
<1>5. Flagged(n) = s + a /\ Padded(n) = s + b
  BY DEF Flagged, Padded
<1> HIDE DEF p, s, t, a, b, e
<1>6. t = s + e
  BY <1>2, <1>3
<1>7. /\ t \in Nat /\ Flagged(n) \in Nat /\ Padded(n) \in Nat
      /\ s < Flagged(n) /\ Flagged(n) <= Padded(n) /\ Padded(n) < t
  BY <1>2, <1>4, <1>5, <1>6
<1> QED  BY Zenon, <1>1, <1>2, <1>4, <1>6, <1>7 DEF p, s, t, a, b, e

LEMMA DirectiveInMemory ==
    ASSUME InputInv, NEW n \in 0 .. Len(format) - 1, ~IsText(format[n + 1]),
           Sound \/ ~CutOff(format[n + 1])
    PROVE  /\ memory[After[n].fmt] = "%"
           /\ \A i \in After[n].fmt + 1 .. Flagged(n) - 1 : memory[i] \in FormatFlags
           /\ memory[Flagged(n)] \notin FormatFlags
           /\ Starred(format[n + 1]) => Padded(n) = Flagged(n) + 1 /\ memory[Flagged(n)] = "*"
           /\ ~Starred(format[n + 1]) => \A i \in Flagged(n) .. Padded(n) - 1 : IsDigit(memory[i])
           /\ memory[Padded(n)] \notin FormatFlags \union DOMAIN DigitValue \union {"*"}
<1> DEFINE p == format[n + 1]
           w == Written(p)
           s == After[n].fmt
           a == FlagsEnd(p)
           b == WidthEnd(p)
           e == TypeEnd(p)
           F == Flagged(n)
           P == Padded(n)
<1>1. /\ IsPiece(p) /\ ~CutOff(p) /\ ~IsText(p)
      /\ s \in Nat \ {0} /\ a \in Nat \ {0} /\ b \in Nat /\ e \in Nat
      /\ s < F /\ F <= P /\ P < s + e
  BY Borders
<1>2. F = s + a /\ P = s + b
  BY DEF Flagged, Padded
<1>3. \A k \in 1 .. e : memory[s + (k - 1)] = w[k]
  <2>1. Len(w) = e
    BY <1>1, PartsWritten
  <2>2. \A k \in 1 .. Len(w) : memory[s + (k - 1)] = w[k]
    BY InPiece
  <2> QED  BY Zenon, <2>1, <2>2
<1>4. /\ \A i \in 2 .. a : w[i] \in FormatFlags
      /\ w[b + 1] \notin FormatFlags \union DOMAIN DigitValue \union {"*"}
      /\ Starred(p) => b = a + 1 /\ w[a + 1] = "*"
      /\ ~Starred(p) => \A i \in a + 1 .. b : IsDigit(w[i])
      /\ w[a + 1] \notin FormatFlags
  BY Zenon, <1>1, FlagsAndWidth
<1>5. w[1] = "%"
  BY <1>1, PartsWritten
<1> HIDE DEF p, w, s, a, b, e, F, P
<1>6. a <= b /\ b + 1 <= e
  BY <1>1, <1>2
<1>7. memory[s] = "%"
  <2>1. 1 \in 1 .. e /\ s + (1 - 1) = s
    BY <1>1, <1>6
  <2> QED  BY Zenon, <1>3, <1>5, <2>1
<1>8. ASSUME NEW i \in s + 1 .. F - 1 PROVE memory[i] \in FormatFlags
  <2> DEFINE k == i - s + 1
  <2>1. k \in 2 .. a /\ k \in 1 .. e /\ s + (k - 1) = i
    BY <1>1, <1>2, <1>6
  <2> HIDE DEF k
  <2> QED  BY Zenon, <1>3, <1>4, <2>1
<1>9. memory[F] = w[a + 1]
  <2>1. a + 1 \in 1 .. e /\ s + ((a + 1) - 1) = F
    BY <1>1, <1>2, <1>6
  <2> QED  BY Zenon, <1>3, <2>1
<1>10. memory[P] = w[b + 1]
  <2>1. b + 1 \in 1 .. e /\ s + ((b + 1) - 1) = P
    BY <1>1, <1>2, <1>6
  <2> QED  BY Zenon, <1>3, <2>1
<1>11. Starred(p) => P = F + 1
  <2>1. b = a + 1 => P = F + 1
    BY <1>1, <1>2
  <2> QED  BY <1>4, <2>1
<1>12. ASSUME ~Starred(p), NEW i \in F .. P - 1 PROVE IsDigit(memory[i])
  <2> DEFINE k == i - s + 1
  <2>1. k \in a + 1 .. b /\ k \in 1 .. e /\ s + (k - 1) = i
    BY <1>1, <1>2, <1>6
  <2> HIDE DEF k
  <2>2. IsDigit(w[k])
    BY Zenon, <1>4, <1>12, <2>1
  <2>3. memory[i] = w[k]
    BY Zenon, <1>3, <2>1
  <2> QED  BY Zenon, <2>2, <2>3
<1>13. /\ memory[F] \notin FormatFlags /\ (Starred(p) => memory[F] = "*")
       /\ memory[P] \notin FormatFlags \union DOMAIN DigitValue \union {"*"}
  BY Zenon, <1>4, <1>9, <1>10
<1> QED  BY Zenon, <1>7, <1>8, <1>11, <1>12, <1>13 DEF p, s, F, P

\* What stands behind the field width, and a second '%'.
LEMMA EndOfDirective ==
    ASSUME InputInv, NEW n \in 0 .. Len(format) - 1, ~IsText(format[n + 1]),
           Sound \/ ~CutOff(format[n + 1])
    PROVE  /\ format[n + 1].precision # <<>> =>
                 /\ memory[Padded(n)] = "."
                 /\ \A i \in Padded(n) .. After[n + 1].fmt - 1 : memory[i] # "%"
           /\ format[n + 1].precision = <<>> =>
                 /\ After[n + 1].fmt = Padded(n) + Len(format[n + 1].length) + 1
                 /\ memory[Padded(n) + Len(format[n + 1].length)] = format[n + 1].type[1]
                 /\ format[n + 1].type # <<>>
                 /\ \A i \in 1 .. Len(format[n + 1].length) :
                       memory[Padded(n) + (i - 1)] = format[n + 1].length[i]
           /\ memory[After[n].fmt + 1] = "%" =>
                 /\ format[n + 1].precision = <<>> /\ format[n + 1].type = <<"%">>
                 /\ After[n + 1].fmt = After[n].fmt + 2
<1> DEFINE p == format[n + 1]
           w == Written(p)
           s == After[n].fmt
           t == After[n + 1].fmt
           a == FlagsEnd(p)
           b == WidthEnd(p)
           e == TypeEnd(p)
           P == Padded(n)
           l == Len(p.length)
<1>1. /\ IsPiece(p) /\ ~CutOff(p) /\ ~IsText(p)
      /\ s \in Nat \ {0} /\ a \in Nat \ {0} /\ b \in Nat /\ e \in Nat /\ t = s + e /\ P < t
      /\ a <= b
  BY Borders, Ends
<1>2. P = s + b
  BY DEF Padded
<1>3. \A k \in 1 .. e : memory[s + (k - 1)] = w[k]
  <2>1. Len(w) = e
    BY <1>1, PartsWritten
  <2>2. \A k \in 1 .. Len(w) : memory[s + (k - 1)] = w[k]
    BY InPiece
  <2> QED  BY Zenon, <2>1, <2>2
<1>4. p.precision # <<>> => w[b + 1] = "." /\ \A i \in b + 1 .. e : w[i] # "%"
  BY Zenon, <1>1, BehindDot
<1>5. p.precision = <<>> => /\ e = b + l + 1 /\ w[e] = p.type[1] /\ p.type # <<>>
                            /\ \A i \in 1 .. l : w[b + i] = p.length[i]
  BY Zenon, <1>1, WithoutPrecision
<1>6. w[2] = "%" => p.precision = <<>> /\ p.type = <<"%">> /\ e = 2
  BY Zenon, <1>1, TwoPercents
<1>7. l \in Nat
  BY <1>1, PartsOf
<1> HIDE DEF p, w, s, t, a, b, e, P, l
<1>8. b + 1 <= e
  BY <1>1, <1>2
<1>9. ASSUME p.precision # <<>>
      PROVE  memory[P] = "." /\ \A i \in P .. t - 1 : memory[i] # "%"
  <2>1. b + 1 \in 1 .. e /\ s + ((b + 1) - 1) = P
    BY <1>1, <1>2, <1>8
  <2>2. memory[P] = "."
    BY Zenon, <1>3, <1>4, <1>9, <2>1
  <2>3. ASSUME NEW i \in P .. t - 1 PROVE memory[i] # "%"
    <3> DEFINE k == i - s + 1
    <3>1. k \in b + 1 .. e /\ k \in 1 .. e /\ s + (k - 1) = i
      BY <1>1, <1>2, <1>8
    <3> HIDE DEF k
    <3>2. w[k] # "%"
      BY Zenon, <1>4, <1>9, <3>1
    <3>3. memory[i] = w[k]
      BY Zenon, <1>3, <3>1
    <3> QED  BY Zenon, <3>2, <3>3
  <2> QED  BY Zenon, <2>2, <2>3
<1>10. ASSUME p.precision = <<>>
       PROVE  /\ t = P + l + 1 /\ memory[P + l] = p.type[1] /\ p.type # <<>>
              /\ \A i \in 1 .. l : memory[P + (i - 1)] = p.length[i]
  <2>1. e = b + l + 1
    BY <1>5, <1>10
  <2>2. t = P + l + 1 /\ e \in 1 .. e /\ s + (e - 1) = P + l
    BY <1>1, <1>2, <1>7, <1>8, <2>1
  <2>3. memory[P + l] = p.type[1]
    BY Zenon, <1>3, <1>5, <1>10, <2>2
  <2>4. ASSUME NEW i \in 1 .. l PROVE memory[P + (i - 1)] = p.length[i]
    <3>1. b + i \in 1 .. e /\ s + ((b + i) - 1) = P + (i - 1)
      BY <1>1, <1>2, <1>7, <2>1
    <3> QED  BY Zenon, <1>3, <1>5, <1>10, <3>1
  <2> QED  BY Zenon, <1>5, <1>10, <2>2, <2>3, <2>4
<1>11. ASSUME memory[s + 1] = "%"
       PROVE  p.precision = <<>> /\ p.type = <<"%">> /\ t = s + 2
  <2>1. 2 \in 1 .. e /\ s + (2 - 1) = s + 1
    BY <1>1, <1>8
  <2>2. w[2] = "%"
    BY Zenon, <1>3, <1>11, <2>1
  <2> QED  BY <1>1, <1>6, <2>2
<1> QED  BY Zenon, <1>9, <1>10, <1>11 DEF p, s, t, P, l

\* The modifier that stands in a directive is the one its author wrote.
LEMMA ModifierValues ==
    ASSUME NEW p
    PROVE  /\ p.length = <<>> => ModifierOf(p) = ""
           /\ p.length = <<"h">> => ModifierOf(p) = "h"
           /\ p.length = <<"h", "h">> => ModifierOf(p) = "hh"
           /\ p.length = <<"l">> => ModifierOf(p) = "l"
           /\ p.length = <<"l", "l">> => ModifierOf(p) = "ll"
           /\ p.length = <<"j">> => ModifierOf(p) = "j"
           /\ p.length = <<"z">> => ModifierOf(p) = "z"
           /\ p.length = <<"t">> => ModifierOf(p) = "t"
           /\ p.length = <<"L">> => ModifierOf(p) = "L"
<1>1. ASSUME p.length = <<>> PROVE ModifierOf(p) = ""
  BY <1>1 DEF ModifierOf
<1>2. ASSUME p.length = <<"h">> PROVE ModifierOf(p) = "h"
  BY <1>2 DEF ModifierOf
<1>3. ASSUME p.length = <<"h", "h">> PROVE ModifierOf(p) = "hh"
  BY <1>3 DEF ModifierOf
<1>4. ASSUME p.length = <<"l">> PROVE ModifierOf(p) = "l"
  BY <1>4 DEF ModifierOf
<1>5. ASSUME p.length = <<"l", "l">> PROVE ModifierOf(p) = "ll"
  BY <1>5 DEF ModifierOf
<1>6. ASSUME p.length = <<"j">> PROVE ModifierOf(p) = "j"
  BY <1>6 DEF ModifierOf
<1>7. ASSUME p.length = <<"z">> PROVE ModifierOf(p) = "z"
  BY <1>7 DEF ModifierOf
<1>8. ASSUME p.length = <<"t">> PROVE ModifierOf(p) = "t"
  BY <1>8 DEF ModifierOf
<1>9. ASSUME p.length = <<"L">> PROVE ModifierOf(p) = "L"
  BY <1>9 DEF ModifierOf
<1> QED  BY Zenon, <1>1, <1>2, <1>3, <1>4, <1>5, <1>6, <1>7, <1>8, <1>9

LEMMA ModifierTable ==
    ASSUME NEW p, p.length \in LengthModifiers
    PROVE  \/ p.length = <<>> /\ ModifierOf(p) = "" /\ Len(p.length) = 0
           \/ \E c \in Letters : /\ p.length = <<c>> /\ p.length[1] = c /\ Len(p.length) = 1
                                 /\ ModifierOf(p) = c
           \/ /\ p.length = <<"h", "h">> /\ p.length[1] = "h" /\ p.length[2] = "h"
              /\ Len(p.length) = 2 /\ ModifierOf(p) = "hh"
           \/ /\ p.length = <<"l", "l">> /\ p.length[1] = "l" /\ p.length[2] = "l"
              /\ Len(p.length) = 2 /\ ModifierOf(p) = "ll"
<1>1. CASE p.length = <<>>
  BY <1>1 DEF ModifierOf
<1>2. CASE p.length = <<"h", "h">>
  BY <1>2 DEF ModifierOf
<1>3. CASE p.length = <<"l", "l">>
  BY <1>3 DEF ModifierOf
<1>4. CASE p.length \in {<<"h">>, <<"l">>, <<"j">>, <<"z">>, <<"t">>, <<"L">>}
  <2>3. PICK c \in Letters : p.length = <<c>>
    BY <1>4 DEF Letters
  <2>4. c \in {"h", "l", "j", "z", "t", "L"}
    BY DEF Letters
  <2>5. ModifierOf(p) = c
    BY Zenon, <2>3, <2>4, ModifierValues
  <2>6. p.length[1] = c /\ Len(p.length) = 1
    BY <2>3
  <2> QED  BY <2>3, <2>5, <2>6
<1> QED  BY <1>1, <1>2, <1>3, <1>4 DEF LengthModifiers

LEMMA ModifierAt ==
    ASSUME InputInv, NEW n \in 0 .. Len(format) - 1, ~IsText(format[n + 1]),
           Sound \/ ~CutOff(format[n + 1])
    PROVE  /\ format[n + 1].precision # <<>> => WidthAt(Padded(n)) = ""
           /\ format[n + 1].precision = <<>> =>
                 /\ WidthAt(Padded(n)) = ModifierOf(format[n + 1])
                 /\ LengthOf(ModifierOf(format[n + 1])) = Len(format[n + 1].length)
<1> DEFINE p == format[n + 1]
           P == Padded(n)
           l == Len(p.length)
           c == p.type[1]
<1>1. IsPiece(p) /\ ~IsText(p) /\ P \in Nat
  BY Borders
<1>2. ASSUME p.precision # <<>> PROVE WidthAt(P) = ""
  <2>1. memory[P] = "."
    BY <1>2, EndOfDirective
  <2> QED  BY <2>1 DEF WidthAt
<1>3. ASSUME p.precision = <<>>
      PROVE  WidthAt(P) = ModifierOf(p) /\ LengthOf(ModifierOf(p)) = l
  <2>1. memory[P + l] = c /\ p.type # <<>> /\ \A i \in 1 .. l : memory[P + (i - 1)] = p.length[i]
    BY <1>3, EndOfDirective
  <2>2. c \notin Letters
    BY <1>1, <2>1, TypeOfPiece DEF Parts
  <2>3. p.length \in LengthModifiers
    BY <1>1 DEF IsPiece
  <2> DEFINE x == memory[P]
             y == memory[P + 1]
  <2>4. /\ l = 0 => x = c
        /\ l = 1 => x = p.length[1] /\ y = c
        /\ l = 2 => x = p.length[1] /\ y = p.length[2]
    <3> HIDE DEF P, l, c
    <3>1. P + 0 = P /\ P + (1 - 1) = P /\ P + (2 - 1) = P + 1
      BY <1>1
    <3>2. 1 \in 1 .. 1 /\ 1 \in 1 .. 2 /\ 2 \in 1 .. 2
      OBVIOUS
    <3> QED  BY Zenon, <2>1, <3>1, <3>2
  <2>5. WidthAt(P) = CASE x = "h" -> IF y = "h" THEN "hh" ELSE "h"
                       [] x = "l" -> IF y = "l" THEN "ll" ELSE "l"
                       [] x \in {"j", "z", "t", "L"} -> x
                       [] OTHER -> ""
    BY Zenon DEF WidthAt
  <2> HIDE DEF x, y, c, P
  <2>6. CASE l = 0 /\ ModifierOf(p) = ""
    <3>1. x \notin Letters
      BY <2>2, <2>4, <2>6
    <3>2. WidthAt(P) = ""
      BY <2>5, <3>1 DEF Letters
    <3> QED  BY <2>6, <3>2 DEF LengthOf
  <2>7. ASSUME NEW d \in Letters, l = 1, ModifierOf(p) = d, p.length[1] = d
        PROVE  WidthAt(P) = ModifierOf(p) /\ LengthOf(ModifierOf(p)) = l
    <3>1. x = d /\ y \notin Letters
      BY <2>2, <2>4, <2>7
    <3>2. WidthAt(P) = d
      BY <2>5, <3>1 DEF Letters
    <3>3. LengthOf(d) = 1
      BY DEF LengthOf, Letters
    <3> QED  BY Zenon, <2>7, <3>2, <3>3
  <2>8. CASE l = 2 /\ p.length[1] = "h" /\ p.length[2] = "h" /\ ModifierOf(p) = "hh"
    <3>1. x = "h" /\ y = "h"
      BY <2>4, <2>8
    <3> QED  BY <2>5, <2>8, <3>1 DEF LengthOf
  <2>9. CASE l = 2 /\ p.length[1] = "l" /\ p.length[2] = "l" /\ ModifierOf(p) = "ll"
    <3>1. x = "l" /\ y = "l"
      BY <2>4, <2>9
    <3> QED  BY <2>5, <2>9, <3>1 DEF LengthOf
  <2> QED  BY Zenon, <2>3, <2>6, <2>7, <2>8, <2>9, ModifierTable DEF P
<1> QED  BY Zenon, <1>2, <1>3 DEF p, P, l

\* An understood directive takes as many slots as C11 gives it.
LEMMA SlotsAsWritten ==
    ASSUME NEW p, IsPiece(p), ~IsText(p), Understood(p), NEW s \in Directives,
           s.width = ModifierOf(p), NEW at, memory[at] = p.type[1],
           NEW v, v = Validated([s EXCEPT !.type = TypeAt(at)])
    PROVE  (IF v.type \in {"empty", "%"} THEN 0 ELSE SlotsOf(v.width))
               + (IF Starred(p) THEN 1 ELSE 0) = Slots(p)
<1> DEFINE c == p.type[1]
           r == [s EXCEPT !.type = TypeAt(at)]
           takes == IF v.type \in {"empty", "%"} THEN 0 ELSE SlotsOf(v.width)
<1>1. p.length \in LengthModifiers
  BY DEF IsPiece
<1>2. r.width = s.width /\ r.type = TypeAt(at)
  BY DEF Directives
<1>3. CASE Percent(p)
  <2>1. c = "%"
    BY <1>3 DEF Percent
  <2>2. TypeAt(at) = "%"
    BY <2>1 DEF TypeAt, FormatTypes
  <2>3. v.type \in {"%", "empty"}
    <3>1. v = r \/ v = [r EXCEPT !.type = "empty"]
      BY Zenon DEF Validated
    <3>2. [r EXCEPT !.type = "empty"].type = "empty"
      BY DEF Directives
    <3> QED  BY Zenon, <1>2, <2>2, <3>1, <3>2
  <2>4. p.width = <<>>
    <3>1. Type(p) = "%"
      BY <2>1, <1>3 DEF Type, Percent
    <3> QED  BY <3>1 DEF Understood, Signed, Unsigned
  <2>5. (IF Starred(p) THEN 1 ELSE 0) = 0
    BY <2>4 DEF Starred
  <2>6. Slots(p) = 0
    BY <1>3 DEF Slots
  <2>7. takes = 0
    BY <2>3
  <2> QED  BY <2>5, <2>6, <2>7
<1>4. CASE ~Percent(p)
  <2>1. \/ Type(p) \in {"c", "s", "p"} /\ p.length = <<>>
        \/ Type(p) \in {"d", "i", "o", "x", "X", "u"} /\ p.length # <<"L">>
    BY <1>4 DEF Understood, Signed, Unsigned
  <2>2. Type(p) = c
    BY <2>1 DEF Type
  <2>3. \/ TypeAt(at) \in {"c", "s", "p"} /\ p.length = <<>>
        \/ TypeAt(at) \in {"d", "o", "x", "X", "u"} /\ p.length # <<"L">>
    BY <2>1, <2>2 DEF TypeAt, FormatTypes
  <2>4. /\ p.length = <<>> => ModifierOf(p) = ""
        /\ p.length # <<"L">> => ModifierOf(p) # "L"
        /\ SlotsOf(ModifierOf(p)) = IF p.length \in {<<"l", "l">>, <<"j">>} THEN 2 ELSE 1
    <3>3. /\ p.length # <<"L">> => ModifierOf(p) # "L"
          /\ p.length \in {<<"l", "l">>, <<"j">>} <=> ModifierOf(p) \in {"ll", "j"}
      BY <1>1, ModifierValues DEF LengthModifiers
    <3>4. SlotsOf(ModifierOf(p)) = IF p.length \in {<<"l", "l">>, <<"j">>} THEN 2 ELSE 1
      BY Zenon, <3>3 DEF SlotsOf
    <3> QED  BY Zenon, <3>3, <3>4, ModifierValues
  <2>5. is_valid_spec(r)
    BY <1>2, <2>3, <2>4 DEF is_valid_spec
  <2>6. v = r
    BY Zenon, <2>5 DEF Validated
  <2>7. takes = SlotsOf(ModifierOf(p))
    <3>1. v.type \notin {"empty", "%"}
      BY <1>2, <2>3, <2>6
    <3>2. SlotsOf(v.width) = SlotsOf(ModifierOf(p))
      BY Zenon, <1>2, <2>6
    <3> QED  BY Zenon, <3>1, <3>2
  <2> DEFINE two == IF p.length \in {<<"l", "l">>, <<"j">>} THEN 2 ELSE 1
             star == IF Starred(p) THEN 1 ELSE 0
  <2>8. Slots(p) = star + two
    <3>1. StarSlots(p) = star
      BY Zenon DEF StarSlots
    <3> QED  BY Zenon, <1>4, <3>1 DEF Slots, TwoSlots
  <2>9. takes = two
    BY Zenon, <2>4, <2>7
  <2>10. star \in {0, 1} /\ two \in {1, 2}
    OBVIOUS
  <2> HIDE DEF takes, star, two
  <2>11. takes + star = Slots(p)
    BY <2>8, <2>9, <2>10
  <2> QED  BY <2>11 DEF takes, star
<1> QED  BY <1>3, <1>4

(***************************************************************************)
(* How a step gets to a place.                                             *)
(***************************************************************************)
LEMMA PlacesStay ==
    ASSUME UNCHANGED input
    PROVE  /\ format' = format /\ memory' = memory /\ After' = After
           /\ Sound' <=> Sound
           /\ Known' <=> Known
           /\ \A n : /\ Flagged(n)' = Flagged(n) /\ Padded(n)' = Padded(n)
                     /\ EndOf(n)' = EndOf(n) /\ StarOf(n)' = StarOf(n)
<1>1. format' = format /\ memory' = memory
  BY DEF input
<1>2. After' = After
  BY <1>1 DEF After
<1>3. (Sound' <=> Sound) /\ (Known' <=> Known)
  BY <1>1 DEF Sound, Known
<1>4. \A n : Flagged(n)' = Flagged(n) /\ Padded(n)' = Padded(n) /\ StarOf(n)' = StarOf(n)
  BY <1>1, <1>2 DEF Flagged, Padded, StarOf
<1>5. \A n : EndOf(n)' = EndOf(n)
  BY <1>1, <1>2, <1>4 DEF EndOf
<1> QED  BY <1>1, <1>2, <1>3, <1>4, <1>5

LEMMA CutOffAnyway ==
    ASSUME UNCHANGED input, ~Sound
    PROVE  StepInv'
BY PlacesStay DEF StepInv

LEMMA BackInLoop ==
    ASSUME UNCHANGED input, pc' \in {"call", "scan", "return"},
           \/ \E n \in 0 .. Len(format) : fmt' = After[n].fmt /\ (Known => args' = After[n].args)
           \/ /\ ~Known
              /\ \E n \in 0 .. Len(format) - 1 :
                    /\ ~IsText(format[n + 1]) /\ format[n + 1].precision # <<>>
                    /\ fmt' \in Padded(n) + 1 .. After[n + 1].fmt
    PROVE  StepInv'
<1>1. /\ format' = format /\ After' = After /\ (Known' <=> Known)
      /\ \A n : Padded(n)' = Padded(n)
  BY PlacesStay
<1>2. InLoop'
  BY <1>1 DEF InLoop
<1>3. pc' \notin Parsing \union {"type", "stars", "format"}
  BY DEF Parsing
<1> QED  BY <1>2, <1>3 DEF StepInv

LEMMA IntoDirective ==
    ASSUME UNCHANGED input, pc' \in Parsing \union {"type"}, NEW n \in 0 .. Len(format) - 1,
           ~IsText(format[n + 1]), Known => args' = After[n].args,
           pc' = "flags" => fmt' \in After[n].fmt + 1 .. Flagged(n) /\ spec'.padKind = "default",
           pc' = "padding" => /\ fmt' \in Flagged(n) .. Padded(n)
                              /\ spec'.padKind = IF fmt' = Flagged(n) THEN "default" ELSE "given"
                              /\ Starred(format[n + 1]) => fmt' = Flagged(n),
           pc' \in {"precision", "width"} => fmt' = Padded(n) /\ StarsLeft' = StarOf(n),
           pc' = "type" =>
               /\ StarsLeft' = StarOf(n)
               /\ IF format[n + 1].precision = <<>>
                  THEN /\ fmt' = Padded(n) + Len(format[n + 1].length)
                       /\ spec'.width = ModifierOf(format[n + 1])
                  ELSE fmt' = Padded(n)
    PROVE  StepInv'
<1>1. /\ format' = format /\ After' = After /\ (Known' <=> Known)
      /\ Flagged(n)' = Flagged(n) /\ Padded(n)' = Padded(n) /\ StarOf(n)' = StarOf(n)
  BY PlacesStay
<1>2. InDirective(n)'
  BY Zenon, <1>1 DEF InDirective
<1>3. pc' \notin {"call", "scan", "return", "stars", "format"}
  BY DEF Parsing
<1>4. \E m \in 0 .. Len(format') - 1 : InDirective(m)'
  BY <1>1, <1>2
<1> QED  BY Zenon, <1>3, <1>4 DEF StepInv

LEMMA BehindDirective ==
    ASSUME UNCHANGED input, pc' \in {"stars", "format"}, NEW n \in 0 .. Len(format) - 1,
           ~IsText(format[n + 1]), fmt' = EndOf(n),
           Known => args' + (IF pc' = "stars" THEN StarsLeft' ELSE 0) + Takes' = After[n + 1].args
    PROVE  StepInv'
<1>1. /\ format' = format /\ After' = After /\ (Known' <=> Known) /\ EndOf(n)' = EndOf(n)
  BY PlacesStay
<1>2. DirectiveDone(n)'
  BY Zenon, <1>1 DEF DirectiveDone
<1>3. pc' \notin {"call", "scan", "return", "type"} \union Parsing
  BY DEF Parsing
<1>4. \E m \in 0 .. Len(format') - 1 : DirectiveDone(m)'
  BY <1>1, <1>2
<1> QED  BY Zenon, <1>3, <1>4 DEF StepInv

\* The numbers among the state.
LEMMA NumbersOfState ==
    ASSUME IInv
    PROVE  /\ fmt \in Nat \ {0} /\ args \in Nat \ {0}
           /\ StarsLeft \in {0, 1} /\ Takes \in {0, 1, 2}
<1>1. InputInv /\ PlaceInv /\ SlotsInv
  BY DEF IInv
<1>2. Len(memory) \in Nat /\ fmt \in 1 .. Len(memory)
  BY <1>1, CharactersOfMemory DEF PlaceInv
<1>3. fmt \in Nat \ {0}
  BY <1>2
<1> QED  BY <1>1, <1>3 DEF SlotsInv, StarsLeft, Takes, SlotsOf

\* Before the terminator the loop is at a piece, or in what a precision has left.
LEMMA AtPiece ==
    ASSUME IInv, Sound, InLoop, Char # "NUL"
    PROVE  \/ \E n \in 0 .. Len(format) - 1 : fmt = After[n].fmt /\ (Known => args = After[n].args)
           \/ /\ ~Known
              /\ \E n \in 0 .. Len(format) - 1 :
                    /\ ~IsText(format[n + 1]) /\ format[n + 1].precision # <<>>
                    /\ fmt \in Padded(n) + 1 .. After[n + 1].fmt - 1
<1> DEFINE N == Len(format)
<1>1. InputInv /\ N \in Nat /\ memory[After[N].fmt] = "NUL"
  BY Memory, Pieces DEF IInv, InputInv, Terminator
<1>2. fmt # After[N].fmt
  BY <1>1 DEF Char
<1>3. \A n \in 0 .. N - 1 : /\ n + 1 \in 0 .. N /\ Padded(n) \in Nat /\ After[n + 1].fmt \in Nat
                            \/ IsText(format[n + 1])
  BY <1>1, Borders, InPiece
<1>4. fmt \in Nat
  BY NumbersOfState
<1>5. CASE \E n \in 0 .. N : fmt = After[n].fmt /\ (Known => args = After[n].args)
  <2>1. PICK n \in 0 .. N : fmt = After[n].fmt /\ (Known => args = After[n].args)
    BY <1>5
  <2>2. n # N
    BY <1>2, <2>1
  <2>3. n \in 0 .. N - 1
    <3> HIDE DEF N
    <3> QED  BY <1>1, <2>2
  <2> QED  BY <2>1, <2>3
<1>6. CASE ~Known /\ \E n \in 0 .. N - 1 : /\ ~IsText(format[n + 1]) /\ format[n + 1].precision # <<>>
                                           /\ fmt \in Padded(n) + 1 .. After[n + 1].fmt
  <2>1. PICK n \in 0 .. N - 1 : /\ ~IsText(format[n + 1]) /\ format[n + 1].precision # <<>>
                                /\ fmt \in Padded(n) + 1 .. After[n + 1].fmt
    BY <1>6
  <2> DEFINE P == Padded(n)
             t == After[n + 1].fmt
  <2>2. P \in Nat /\ t \in Nat
    BY <1>3, <2>1
  <2>3. CASE fmt = t
    <3>1. n + 1 # N
      BY <1>2, <2>3
    <3>2. n + 1 \in 0 .. N - 1
      <4> HIDE DEF N, t, P
      <4> QED  BY <1>1, <3>1
    <3> QED  BY <1>6, <2>3, <3>2
  <2>4. CASE fmt # t
    <3>1. fmt \in P + 1 .. t - 1
      <4> HIDE DEF P, t
      <4>1. fmt \in P + 1 .. t
        BY <2>1 DEF P, t
      <4> QED  BY <1>4, <2>2, <2>4, <4>1
    <3> QED  BY <1>6, <2>1, <3>1
  <2> QED  BY <2>3, <2>4
<1> QED  BY <1>5, <1>6 DEF InLoop

(***************************************************************************)
(* The actions.                                                            *)
(***************************************************************************)
LEMMA InitStep ==
    ASSUME Init
    PROVE  StepInv
<1>1. format \in Formats /\ fmt = 1 /\ args = 1 /\ pc = "call"
  BY Zenon DEF Init
<1>2. /\ Len(format) \in Nat /\ After[0].fmt = 1 /\ After[0].args = 1
  BY <1>1, Pieces, AfterUnfolds
<1>3. 0 \in 0 .. Len(format)
  BY <1>2
<1>4. InLoop
  BY <1>1, <1>2, <1>3 DEF InLoop
<1> QED  BY <1>1, <1>4 DEF StepInv, Parsing

LEMMA CallSteps ==
    ASSUME StepInv, Call \/ Return
    PROVE  StepInv'
<1>1. /\ pc \in {"call", "scan"} /\ pc' \in {"scan", "return"}
      /\ UNCHANGED input /\ fmt' = fmt /\ args' = args
  BY DEF Call, Return
<1>2. CASE ~Sound
  BY <1>1, <1>2, CutOffAnyway
<1>3. CASE Sound
  <2>1. InLoop
    BY <1>1, <1>3 DEF StepInv
  <2> QED  BY <1>1, <2>1, BackInLoop DEF InLoop
<1> QED  BY <1>2, <1>3

LEMMA PositiveIsNat == \A n \in Nat \ {0} : n \in Nat
OBVIOUS

LEMMA LiteralSteps ==
    ASSUME IInv, StepInv, WriteLiteral
    PROVE  StepInv'
<1>1. /\ pc = "scan" /\ pc' = "scan" /\ UNCHANGED input /\ fmt' = fmt + 1 /\ args' = args
      /\ Char \notin {"%", "NUL"} /\ InputInv
  BY DEF WriteLiteral, IInv
<1>2. CASE ~Sound
  BY <1>1, <1>2, CutOffAnyway
<1>3. ASSUME Sound, NEW n \in 0 .. Len(format) - 1,
             fmt = After[n].fmt, Known => args = After[n].args
      PROVE  StepInv'
  <2>1. IsText(format[n + 1])
    BY <1>1, <1>3, DirectiveInMemory DEF Char
  <2>2. Len(Written(format[n + 1])) = 1 /\ Slots(format[n + 1]) = 0
    <3>1. Written(format[n + 1]) = <<format[n + 1].char>>
      BY Zenon, <2>1 DEF Written
    <3>2. Len(Written(format[n + 1])) = 1
      BY <3>1
    <3>3. Slots(format[n + 1]) = 0
      BY Zenon, <2>1 DEF Slots
    <3> QED  BY <3>2, <3>3
  <2>3. /\ n + 1 \in 0 .. Len(format) /\ After[n].fmt \in Nat /\ After[n].args \in Nat
        /\ After[n + 1].fmt = After[n].fmt + 1 /\ After[n + 1].args = After[n].args + 0
    BY Zenon, <1>1, <2>2, InPiece, PositiveIsNat
  <2>4. After[n + 1].args = After[n].args
    BY <2>3
  <2>5. fmt' = After[n + 1].fmt /\ (Known => args' = After[n + 1].args)
    BY <1>1, <1>3, <2>3, <2>4
  <2> QED  BY Zenon, <1>1, <2>3, <2>5, BackInLoop
<1>4. ASSUME Sound, ~Known, NEW n \in 0 .. Len(format) - 1,
             ~IsText(format[n + 1]), format[n + 1].precision # <<>>,
             fmt \in Padded(n) + 1 .. After[n + 1].fmt - 1
      PROVE  StepInv'
  <2> DEFINE P == Padded(n)
             t == After[n + 1].fmt
  <2>1. P \in Nat /\ t \in Nat /\ fmt \in P + 1 .. t - 1
    BY <1>1, <1>4, Borders
  <2>2. fmt' \in P + 1 .. t
    <3> HIDE DEF P, t
    <3> QED  BY <1>1, <2>1
  <2> QED  BY Zenon, <1>1, <1>4, <2>2, BackInLoop
<1>5. Sound => InLoop
  BY <1>1 DEF StepInv
<1> QED  BY Zenon, <1>1, <1>2, <1>3, <1>4, <1>5, AtPiece

LEMMA SpecSteps ==
    ASSUME IInv, StepInv, parse_format_spec
    PROVE  StepInv'
<1>1. /\ pc = "scan" /\ UNCHANGED input /\ args' = args /\ Char = "%" /\ InputInv
  BY DEF parse_format_spec, IInv
<1>2. CASE ~Sound
  BY <1>1, <1>2, CutOffAnyway
<1>3. ASSUME Sound, NEW n \in 0 .. Len(format) - 1,
             fmt = After[n].fmt, Known => args = After[n].args
      PROVE  StepInv'
  <2> DEFINE p == format[n + 1]
             s == After[n].fmt
             t == After[n + 1].fmt
  <2>1. IsPiece(p) /\ t = s + Len(Written(p)) /\ s \in Nat \ {0} /\ After[n].args \in Nat
        /\ After[n + 1].args = After[n].args + Slots(p)
        /\ (1 \in 1 .. Len(Written(p)) => memory[s + (1 - 1)] = Written(p)[1])
    BY <1>1, InPiece
  <2>2. ~IsText(p)
    <3>1. ASSUME IsText(p) PROVE FALSE
      <4>1. Written(p) = <<p.char>> /\ p.char # "%"
        BY Zenon, <2>1, <3>1 DEF Written, IsPiece
      <4>2. Len(Written(p)) = 1 /\ Written(p)[1] = p.char
        BY <4>1
      <4>3. 1 \in 1 .. Len(Written(p)) /\ s + (1 - 1) = s
        BY <2>1, <4>2
      <4> QED  BY Zenon, <1>1, <1>3, <2>1, <4>1, <4>2, <4>3 DEF Char
    <3> QED  BY <3>1
  <2>3. CASE memory[fmt + 1] = "%"
    <3>1. p.precision = <<>> /\ p.type = <<"%">> /\ t = s + 2
      BY <1>1, <1>3, <2>2, <2>3, EndOfDirective
    <3>2. /\ spec' = Validated([EmptySpec EXCEPT !.type = "%"]) /\ fmt' = fmt + 2 /\ pc' = "stars"
      BY <2>3 DEF parse_format_spec
    <3>3. /\ [EmptySpec EXCEPT !.type = "%"] \in Directives
          /\ [EmptySpec EXCEPT !.type = "%"].padKind = "default" /\ [EmptySpec EXCEPT !.type = "%"].type = "%"
      <4>1. "%" \in FormatTypes
        BY DEF FormatTypes
      <4> QED  BY <4>1, EmptySpecTyped DEF Directives
    <3>4. spec'.padKind = "default" /\ spec'.type \in {"empty", "%"}
      BY Zenon, <3>2, <3>3, ValidatedTyped
    <3>5. StarsLeft' = 0 /\ Takes' = 0
      BY <3>4 DEF StarsLeft, Takes
    <3>6. Slots(p) = 0
      BY Zenon, <3>1 DEF Slots, Percent
    <3>7. After[n + 1].args = After[n].args
      BY <2>1, <3>6
    <3>8. fmt' = EndOf(n)
      BY <1>3, <3>1, <3>2 DEF EndOf
    <3>9. Known => args' + StarsLeft' + Takes' = After[n + 1].args
      BY <1>1, <1>3, <2>1, <3>5, <3>7
    <3> HIDE DEF p
    <3> QED  BY <1>1, <2>2, <3>2, <3>8, <3>9, BehindDirective DEF p
  <2>4. CASE memory[fmt + 1] # "%"
    <3>1. spec' = EmptySpec /\ fmt' = fmt + 1 /\ pc' = "flags"
      BY <2>4 DEF parse_format_spec
    <3>2. Flagged(n) \in Nat /\ s < Flagged(n)
      BY <1>1, <1>3, <2>2, Borders
    <3>3. fmt' \in s + 1 .. Flagged(n)
      <4> HIDE DEF s
      <4> QED  BY <1>3, <2>1, <3>1, <3>2 DEF s
    <3>4. spec'.padKind = "default"
      BY <3>1, EmptySpecTyped
    <3> QED  BY Zenon, <1>1, <1>3, <2>2, <3>1, <3>3, <3>4, IntoDirective DEF Parsing
  <2> QED  BY <2>3, <2>4
<1>4. ASSUME Sound, ~Known, NEW n \in 0 .. Len(format) - 1,
             ~IsText(format[n + 1]), format[n + 1].precision # <<>>,
             fmt \in Padded(n) + 1 .. After[n + 1].fmt - 1
      PROVE  FALSE
  <2> DEFINE P == Padded(n)
             t == After[n + 1].fmt
  <2>1. P \in Nat /\ t \in Nat /\ fmt \in P + 1 .. t - 1
    BY <1>1, <1>4, Borders
  <2>2. fmt \in P .. t - 1
    <3> HIDE DEF P, t
    <3> QED  BY <2>1
  <2>3. \A i \in P .. t - 1 : memory[i] # "%"
    BY <1>1, <1>4, EndOfDirective
  <2> QED  BY <1>1, <2>2, <2>3 DEF Char
<1>5. Sound => InLoop
  BY <1>1 DEF StepInv
<1>6. Char # "NUL"
  BY <1>1
<1> QED  BY Zenon, <1>1, <1>2, <1>3, <1>4, <1>5, <1>6, AtPiece

LEMMA FlagsSteps ==
    ASSUME IInv, StepInv, parse_format_flags
    PROVE  StepInv'
<1>1. pc = "flags" /\ UNCHANGED input /\ args' = args /\ InputInv /\ spec \in Directives /\ fmt \in Nat
  BY NumbersOfState DEF parse_format_flags, IInv, SpecInv
<1>2. CASE ~Sound
  BY <1>1, <1>2, CutOffAnyway
<1>3. ASSUME Sound, NEW n \in 0 .. Len(format) - 1, InDirective(n)
      PROVE  StepInv'
  <2> DEFINE s == After[n].fmt
             F == Flagged(n)
             P == Padded(n)
  <2>1. /\ ~IsText(format[n + 1]) /\ (Known => args = After[n].args)
        /\ fmt \in s + 1 .. F /\ spec.padKind = "default"
    BY <1>1, <1>3 DEF InDirective
  <2>2. /\ \A i \in s + 1 .. F - 1 : memory[i] \in FormatFlags
        /\ memory[F] \notin FormatFlags
    BY <1>1, <1>3, <2>1, DirectiveInMemory
  <2>3. s \in Nat /\ F \in Nat /\ P \in Nat /\ F <= P
    BY <1>1, <1>3, <2>1, Borders, PositiveIsNat
  <2> HIDE DEF s, F, P
  <2>4. CASE Char \in FormatFlags
    <3>1. spec' = [spec EXCEPT !.flags = @ \union {Char}] /\ fmt' = fmt + 1 /\ pc' = "flags"
      BY <1>1, <2>4 DEF parse_format_flags
    <3>2. fmt # F
      BY <2>2, <2>4 DEF Char
    <3>3. fmt' \in s + 1 .. F
      BY <1>1, <2>1, <2>3, <3>1, <3>2
    <3>4. spec'.padKind = "default"
      BY <1>1, <2>1, <3>1 DEF Directives
    <3> QED  BY Zenon, <1>1, <1>3, <2>1, <3>1, <3>3, <3>4, IntoDirective DEF Parsing, s, F
  <2>5. CASE Char \notin FormatFlags
    <3>1. spec' = [spec EXCEPT !.flags = NormalFlags(@)] /\ fmt' = fmt /\ pc' = "padding"
      BY <2>5 DEF parse_format_flags
    <3>2. fmt \notin s + 1 .. F - 1
      BY <2>2, <2>5 DEF Char
    <3>3. fmt' = F /\ fmt' \in F .. P
      BY <1>1, <2>1, <2>3, <3>1, <3>2
    <3>4. spec'.padKind = "default"
      BY <1>1, <2>1, <3>1 DEF Directives
    <3> QED  BY Zenon, <1>1, <1>3, <2>1, <3>1, <3>3, <3>4, IntoDirective DEF Parsing, F, P
  <2> QED  BY <2>4, <2>5
<1> QED  BY Zenon, <1>1, <1>2, <1>3 DEF StepInv, Parsing

LEMMA PaddingSteps ==
    ASSUME IInv, StepInv, parse_format_padding
    PROVE  StepInv'
<1>1. pc = "padding" /\ UNCHANGED input /\ args' = args /\ InputInv /\ spec \in Directives /\ fmt \in Nat
  BY NumbersOfState DEF parse_format_padding, IInv, SpecInv
<1>2. CASE ~Sound
  BY <1>1, <1>2, CutOffAnyway
<1>3. ASSUME Sound, NEW n \in 0 .. Len(format) - 1, InDirective(n)
      PROVE  StepInv'
  <2> DEFINE F == Flagged(n)
             P == Padded(n)
             p == format[n + 1]
  <2>1. /\ ~IsText(p) /\ (Known => args = After[n].args)
        /\ fmt \in F .. P /\ spec.padKind = IF fmt = F THEN "default" ELSE "given"
        /\ Starred(p) => fmt = F
    BY <1>1, <1>3 DEF InDirective
  <2>2. /\ Starred(p) => P = F + 1 /\ memory[F] = "*"
        /\ ~Starred(p) => \A i \in F .. P - 1 : IsDigit(memory[i])
        /\ memory[P] \notin DOMAIN DigitValue \union {"*"}
    BY <1>1, <1>3, <2>1, DirectiveInMemory
  <2>3. F \in Nat /\ P \in Nat /\ F <= P
    BY <1>1, <1>3, <2>1, Borders
  <2>4. /\ ~IsDigit("*")
        /\ \A c : IsDigit(c) <=> c \in DOMAIN DigitValue
    BY DigitsAreCharacters DEF IsDigit
  <2> HIDE DEF F, P, p
  <2>5. Starred(p) <=> fmt # P /\ Char = "*"
    <3>1. ASSUME Starred(p) PROVE fmt # P /\ Char = "*"
      <4>1. F # P
        BY <2>2, <2>3, <3>1
      <4> QED  BY Zenon, <2>1, <2>2, <3>1, <4>1 DEF Char
    <3>2. ASSUME ~Starred(p), fmt # P PROVE Char # "*"
      <4>1. fmt \in F .. P - 1
        BY <1>1, <2>1, <2>3, <3>2
      <4> QED  BY Zenon, <2>2, <2>4, <3>2, <4>1 DEF Char
    <3> QED  BY <3>1, <3>2
  <2>6. CASE Char = "*"
    <3>1. Starred(p) /\ fmt = F /\ P = F + 1 /\ spec.padKind = "default"
      <4>1. fmt # P
        BY <2>2, <2>6 DEF Char
      <4> QED  BY <2>1, <2>2, <2>5, <2>6, <4>1
    <3>2. spec' = [spec EXCEPT !.padKind = "fromArg"] /\ fmt' = fmt + 1 /\ pc' = "precision"
      BY <2>4, <2>6, <3>1 DEF parse_format_padding
    <3>3. spec'.padKind = "fromArg"
      BY <1>1, <3>2 DEF Directives
    <3>4. StarsLeft' = 1 /\ StarOf(n) = 1
      BY <3>1, <3>3 DEF StarsLeft, StarOf, p
    <3>5. fmt' = P /\ StarsLeft' = StarOf(n)
      BY <3>1, <3>2, <3>4
    <3> QED  BY Zenon, <1>1, <1>3, <2>1, <3>2, <3>5, IntoDirective DEF Parsing, P, p
  <2>7. CASE IsDigit(Char)
    <3>1. Char # "*"
      BY <2>4, <2>7
    <3>2. /\ spec' = [spec EXCEPT !.padKind = "given", !.padding = ToInt(10 * @ + DigitValue[Char])]
          /\ fmt' = fmt + 1 /\ pc' = "padding"
      BY <1>1, <2>7, <3>1 DEF parse_format_padding
    <3>3. ~Starred(p) /\ fmt # P
      BY <2>2, <2>4, <2>5, <2>7, <3>1 DEF Char
    <3>4. fmt' \in F .. P /\ fmt' # F
      BY <1>1, <2>1, <2>3, <3>2, <3>3
    <3>5. spec'.padKind = "given"
      BY <1>1, <3>2 DEF Directives
    <3> QED  BY Zenon, <1>1, <1>3, <2>1, <3>2, <3>3, <3>4, <3>5, IntoDirective DEF Parsing, F, P, p
  <2>8. CASE Char # "*" /\ ~IsDigit(Char)
    <3>1. spec' = spec /\ fmt' = fmt /\ pc' = "precision"
      BY <2>8 DEF parse_format_padding
    <3>2. ~Starred(p)
      BY <2>5, <2>8
    <3>3. fmt \notin F .. P - 1
      BY Zenon, <2>2, <2>8, <3>2 DEF Char
    <3>4. fmt' = P
      BY <1>1, <2>1, <2>3, <3>1, <3>3
    <3>5. StarsLeft' = 0 /\ StarOf(n) = 0
      BY <2>1, <3>1, <3>2 DEF StarsLeft, StarOf, p
    <3>6. fmt' = P /\ StarsLeft' = StarOf(n)
      BY <3>4, <3>5
    <3> QED  BY Zenon, <1>1, <1>3, <2>1, <3>1, <3>6, IntoDirective DEF Parsing, P, p
  <2> QED  BY <2>6, <2>7, <2>8
<1> QED  BY Zenon, <1>1, <1>2, <1>3 DEF StepInv, Parsing

LEMMA PrecisionSteps ==
    ASSUME IInv, StepInv, parse_format_precision
    PROVE  StepInv'
<1>1. /\ pc = "precision" /\ pc' = "width" /\ UNCHANGED input /\ args' = args /\ fmt' = fmt
      /\ spec' = [spec EXCEPT !.precisionKind = "default"] /\ spec \in Directives
  BY DEF parse_format_precision, IInv, SpecInv
<1>2. CASE ~Sound
  BY <1>1, <1>2, CutOffAnyway
<1>3. spec'.padKind = spec.padKind
  BY <1>1 DEF Directives
<1>4. StarsLeft' = StarsLeft
  BY <1>3 DEF StarsLeft
<1>5. ASSUME Sound, NEW n \in 0 .. Len(format) - 1, InDirective(n)
      PROVE  StepInv'
  <2>1. /\ ~IsText(format[n + 1]) /\ (Known => args = After[n].args)
        /\ fmt = Padded(n) /\ StarsLeft = StarOf(n)
    BY <1>1, <1>5 DEF InDirective
  <2> QED  BY Zenon, <1>1, <1>4, <1>5, <2>1, IntoDirective DEF Parsing
<1> QED  BY Zenon, <1>1, <1>2, <1>5 DEF StepInv, Parsing

LEMMA WidthSteps ==
    ASSUME IInv, StepInv, parse_format_width
    PROVE  StepInv'
<1>1. /\ pc = "width" /\ pc' = "type" /\ UNCHANGED input /\ args' = args
      /\ fmt' = fmt + LengthOf(WidthAt(fmt)) /\ InputInv
      /\ spec' = [spec EXCEPT !.width = WidthAt(fmt)] /\ spec \in Directives
  BY DEF parse_format_width, IInv, SpecInv
<1>2. CASE ~Sound
  BY <1>1, <1>2, CutOffAnyway
<1>3. spec'.padKind = spec.padKind /\ spec'.width = WidthAt(fmt)
  BY <1>1 DEF Directives
<1>4. StarsLeft' = StarsLeft
  BY <1>3 DEF StarsLeft
<1>5. ASSUME Sound, NEW n \in 0 .. Len(format) - 1, InDirective(n)
      PROVE  StepInv'
  <2> DEFINE p == format[n + 1]
  <2>1. /\ ~IsText(p) /\ (Known => args = After[n].args)
        /\ fmt = Padded(n) /\ StarsLeft = StarOf(n)
    BY <1>1, <1>5 DEF InDirective
  <2>2. /\ p.precision # <<>> => WidthAt(Padded(n)) = ""
        /\ p.precision = <<>> => /\ WidthAt(Padded(n)) = ModifierOf(p)
                                 /\ LengthOf(ModifierOf(p)) = Len(p.length)
    BY <1>1, <1>5, <2>1, ModifierAt
  <2>3. Padded(n) \in Nat
    BY <1>1, <1>5, <2>1, Borders
  <2> HIDE DEF p
  <2>4. CASE p.precision = <<>>
    <3>1. fmt' = Padded(n) + Len(p.length) /\ spec'.width = ModifierOf(p)
      BY Zenon, <1>1, <1>3, <2>1, <2>2, <2>4
    <3> QED  BY Zenon, <1>1, <1>4, <1>5, <2>1, <2>4, <3>1, IntoDirective DEF p
  <2>5. CASE p.precision # <<>>
    <3>1. LengthOf(WidthAt(fmt)) = 0
      <4>1. LengthOf("") = 0
        BY DEF LengthOf
      <4> QED  BY Zenon, <2>1, <2>2, <2>5, <4>1
    <3>2. fmt' = Padded(n)
      BY <1>1, <2>1, <2>3, <3>1
    <3> QED  BY Zenon, <1>1, <1>4, <1>5, <2>1, <2>5, <3>2, IntoDirective DEF p
  <2> QED  BY <2>4, <2>5
<1> QED  BY Zenon, <1>1, <1>2, <1>5 DEF StepInv, Parsing

LEMMA TypeSteps ==
    ASSUME IInv, StepInv, parse_format_type
    PROVE  StepInv'
<1> DEFINE typed == [spec EXCEPT !.type = TypeAt(fmt)]
<1>1. /\ pc = "type" /\ pc' = "stars" /\ UNCHANGED input /\ args' = args /\ fmt' = fmt + 1
      /\ InputInv /\ spec' = Validated(typed) /\ spec \in Directives
  BY DEF parse_format_type, IInv, SpecInv
<1>2. CASE ~Sound
  BY <1>1, <1>2, CutOffAnyway
<1>3. spec'.padKind = spec.padKind
  <2>1. typed \in Directives /\ typed.padKind = spec.padKind
    BY <1>1, TypesTyped DEF Directives
  <2> QED  BY Zenon, <1>1, <2>1, ValidatedTyped
<1>4. StarsLeft' = StarsLeft
  BY <1>3 DEF StarsLeft
<1>5. ASSUME Sound, NEW n \in 0 .. Len(format) - 1, InDirective(n)
      PROVE  StepInv'
  <2> DEFINE p == format[n + 1]
             l == Len(p.length)
             P == Padded(n)
             t == After[n + 1].fmt
  <2>1. /\ ~IsText(p) /\ (Known => args = After[n].args) /\ StarsLeft = StarOf(n)
        /\ p.precision = <<>> => fmt = P + l /\ spec.width = ModifierOf(p)
        /\ p.precision # <<>> => fmt = P
    BY Zenon, <1>1, <1>5 DEF InDirective
  <2>2. /\ P \in Nat /\ t \in Nat /\ IsPiece(p) /\ l \in Nat
        /\ After[n].args \in Nat /\ After[n + 1].args = After[n].args + Slots(p)
        /\ n + 1 \in DOMAIN format
    BY Zenon, <1>1, <1>5, <2>1, Borders, InPiece, PartsOf, PositiveIsNat
  <2>3. p.precision = <<>> => t = P + l + 1 /\ memory[P + l] = p.type[1]
    BY <1>1, <1>5, <2>1, EndOfDirective
  <2>4. fmt' = EndOf(n)
    <3>1. CASE p.precision = <<>>
      <4>1. EndOf(n) = t /\ t = P + l + 1 /\ fmt = P + l
        BY <2>1, <2>3, <3>1 DEF EndOf
      <4> HIDE DEF P, l, t
      <4> QED  BY <1>1, <2>2, <4>1
    <3>2. CASE p.precision # <<>>
      <4>1. EndOf(n) = P + 1 /\ fmt = P
        BY <2>1, <3>2 DEF EndOf
      <4> QED  BY Zenon, <1>1, <4>1
    <3> QED  BY <3>1, <3>2
  <2>5. ASSUME Known
        PROVE  args' + StarsLeft' + Takes' = After[n + 1].args
    <3>1. Understood(p)
      BY <2>2, <2>3, <2>5 DEF Known
    <3>2. p.precision = <<>>
      BY <2>1, <3>1 DEF Understood
    <3>3. memory[fmt] = p.type[1] /\ spec.width = ModifierOf(p)
      BY Zenon, <2>1, <2>3, <3>2
    <3>4. Takes' + StarOf(n) = Slots(p)
      <4>1. Takes' = IF spec'.type \in {"empty", "%"} THEN 0 ELSE SlotsOf(spec'.width)
        BY DEF Takes
      <4> DEFINE v == spec'
      <4>2. v = Validated([spec EXCEPT !.type = TypeAt(fmt)])
        BY <1>1
      <4> HIDE DEF v, p
      <4>3. (IF v.type \in {"empty", "%"} THEN 0 ELSE SlotsOf(v.width))
                + (IF Starred(p) THEN 1 ELSE 0) = Slots(p)
        BY Zenon, <1>1, <2>1, <2>2, <3>1, <3>3, <4>2, SlotsAsWritten
      <4> QED  BY Zenon, <4>1, <4>3 DEF StarOf, v, p
    <3>5. StarOf(n) \in {0, 1} /\ Takes' \in {0, 1, 2}
      BY DEF StarOf, Takes, SlotsOf
    <3> HIDE DEF p
    <3> QED  BY <1>1, <1>4, <2>1, <2>2, <2>5, <3>4, <3>5
  <2>6. Known => args' + (IF pc' = "stars" THEN StarsLeft' ELSE 0) + Takes' = After[n + 1].args
    BY Zenon, <1>1, <2>5
  <2> QED  BY Zenon, <1>1, <1>5, <2>1, <2>4, <2>6, BehindDirective
<1> QED  BY Zenon, <1>1, <1>2, <1>5 DEF StepInv

LEMMA StarsSteps ==
    ASSUME IInv, StepInv, TakeStars
    PROVE  StepInv'
<1>1. /\ pc = "stars" /\ pc' = "format" /\ UNCHANGED input /\ fmt' = fmt
      /\ args' = args + StarsLeft /\ Takes' = Takes
      /\ args \in Nat /\ StarsLeft \in {0, 1} /\ Takes \in {0, 1, 2}
  BY StarsTaken, NumbersOfState DEF TakeStars
<1>2. CASE ~Sound
  BY <1>1, <1>2, CutOffAnyway
<1>3. ASSUME Sound, NEW n \in 0 .. Len(format) - 1, DirectiveDone(n)
      PROVE  StepInv'
  <2>1. /\ ~IsText(format[n + 1]) /\ fmt = EndOf(n)
        /\ Known => args + StarsLeft + Takes = After[n + 1].args
    BY <1>1, <1>3 DEF DirectiveDone
  <2>2. args' + 0 + Takes' = args + StarsLeft + Takes
    BY <1>1
  <2>3. Known => args' + (IF pc' = "stars" THEN StarsLeft' ELSE 0) + Takes' = After[n + 1].args
    <3>1. (IF pc' = "stars" THEN StarsLeft' ELSE 0) = 0
      BY <1>1
    <3> QED  BY Zenon, <2>1, <2>2, <3>1
  <2> QED  BY Zenon, <1>1, <1>3, <2>1, <2>3, BehindDirective
<1> QED  BY Zenon, <1>1, <1>2, <1>3 DEF StepInv

LEMMA FormatSteps ==
    ASSUME IInv, StepInv, FormatSpec
    PROVE  StepInv'
<1>1. /\ pc = "format" /\ pc' = "scan" /\ UNCHANGED input /\ fmt' = fmt /\ args' = args + Takes
      /\ InputInv /\ fmt \in Nat /\ args \in Nat /\ Takes \in {0, 1, 2}
  BY NumbersOfState DEF FormatSpec, Takes, IInv
<1>2. CASE ~Sound
  BY <1>1, <1>2, CutOffAnyway
<1>3. ASSUME Sound, NEW n \in 0 .. Len(format) - 1, DirectiveDone(n)
      PROVE  StepInv'
  <2> DEFINE p == format[n + 1]
             P == Padded(n)
             t == After[n + 1].fmt
  <2>1. /\ ~IsText(p) /\ fmt = EndOf(n)
        /\ Known => args + 0 + Takes = After[n + 1].args
    BY <1>1, <1>3 DEF DirectiveDone
  <2>2. /\ P \in Nat /\ t \in Nat /\ P < t /\ n + 1 \in 0 .. Len(format) /\ n + 1 \in DOMAIN format
    BY <1>1, <1>3, <2>1, Borders, InPiece
  <2>3. CASE p.precision = <<>>
    <3>1. fmt' = t
      BY <1>1, <2>1, <2>3 DEF EndOf
    <3>2. args' = args + 0 + Takes
      BY <1>1
    <3>3. Known => args' = After[n + 1].args
      BY Zenon, <2>1, <3>2
    <3> QED  BY Zenon, <1>1, <2>2, <3>1, <3>3, BackInLoop
  <2>4. CASE p.precision # <<>>
    <3>1. fmt' = P + 1
      BY <1>1, <2>1, <2>4 DEF EndOf
    <3>2. ~Known
      <4>1. ~Understood(p)
        BY <2>1, <2>4 DEF Understood
      <4> QED  BY <2>2, <4>1 DEF Known
    <3>3. fmt' \in P + 1 .. t
      <4> HIDE DEF P, t
      <4> QED  BY <2>2, <3>1
    <3> QED  BY Zenon, <1>1, <1>3, <2>1, <2>4, <3>2, <3>3, BackInLoop
  <2> QED  BY <2>3, <2>4
<1> QED  BY Zenon, <1>1, <1>2, <1>3 DEF StepInv

LEMMA StutterSteps ==
    ASSUME StepInv, UNCHANGED vars
    PROVE  StepInv'
<1>1. UNCHANGED input /\ UNCHANGED <<fmt, args, spec, pc>>
  BY DEF vars
<1>2. /\ format' = format /\ After' = After /\ (Sound' <=> Sound) /\ (Known' <=> Known)
      /\ \A n : /\ Flagged(n)' = Flagged(n) /\ Padded(n)' = Padded(n)
                /\ EndOf(n)' = EndOf(n) /\ StarOf(n)' = StarOf(n)
  BY <1>1, PlacesStay
<1>3. StarsLeft' = StarsLeft /\ Takes' = Takes
  BY <1>1 DEF StarsLeft, Takes
<1>4. (InLoop' <=> InLoop) /\ \A n : (DirectiveDone(n)' <=> DirectiveDone(n))
  BY <1>1, <1>2, <1>3 DEF InLoop, DirectiveDone
<1>5. \A n : (InDirective(n)' <=> InDirective(n))
  BY <1>1, <1>2, <1>3 DEF InDirective
<1> QED  BY <1>1, <1>2, <1>4, <1>5 DEF StepInv

LEMMA StepInvStep == IInv /\ StepInv /\ [Next]_vars => StepInv'
<1> SUFFICES ASSUME IInv, StepInv, [Next]_vars PROVE StepInv'
  OBVIOUS
<1>1. CASE Call \/ Return         BY <1>1, CallSteps
<1>2. CASE WriteLiteral           BY <1>2, LiteralSteps
<1>3. CASE parse_format_spec      BY <1>3, SpecSteps
<1>4. CASE parse_format_flags     BY <1>4, FlagsSteps
<1>5. CASE parse_format_padding   BY <1>5, PaddingSteps
<1>6. CASE parse_format_precision BY <1>6, PrecisionSteps
<1>7. CASE parse_format_width     BY <1>7, WidthSteps
<1>8. CASE parse_format_type      BY <1>8, TypeSteps
<1>9. CASE TakeStars              BY <1>9, StarsSteps
<1>10. CASE FormatSpec            BY <1>10, FormatSteps
<1>11. CASE UNCHANGED vars        BY <1>11, StutterSteps
<1> QED  BY Zenon, <1>1, <1>2, <1>3, <1>4, <1>5, <1>6, <1>7, <1>8, <1>9, <1>10, <1>11
         DEF Next, ParseStep

LEMMA StepInvAlways == Spec => [](IInv /\ StepInv)
<1>1. Init => IInv /\ StepInv
  BY InitIInv, InitStep
<1>2. IInv /\ StepInv /\ [Next]_vars => IInv' /\ StepInv'
  BY IInvStep, StepInvStep
<1> QED  BY <1>1, <1>2, PTL DEF Spec

LEMMA StaysFollows == IInv /\ StepInv => StaysInFormat
<1> SUFFICES ASSUME IInv, StepInv, Sound PROVE fmt <= Terminator
  BY DEF StaysInFormat, Sound
<1> DEFINE N == Len(format)
<1>1. /\ InputInv /\ fmt \in Nat /\ N \in Nat
      /\ pc \in Parsing \union {"type", "call", "scan", "stars", "format", "return"}
  BY NumbersOfState, Pieces DEF IInv, InputInv
<1>2. /\ \A n \in 0 .. N : After[n].fmt \in Nat /\ After[n].fmt <= Terminator
      /\ Terminator \in Nat
  <2>1. /\ \A n \in 0 .. N : After[n].fmt \in Nat \ {0}
        /\ \A m \in 0 .. N : \A n \in 0 .. m : After[n].fmt <= After[m].fmt
    BY MarksAscend, <1>1 DEF InputInv
  <2>2. N \in 0 .. N
    BY <1>1
  <2> QED  BY <2>1, <2>2 DEF Terminator
<1>3. ASSUME NEW n \in 0 .. N - 1, ~IsText(format[n + 1])
      PROVE  /\ n + 1 \in 0 .. N /\ Padded(n) \in Nat /\ Flagged(n) \in Nat /\ After[n + 1].fmt \in Nat
             /\ Flagged(n) <= Padded(n) /\ Padded(n) < After[n + 1].fmt
             /\ After[n + 1].fmt <= Terminator
  BY Zenon, <1>1, <1>2, <1>3, Borders, InPiece
<1>4. CASE pc \in {"call", "scan", "return"}
  <2>1. CASE \E n \in 0 .. N : fmt = After[n].fmt
    BY <1>2, <2>1
  <2>2. ASSUME NEW n \in 0 .. N - 1, ~IsText(format[n + 1]),
               fmt \in Padded(n) + 1 .. After[n + 1].fmt
        PROVE  fmt <= Terminator
    <3> DEFINE P == Padded(n)
               t == After[n + 1].fmt
    <3>1. P \in Nat /\ t \in Nat /\ t <= Terminator /\ fmt \in P + 1 .. t
      BY <1>3, <2>2
    <3> HIDE DEF P, t
    <3> QED  BY <1>1, <1>2, <3>1
  <2> QED  BY Zenon, <1>4, <2>1, <2>2 DEF StepInv, InLoop
<1>5. ASSUME NEW n \in 0 .. N - 1, InDirective(n), pc \in Parsing \union {"type"}
      PROVE  fmt <= Terminator
  <2> DEFINE P == Padded(n)
             F == Flagged(n)
             t == After[n + 1].fmt
             l == Len(format[n + 1].length)
  <2>1. ~IsText(format[n + 1])
    BY <1>5 DEF InDirective
  <2>2. /\ P \in Nat /\ F \in Nat /\ t \in Nat /\ F <= P /\ P < t /\ t <= Terminator
    BY <1>3, <2>1
  <2>3. fmt \in After[n].fmt + 1 .. F \/ fmt \in F .. P \/ fmt = P
        \/ (format[n + 1].precision = <<>> /\ fmt = P + l)
    BY <1>5 DEF InDirective, Parsing
  <2>4. format[n + 1].precision = <<>> => t = P + l + 1 /\ l \in Nat
    BY Zenon, <1>1, <2>1, EndOfDirective, Borders, PartsOf
  <2>5. After[n].fmt \in Nat
    BY Zenon, <1>1, InPiece, PositiveIsNat
  <2> HIDE DEF P, F, t, l
  <2> QED  BY <1>1, <1>2, <2>2, <2>3, <2>4, <2>5
<1>6. ASSUME NEW n \in 0 .. N - 1, DirectiveDone(n)
      PROVE  fmt <= Terminator
  <2> DEFINE P == Padded(n)
             t == After[n + 1].fmt
  <2>1. ~IsText(format[n + 1]) /\ (fmt = t \/ fmt = P + 1)
    BY <1>6 DEF DirectiveDone, EndOf
  <2>2. P \in Nat /\ t \in Nat /\ P < t /\ t <= Terminator
    BY <1>3, <2>1
  <2> HIDE DEF P, t
  <2> QED  BY <1>2, <2>1, <2>2
<1> QED  BY Zenon, <1>1, <1>4, <1>5, <1>6 DEF StepInv

LEMMA ArgsFollow == IInv /\ StepInv => ArgsInStep
<1> SUFFICES ASSUME StepInv, pc = "scan", Known
             PROVE  \E n \in 0 .. Len(format) : fmt = After[n].fmt /\ args = After[n].args
  BY DEF ArgsInStep, Known
<1>1. Sound
  <2>1. ASSUME NEW p, Understood(p) PROVE ~CutOff(p)
    <3>1. CASE IsText(p)
      BY <3>1 DEF CutOff
    <3>2. CASE ~IsText(p)
      <4>1. p.precision = <<>>
        BY <2>1, <3>2 DEF Understood
      <4>2. p.type # <<>>
        <5>1. ASSUME p.type = <<>> PROVE FALSE
          <6>1. Type(p) = "none" /\ ~Percent(p)
            BY <5>1 DEF Type, Percent
          <6> QED  BY <2>1, <3>2, <6>1 DEF Understood, Signed, Unsigned
        <5> QED  BY <5>1
      <4> QED  BY <4>1, <4>2 DEF CutOff
    <3> QED  BY <3>1, <3>2
  <2> QED  BY <2>1 DEF Sound, Known
<1>2. InLoop
  BY <1>1 DEF StepInv
<1> QED  BY <1>2 DEF InLoop

(***************************************************************************)
(* Unless a directive is cut off, no terminator is skipped: nothing behind *)
(* the format is ever taken for a part of it.                              *)
(***************************************************************************)
THEOREM FormatNeverLeft == Spec => []StaysInFormat
BY StepInvAlways, StaysFollows, PTL

(***************************************************************************)
(* However many directives, stars and two-slot arguments there are, every  *)
(* directive of a known type gets the slots that are meant for it.         *)
(***************************************************************************)
THEOREM ArgumentsStayInStep == Spec => []ArgsInStep
BY StepInvAlways, ArgsFollow, PTL

-----------------------------------------------------------------------------
(***************************************************************************)
(* The digits of a number are its numeral: those unsigned_to_string takes  *)
(* off one after the other are the ones the numeral ends in.               *)
(***************************************************************************)
LEMMA RestShifts ==
    ASSUME NEW value \in Nat, NEW radix \in Radices
    PROVE  \A k \in 0 .. IntegerBufLen - 1 :
               Rest(value \div radix, radix)[k] = Rest(value, radix)[k + 1]
<1> DEFINE f == Rest(value, radix)
           g == Rest(value \div radix, radix)
           N == IntegerBufLen - 1
           T == {k \in 0 .. N : g[k] = f[k + 1]}
<1>1. N \in Nat /\ IntegerBufLen \in Nat \ {0} /\ radix \in Nat \ {0}
  BY Limits DEF Radices
<1>2. value \div radix \in Nat
  BY DEF Radices
<1>3. /\ f[0] = value /\ \A k \in 1 .. IntegerBufLen : f[k] = f[k - 1] \div radix
      /\ g[0] = value \div radix /\ \A k \in 1 .. IntegerBufLen : g[k] = g[k - 1] \div radix
  BY <1>1, <1>2, RestUnfolds
<1> HIDE DEF f, g
<1>4. 0 \in T
  BY <1>1, <1>3
<1>5. ASSUME NEW n \in 1 .. N, n - 1 \in T PROVE n \in T
  <2>1. n \in 1 .. IntegerBufLen /\ n + 1 \in 1 .. IntegerBufLen /\ n \in 0 .. N
    BY <1>1
  <2>2. g[n] = g[n - 1] \div radix /\ f[n + 1] = f[(n + 1) - 1] \div radix
    BY <1>3, <2>1
  <2>3. g[n - 1] = f[(n - 1) + 1]
    BY <1>5
  <2>4. (n - 1) + 1 = n /\ (n + 1) - 1 = n
    BY <2>1
  <2> QED  BY <2>1, <2>2, <2>3, <2>4
<1>6. 0 .. N \subseteq T
  <2> HIDE DEF T, N
  <2> QED  BY <1>1, <1>4, <1>5, Induction
<1> QED  BY <1>6 DEF f, g

LEMMA DigitsOneMore ==
    ASSUME NEW value \in 1 .. MaxLimit - 1, NEW radix \in Radices
    PROVE  /\ value \div radix \in 0 .. MaxLimit - 1
           /\ value \div radix < value
           /\ NumDigits(value, radix) = NumDigits(value \div radix, radix) + 1
<1> DEFINE v == value \div radix
           n == NumDigits(value, radix)
           m == NumDigits(v, radix)
<1>1. v \in 0 .. MaxLimit - 1 /\ v < value
  BY Limits DEF Radices
<1>2. /\ value \in Nat /\ value # 0 /\ value \in 0 .. MaxLimit - 1
      /\ radix \in Nat \ {0} /\ IntegerBufLen \in Nat /\ IntegerBufLen > 3
  BY Limits DEF Radices
<1>3. /\ n \in 0 .. IntegerBufLen - 3 /\ Rest(value, radix)[n] = 0
      /\ \A k \in 0 .. n - 1 : Rest(value, radix)[k] # 0
      /\ m \in 0 .. IntegerBufLen - 3 /\ Rest(v, radix)[m] = 0
      /\ \A k \in 0 .. m - 1 : Rest(v, radix)[k] # 0
  <2> HIDE DEF v
  <2> QED  BY <1>1, <1>2, DigitsCounted
<1>4. Rest(value, radix)[0] = value
  BY <1>2, RestUnfolds
<1>5. \A k \in 0 .. IntegerBufLen - 1 : Rest(v, radix)[k] = Rest(value, radix)[k + 1]
  BY <1>2, RestShifts
<1> HIDE DEF v, n, m
<1>6. n # 0
  BY <1>2, <1>3, <1>4
<1>7. Rest(v, radix)[n - 1] = 0 /\ Rest(value, radix)[m + 1] = 0
  <2>1. n - 1 \in 0 .. IntegerBufLen - 1 /\ m \in 0 .. IntegerBufLen - 1 /\ (n - 1) + 1 = n
    BY <1>2, <1>3, <1>6
  <2> QED  BY <1>3, <1>5, <2>1
<1>8. ~(n - 1 < m)
  <2>1. n - 1 < m => n - 1 \in 0 .. m - 1
    BY <1>2, <1>3, <1>6
  <2> QED  BY <1>3, <1>7, <2>1
<1>9. ~(m + 1 < n)
  <2>1. m + 1 < n => m + 1 \in 0 .. n - 1
    BY <1>2, <1>3, <1>6
  <2> QED  BY <1>3, <1>7, <2>1
<1>10. n = m + 1
  BY <1>2, <1>3, <1>8, <1>9
<1> QED  BY Zenon, <1>1, <1>10 DEF v, n, m

DigitTables == {LowerDigits, UpperDigits}

\* The numeral, digit by digit.
TextOf(value, radix, digits) ==
    [i \in 1 .. NumDigits(value, radix) |->
        digits[1 + (Rest(value, radix)[NumDigits(value, radix) - i] % radix)]]

LEMMA TextTyped ==
    ASSUME NEW value \in 0 .. MaxLimit - 1, NEW radix \in Radices, NEW digits \in DigitTables
    PROVE  /\ TextOf(value, radix, digits) \in Seq(Characters)
           /\ Len(TextOf(value, radix, digits)) = NumDigits(value, radix)
           /\ value = 0 => TextOf(value, radix, digits) = <<>>
<1> DEFINE n == NumDigits(value, radix)
           rest == Rest(value, radix)
           At(i) == digits[1 + (rest[n - i] % radix)]
           text == [i \in 1 .. n |-> At(i)]
<1>1. n \in 0 .. IntegerBufLen - 3 /\ IntegerBufLen \in Nat /\ n \in Nat
  BY DigitsCounted, Limits
<1>2. rest \in [0 .. IntegerBufLen -> Nat] /\ rest[0] = value
  <2>1. value \in Nat /\ radix \in Nat \ {0}
    BY Limits DEF Radices
  <2> QED  BY <2>1, RestUnfolds
<1>3. value = 0 => n = 0
  <2>1. \A k \in 0 .. n - 1 : rest[k] # 0
    BY DigitsCounted
  <2> HIDE DEF n, rest
  <2>2. n # 0 => 0 \in 0 .. n - 1
    BY <1>1
  <2> QED  BY <1>2, <2>1, <2>2
<1> HIDE DEF n, rest
<1>4. ASSUME NEW i \in 1 .. n PROVE At(i) \in Characters
  <2>1. n - i \in 0 .. IntegerBufLen
    BY <1>1
  <2>2. rest[n - i] \in Nat
    BY <1>2, <2>1
  <2>3. \A m \in Nat : 1 + (m % radix) \in 1 .. 16
    BY DEF Radices
  <2>4. \A k \in 1 .. 16 : digits[k] \in Characters
    BY Tables DEF DigitTables
  <2> QED  BY <2>2, <2>3, <2>4
<1>5. text \in Seq(Characters) /\ Len(text) = n
  <2> HIDE DEF At
  <2> QED  BY <1>1, <1>4
<1>6. n = 0 => text = <<>>
  <2> HIDE DEF text
  <2> QED  BY <1>5, EmptySeq
<1>7. TextOf(value, radix, digits) = text
  BY Zenon DEF TextOf, text, At, n, rest
<1> HIDE DEF text
<1> QED  BY Zenon, <1>3, <1>5, <1>6, <1>7 DEF n

LEMMA TextUnfolds ==
    ASSUME NEW value \in 1 .. MaxLimit - 1, NEW radix \in Radices, NEW digits \in DigitTables
    PROVE  TextOf(value, radix, digits) =
               Append(TextOf(value \div radix, radix, digits), digits[1 + (value % radix)])
<1> DEFINE v == value \div radix
           n == NumDigits(value, radix)
           m == NumDigits(v, radix)
           s == TextOf(value, radix, digits)
           t == TextOf(v, radix, digits)
           c == digits[1 + (value % radix)]
<1>1. v \in 0 .. MaxLimit - 1 /\ n = m + 1
  BY Zenon, DigitsOneMore
<1>2. value \in 0 .. MaxLimit - 1 /\ value \in Nat /\ radix \in Nat \ {0} /\ IntegerBufLen \in Nat
  BY Limits DEF Radices
<1>3. c \in Characters
  <2>1. 1 + (value % radix) \in 1 .. 16
    BY <1>2 DEF Radices
  <2> QED  BY <2>1, Tables DEF DigitTables
<1>4. /\ s \in Seq(Characters) /\ Len(s) = n
      /\ t \in Seq(Characters) /\ Len(t) = m
  <2> HIDE DEF v
  <2> QED  BY <1>1, <1>2, TextTyped
<1>5. m \in 0 .. IntegerBufLen - 3
  <2> HIDE DEF v
  <2> QED  BY <1>1, DigitsCounted
<1>6. \A i \in 1 .. n : s[i] = digits[1 + (Rest(value, radix)[n - i] % radix)]
  BY DEF TextOf
<1>7. \A i \in 1 .. m : t[i] = digits[1 + (Rest(v, radix)[m - i] % radix)]
  BY DEF TextOf
<1>8. /\ Rest(value, radix)[0] = value
      /\ \A k \in 0 .. IntegerBufLen - 1 : Rest(v, radix)[k] = Rest(value, radix)[k + 1]
  BY <1>2, RestUnfolds, RestShifts
<1> HIDE DEF v, n, m, s, t, c
<1>9. Append(t, c) \in Seq(Characters) /\ Len(Append(t, c)) = m + 1
  BY <1>3, <1>4, <1>5
<1>10. ASSUME NEW i \in 1 .. n PROVE s[i] = Append(t, c)[i]
  <2>1. CASE i = n
    <3>1. Append(t, c)[i] = c
      BY <1>1, <1>3, <1>4, <1>5, <2>1
    <3>2. n - i = 0
      BY <1>1, <1>5, <2>1
    <3>3. s[i] = digits[1 + (value % radix)]
      BY <1>6, <1>8, <3>2
    <3> QED  BY <3>1, <3>3 DEF c
  <2>2. CASE i # n
    <3>1. i \in 1 .. m /\ m - i \in 0 .. IntegerBufLen - 1 /\ (m - i) + 1 = n - i
      BY <1>1, <1>2, <1>5, <2>2
    <3>2. Append(t, c)[i] = t[i]
      BY <1>3, <1>4, <1>5, <3>1
    <3>3. t[i] = digits[1 + (Rest(value, radix)[n - i] % radix)]
      BY <1>7, <1>8, <3>1
    <3> QED  BY <1>6, <3>2, <3>3
  <2> QED  BY <2>1, <2>2
<1>11. s = Append(t, c)
  <2> DEFINE w == Append(t, c)
  <2>1. w \in Seq(Characters) /\ Len(s) = Len(w)
    BY <1>1, <1>4, <1>9
  <2>2. \A i \in 1 .. Len(s) : s[i] = w[i]
    BY <1>4, <1>10
  <2> HIDE DEF w
  <2>3. s = w
    BY <1>4, <2>1, <2>2, SeqEqual
  <2> QED  BY <2>3 DEF w
<1> QED  BY <1>11 DEF s, t, c, v

LEMMA NumeralIsText ==
    ASSUME NEW number \in 0 .. MaxLimit - 1, NEW radix \in Radices, NEW digits \in DigitTables
    PROVE  Numeral(number, radix, digits) = TextOf(number, radix, digits)
<1> DEFINE ValueAt(g, v) == IF v = 0 THEN <<>>
                            ELSE Append(g[v \div radix], digits[1 + (v % radix)])
           f == CHOOSE g : g = [v \in 0 .. number |-> ValueAt(g, v)]
           text == [v \in 0 .. number |-> TextOf(v, radix, digits)]
<1>1. number \in Nat /\ MaxLimit \in Nat
  BY Limits
<1>2. ASSUME NEW v \in 0 .. number PROVE v # 0 => v \div radix \in 0 .. number /\ v \div radix < v
  BY <1>1 DEF Radices
<1>3. ASSUME NEW v \in 0 .. number
      PROVE  TextOf(v, radix, digits) =
                 IF v = 0 THEN <<>> ELSE Append(TextOf(v \div radix, radix, digits), digits[1 + (v % radix)])
  <2>1. v \in 0 .. MaxLimit - 1
    BY <1>1
  <2>2. CASE v = 0
    BY <2>1, <2>2, TextTyped
  <2>3. CASE v # 0
    <3>1. v \in 1 .. MaxLimit - 1
      BY <2>1, <2>3, <1>1
    <3> QED  BY Zenon, <2>3, <3>1, TextUnfolds
  <2> QED  BY <2>2, <2>3
<1>4. text = [v \in 0 .. number |-> ValueAt(text, v)]
  <2>1. ASSUME NEW v \in 0 .. number PROVE text[v] = ValueAt(text, v)
    <3>1. CASE v = 0
      BY <1>3, <3>1
    <3>2. CASE v # 0
      <4>1. text[v \div radix] = TextOf(v \div radix, radix, digits)
        BY <1>2, <3>2
      <4>2. text[v] = TextOf(v, radix, digits)
        OBVIOUS
      <4>3. TextOf(v, radix, digits) = Append(TextOf(v \div radix, radix, digits), digits[1 + (v % radix)])
        BY Zenon, <1>3, <3>2
      <4> QED  BY Zenon, <3>2, <4>1, <4>2, <4>3
    <3> QED  BY <3>1, <3>2
  <2> DEFINE w == [v \in 0 .. number |-> ValueAt(text, v)]
  <2>2. DOMAIN text = 0 .. number /\ DOMAIN w = 0 .. number
    OBVIOUS
  <2>3. \A v \in 0 .. number : text[v] = w[v]
    <3> HIDE DEF ValueAt, text
    <3> QED  BY <2>1
  <2>4. text = w
    <3>1. text = [v \in 0 .. number |-> text[v]]
      OBVIOUS
    <3> HIDE DEF ValueAt, text
    <3> QED  BY <2>1, <3>1
  <2> QED  BY <2>4
<1>5. f = [v \in 0 .. number |-> ValueAt(f, v)]
  <2> HIDE DEF ValueAt, text
  <2> QED  BY <1>4
<1>6. Numeral(number, radix, digits) = f[number]
  BY DEF Numeral
<1> HIDE DEF f
<1> DEFINE Bad == {v \in 0 .. number : f[v] # TextOf(v, radix, digits)}
<1>7. Bad = {}
  <2> SUFFICES ASSUME Bad # {} PROVE FALSE
    OBVIOUS
  <2>1. PICK v \in Bad : \A w \in Bad : v <= w
    <3>1. Bad \in SUBSET Nat
      BY <1>1
    <3> HIDE DEF Bad
    <3> QED  BY <3>1, LeastNumber
  <2>2. v \in 0 .. number /\ f[v] # TextOf(v, radix, digits)
    OBVIOUS
  <2>3. f[v] = IF v = 0 THEN <<>> ELSE Append(f[v \div radix], digits[1 + (v % radix)])
    BY <1>5, <2>2
  <2>4. CASE v = 0
    BY <1>3, <2>2, <2>3, <2>4
  <2>5. CASE v # 0
    <3>1. v \div radix \in 0 .. number /\ v \div radix < v
      BY <1>2, <2>2, <2>5
    <3>2. v \div radix \notin Bad
      <4>1. v \in Nat /\ v \div radix \in Nat
        BY <1>1, <2>2, <3>1
      <4> HIDE DEF Bad
      <4> QED  BY <2>1, <3>1, <4>1
    <3>3. f[v \div radix] = TextOf(v \div radix, radix, digits)
      BY <3>1, <3>2
    <3>4. TextOf(v, radix, digits) = Append(TextOf(v \div radix, radix, digits), digits[1 + (v % radix)])
      BY Zenon, <1>3, <2>2, <2>5
    <3> QED  BY Zenon, <2>2, <2>3, <2>5, <3>3, <3>4
  <2> QED  BY <2>4, <2>5
<1>8. f[number] = TextOf(number, radix, digits)
  <2>1. number \in 0 .. number
    BY <1>1
  <2> QED  BY <1>7, <2>1
<1> QED  BY Zenon, <1>6, <1>8

TableOf(type) == IF type = "X" THEN UpperDigits ELSE LowerDigits

\* Fields of one character.
LEMMA Filled ==
    ASSUME NEW n \in Int
    PROVE  /\ Zeros(n) = write_chars("0", n) /\ Spaces(n) = write_chars(" ", n)
           /\ Zeros(n) \in Seq(Characters) /\ Spaces(n) \in Seq(Characters)
           /\ Len(Zeros(n)) = (IF n > 0 THEN n ELSE 0) /\ Len(Spaces(n)) = (IF n > 0 THEN n ELSE 0)
           /\ n <= 0 => Zeros(n) = <<>> /\ Spaces(n) = <<>>
           /\ \A i \in 1 .. n : Zeros(n)[i] = "0"
<1>1. Zeros(n) = write_chars("0", n) /\ Spaces(n) = write_chars(" ", n)
  BY DEF Zeros, Spaces, write_chars
<1>2. "0" \in Characters /\ " " \in Characters
  BY Literals
<1>3. Zeros(n) \in Seq(Characters) /\ Spaces(n) \in Seq(Characters)
  BY <1>1, <1>2, CharsWritten
<1>4. DOMAIN Zeros(n) = 1 .. n /\ DOMAIN Spaces(n) = 1 .. n
  BY DEF Zeros, Spaces
<1>5. /\ DOMAIN Zeros(n) = 1 .. Len(Zeros(n)) /\ Len(Zeros(n)) \in Nat
      /\ DOMAIN Spaces(n) = 1 .. Len(Spaces(n)) /\ Len(Spaces(n)) \in Nat
  BY <1>3, LenProperties
<1>6. \A m \in Nat : 1 .. m = 1 .. n => m = IF n > 0 THEN n ELSE 0
  <2> SUFFICES ASSUME NEW m \in Nat, 1 .. m = 1 .. n PROVE m = IF n > 0 THEN n ELSE 0
    OBVIOUS
  <2>1. m > 0 => m \in 1 .. n
    OBVIOUS
  <2>2. n > 0 => n \in 1 .. m
    OBVIOUS
  <2> QED  BY <2>1, <2>2
<1>7. Len(Zeros(n)) = (IF n > 0 THEN n ELSE 0) /\ Len(Spaces(n)) = (IF n > 0 THEN n ELSE 0)
  BY <1>4, <1>5, <1>6
<1>8. n <= 0 => Zeros(n) = <<>> /\ Spaces(n) = <<>>
  BY <1>3, <1>7, EmptySeq
<1>9. \A i \in 1 .. n : Zeros(n)[i] = "0"
  BY DEF Zeros
<1> QED  BY <1>1, <1>3, <1>7, <1>8, <1>9

(***************************************************************************)
(* unsigned_to_string writes the numeral, behind the zeros that a          *)
(* precision asks for.                                                     *)
(***************************************************************************)
LEMMA NumberWritten ==
    ASSUME NEW value \in 0 .. MaxLimit - 1, NEW radix \in Radices, NEW s,
           NEW precision \in Nat, precision <= IntegerBufLen - 3
    PROVE  LET numeral == Numeral(value, radix, TableOf(s.type))
           IN  /\ unsigned_to_string(value, radix, precision, s) = Zeros(precision - Len(numeral)) \o numeral
               /\ numeral = TextOf(value, radix, TableOf(s.type))
<1> DEFINE n == NumDigits(value, radix)
           length == IF n < precision THEN precision ELSE n
           digits == TableOf(s.type)
           rest == Rest(value, radix)
           t == TextOf(value, radix, digits)
           z == Zeros(precision - Len(t))
           u == unsigned_to_string(value, radix, precision, s)
<1>1. n \in 0 .. IntegerBufLen - 3 /\ n \in Nat
  BY DigitsCounted, Limits
<1>2. digits \in DigitTables
  BY DEF TableOf, DigitTables
<1>3. t \in Seq(Characters) /\ Len(t) = n
  <2> HIDE DEF digits
  <2> QED  BY <1>2, TextTyped
<1>4. Numeral(value, radix, digits) = t
  <2> HIDE DEF digits
  <2> QED  BY <1>2, NumeralIsText
<1>5. \A i \in 1 .. n : t[i] = digits[1 + (rest[n - i] % radix)]
  BY DEF TextOf
<1>6. u \in Seq(Characters)
  BY TextOfNumber
<1>7. u = [i \in 1 .. length |-> digits[IF length - i < n THEN 1 + (rest[length - i] % radix) ELSE 1]]
  BY Zenon DEF unsigned_to_string, TableOf
<1>8. digits[1] = "0"
  BY DEF TableOf, LowerDigits, UpperDigits
<1> HIDE DEF n, digits, rest, t, u
<1>9. precision - Len(t) \in Int /\ length \in Nat /\ length = n + (IF precision - Len(t) > 0 THEN precision - Len(t) ELSE 0)
  BY <1>1, <1>3
<1>10. z \in Seq(Characters) /\ Len(z) = length - n /\ \A i \in 1 .. precision - Len(t) : z[i] = "0"
  <2>1. z \in Seq(Characters) /\ Len(z) = (IF precision - Len(t) > 0 THEN precision - Len(t) ELSE 0)
    BY <1>9, Filled
  <2>2. \A i \in 1 .. precision - Len(t) : z[i] = "0"
    BY <1>9, Filled
  <2> HIDE DEF length, z
  <2> QED  BY <1>1, <1>9, <2>1, <2>2
<1> HIDE DEF z
<1>11. /\ z \o t \in Seq(Characters) /\ Len(z \o t) = length
       /\ \A i \in 1 .. length : (z \o t)[i] = IF i <= Len(z) THEN z[i] ELSE t[i - Len(z)]
  <2>1. Len(z) + Len(t) = length
    BY <1>1, <1>3, <1>9, <1>10
  <2> HIDE DEF length
  <2> QED  BY <1>3, <1>10, <2>1, ConcatProperties
<1>12. Len(u) = length
  <2> HIDE DEF length
  <2>1. DOMAIN u = 1 .. length
    BY <1>7
  <2>2. DOMAIN u = 1 .. Len(u) /\ Len(u) \in Nat
    BY <1>6, LenProperties
  <2> QED  BY <1>9, <2>1, <2>2
<1>13. ASSUME NEW i \in 1 .. length PROVE u[i] = (z \o t)[i]
  <2>1. u[i] = digits[IF length - i < n THEN 1 + (rest[length - i] % radix) ELSE 1]
    <3> HIDE DEF length
    <3> QED  BY <1>7
  <2>2. CASE i <= Len(z)
    <3>1. ~(length - i < n) /\ i \in 1 .. precision - Len(t)
      BY <1>1, <1>3, <1>9, <1>10, <2>2
    <3>2. u[i] = "0"
      BY <1>8, <2>1, <3>1
    <3>3. (z \o t)[i] = z[i] /\ z[i] = "0"
      BY <1>10, <1>11, <2>2, <3>1
    <3> QED  BY <3>2, <3>3
  <2>3. CASE ~(i <= Len(z))
    <3>1. i - Len(z) \in 1 .. n /\ n - (i - Len(z)) = length - i /\ length - i < n
      BY <1>1, <1>3, <1>9, <1>10, <2>3
    <3>2. (z \o t)[i] = digits[1 + (rest[length - i] % radix)]
      <4>1. t[i - Len(z)] = digits[1 + (rest[n - (i - Len(z))] % radix)]
        BY <1>5, <3>1
      <4>2. (z \o t)[i] = t[i - Len(z)]
        BY <1>11, <2>3
      <4> QED  BY <3>1, <4>1, <4>2
    <3>3. u[i] = digits[1 + (rest[length - i] % radix)]
      BY <2>1, <3>1
    <3> QED  BY <3>2, <3>3
  <2> QED  BY <2>2, <2>3
<1>14. u = z \o t
  <2> DEFINE w == z \o t
  <2>1. w \in Seq(Characters) /\ Len(u) = Len(w) /\ \A i \in 1 .. Len(u) : u[i] = w[i]
    BY <1>11, <1>12, <1>13
  <2> HIDE DEF w
  <2>2. u = w
    BY <1>6, <2>1, SeqEqual
  <2> QED  BY <2>2 DEF w
<1> QED  BY Zenon, <1>4, <1>14 DEF u, z, t, digits

-----------------------------------------------------------------------------
(***************************************************************************)
(* Field widths.                                                           *)
(***************************************************************************)
LEMMA WidthUnfolds ==
    ASSUME NEW p, IsPiece(p), ~IsText(p), ~Starred(p)
    PROVE  /\ Len(p.width) \in Nat /\ WidthRead(p) \in [0 .. Len(p.width) -> Nat]
           /\ WidthRead(p)[0] = 0
           /\ \A n \in 1 .. Len(p.width) :
                 /\ p.width[n] \in DOMAIN DigitValue /\ DigitValue[p.width[n]] \in 0 .. 9
                 /\ WidthRead(p)[n] = 10 * WidthRead(p)[n - 1] + DigitValue[p.width[n]]
<1> DEFINE N == Len(p.width)
           digit(n) == DigitValue[p.width[n]]
           ValueAt(f, n) == IF n = 0 THEN 0 ELSE 10 * f[n - 1] + digit(n)
           step == [x \in Nat \X (1 .. N) |-> 10 * x[1] + digit(x[2])]
           f == WidthRead(p)
<1>1. p.width \in Seq(DOMAIN DigitValue)
  BY DEF IsPiece, Starred
<1>2. N \in Nat /\ \A n \in 1 .. N : p.width[n] \in DOMAIN DigitValue
  BY <1>1, LenProperties, ElementOfSeq
<1>3. \A n \in 1 .. N : digit(n) \in 0 .. 9
  BY <1>2, DigitsAreCharacters
<1>4. f = CHOOSE g : g = [n \in 0 .. N |-> ValueAt(g, n)]
  BY DEF WidthRead
<1> HIDE DEF N, digit, f
<1>5. step \in [Nat \X (1 .. N) -> Nat]
  <2> SUFFICES ASSUME NEW x \in Nat \X (1 .. N) PROVE 10 * x[1] + digit(x[2]) \in Nat
    OBVIOUS
  <2>1. x[1] \in Nat /\ digit(x[2]) \in 0 .. 9
    BY <1>3
  <2> QED  BY <2>1
<1>6. PICK g \in [0 .. N -> Nat] : Recurs(g, N, 0, step)
  <2> DEFINE V == Nat
  <2>1. 0 \in V /\ step \in [V \X (1 .. N) -> V]
    BY <1>5
  <2>2. \E g \in [0 .. N -> V] : Recurs(g, N, 0, step)
    <3> HIDE DEF step, V
    <3> QED  BY <1>2, <2>1, Recursion
  <2> QED  BY <2>2
<1>7. g[0] = 0 /\ \A n \in 1 .. N : g[n] = step[<<g[n - 1], n>>]
  BY <1>6 DEF Recurs
<1>8. ASSUME NEW n \in 1 .. N PROVE step[<<g[n - 1], n>>] = 10 * g[n - 1] + digit(n)
  <2>1. n - 1 \in 0 .. N
    BY <1>2
  <2>2. <<g[n - 1], n>> \in Nat \X (1 .. N)
    BY <1>6, <2>1
  <2> QED  BY <2>2
<1>9. ASSUME NEW n \in 0 .. N PROVE g[n] = ValueAt(g, n)
  <2>1. CASE n = 0
    BY <1>7, <2>1
  <2>2. CASE n # 0
    <3>1. n \in 1 .. N
      BY <1>2, <2>2
    <3>2. g[n] = step[<<g[n - 1], n>>]
      BY Zenon, <1>7, <3>1
    <3>3. step[<<g[n - 1], n>>] = 10 * g[n - 1] + digit(n)
      BY <1>8, <3>1
    <3> HIDE DEF step
    <3> QED  BY <2>2, <3>2, <3>3
  <2> QED  BY <2>1, <2>2
<1>10. g = [n \in 0 .. N |-> ValueAt(g, n)]
  <2> HIDE DEF ValueAt
  <2> QED  BY <1>6, <1>9
<1>11. f = [n \in 0 .. N |-> ValueAt(f, n)]
  <2> HIDE DEF ValueAt
  <2> QED  BY <1>4, <1>10
<1>12. f[0] = 0 /\ \A n \in 1 .. N : f[n] = 10 * f[n - 1] + digit(n)
  BY <1>2, <1>11
<1> DEFINE T == {n \in 0 .. N : f[n] \in Nat}
<1>13. 0 .. N \subseteq T
  <2>1. 0 \in T
    BY <1>2, <1>12
  <2>2. ASSUME NEW n \in 1 .. N, n - 1 \in T PROVE n \in T
    <3>1. f[n - 1] \in Nat /\ n \in 0 .. N
      BY <1>2, <2>2
    <3>2. f[n] = 10 * f[n - 1] + digit(n) /\ digit(n) \in 0 .. 9
      BY <1>3, <1>12
    <3> QED  BY <3>1, <3>2
  <2> HIDE DEF T
  <2> QED  BY <1>2, <2>1, <2>2, Induction
<1>14. f \in [0 .. N -> Nat]
  <2>1. \A n \in 0 .. N : f[n] \in Nat
    BY <1>13
  <2> HIDE DEF ValueAt
  <2> QED  BY <1>11, <2>1
<1> HIDE DEF ValueAt, T, step
<1> QED  BY <1>2, <1>3, <1>12, <1>14 DEF N, digit, f

\* A width of fewer digits is no greater.
LEMMA WidthGrows ==
    ASSUME NEW p, IsPiece(p), ~IsText(p), ~Starred(p)
    PROVE  \A n \in 0 .. Len(p.width) : WidthRead(p)[n] <= WidthRead(p)[Len(p.width)]
<1> DEFINE N == Len(p.width)
           f == WidthRead(p)
           T == {m \in 0 .. N : f[N - m] <= f[N]}
<1>1. /\ N \in Nat /\ f \in [0 .. N -> Nat]
      /\ \A n \in 1 .. N : \E d \in 0 .. 9 : f[n] = 10 * f[n - 1] + d
  BY WidthUnfolds
<1> HIDE DEF N, f
<1>2. 0 \in T
  BY <1>1
<1>3. ASSUME NEW m \in 1 .. N, m - 1 \in T PROVE m \in T
  <2>1. /\ N - m \in 0 .. N /\ N - (m - 1) \in 1 .. N /\ (N - (m - 1)) - 1 = N - m /\ m \in 0 .. N
        /\ N \in 0 .. N /\ N - (m - 1) \in 0 .. N
    BY <1>1
  <2>2. f[N - m] \in Nat /\ f[N - (m - 1)] \in Nat /\ f[N] \in Nat
    BY <1>1, <2>1
  <2>3. PICK d \in 0 .. 9 : f[N - (m - 1)] = 10 * f[N - m] + d
    BY <1>1, <2>1
  <2>4. f[N - (m - 1)] <= f[N]
    BY <1>3
  <2> QED  BY <2>1, <2>2, <2>3, <2>4
<1>4. 0 .. N \subseteq T
  <2> HIDE DEF T
  <2> QED  BY <1>1, <1>2, <1>3, Induction
<1>5. ASSUME NEW n \in 0 .. N PROVE f[n] <= f[N]
  <2>1. N - n \in 0 .. N /\ N - (N - n) = n
    BY <1>1
  <2>2. N - n \in T
    <3> HIDE DEF T
    <3> QED  BY <1>4, <2>1
  <2> QED  BY <2>1, <2>2
<1> QED  BY <1>5 DEF N, f

\* An int is what it is.
LEMMA IntsExact ==
    ASSUME NEW n \in Int, -IntLimit <= 2 * n, 2 * n < IntLimit
    PROVE  ToInt(n) = n
<1>1. IntLimit \in Nat \ {0}
  BY Limits
<1>2. CASE n >= 0
  <2>1. n % IntLimit = n
    BY <1>1, <1>2
  <2> QED  BY <1>1, <2>1 DEF ToInt, ToSigned
<1>3. CASE n < 0
  <2>1. n + IntLimit \in 0 .. IntLimit - 1 /\ n = (-1) * IntLimit + (n + IntLimit)
    BY <1>1, <1>3
  <2>2. n % IntLimit = n + IntLimit
    BY <1>1, <2>1
  <2> QED  BY <1>1, <1>3, <2>2 DEF ToInt, ToSigned
<1> QED  BY <1>2, <1>3

-----------------------------------------------------------------------------
(***************************************************************************)
(* What the code makes of a supported directive, part by part, and what it *)
(* is when its argument is taken.                                          *)
(***************************************************************************)
FlagsRead(p, n) == {p.flags[i] : i \in 1 .. n}
ParsedFlags(p)  == NormalFlags(FlagsRead(p, Len(p.flags)))
KindOf(p)       == IF Starred(p) THEN "fromArg" ELSE IF p.width = <<>> THEN "default" ELSE "given"
PaddingRead(p)  == IF Starred(p) THEN 0 ELSE WidthRead(p)[Len(p.width)]
TypeOf(p)       == IF Type(p) = "i" THEN "d" ELSE Type(p)

SpecOf(flags, kind, padding, width, type) ==
    [type |-> type, flags |-> flags, width |-> width, padKind |-> kind, padding |-> padding,
     precisionKind |-> "default", precision |-> 0]

WithFlags(p)   == SpecOf(ParsedFlags(p), "default", 0, "", "empty")
WithPadding(p) == SpecOf(ParsedFlags(p), KindOf(p), PaddingRead(p), "", "empty")
WithLength(p)  == SpecOf(ParsedFlags(p), KindOf(p), PaddingRead(p), ModifierOf(p), "empty")
WithType(p)    == SpecOf(ParsedFlags(p), KindOf(p), PaddingRead(p), ModifierOf(p), TypeOf(p))
Ready(p, k)    == IF Starred(p) THEN StarPadding(WithType(p), k) ELSE WithType(p)

LEMMA FlagsOfPiece ==
    ASSUME NEW p, IsPiece(p), ~IsText(p)
    PROVE  /\ FlagsRead(p, Len(p.flags)) \subseteq FormatFlags
           /\ \A c : c \in FlagsRead(p, Len(p.flags)) <=> Has(p, c)
<1>1. p.flags \in Seq(FormatFlags)
  BY PartsOf
<1>2. DOMAIN p.flags = 1 .. Len(p.flags) /\ \A i \in 1 .. Len(p.flags) : p.flags[i] \in FormatFlags
  BY <1>1, LenProperties, ElementOfSeq
<1> QED  BY <1>2 DEF FlagsRead, Has

LEMMA FlagsParsed ==
    ASSUME NEW p, IsPiece(p), ~IsText(p), ~(Has(p, "0") /\ Has(p, "-"))
    PROVE  /\ ParsedFlags(p) \subseteq FormatFlags
           /\ \A c \in {"-", "+", "#", "0"} : c \in ParsedFlags(p) <=> Has(p, c)
           /\ " " \in ParsedFlags(p) <=> Has(p, " ") /\ ~Has(p, "+")
<1> DEFINE F == FlagsRead(p, Len(p.flags))
<1>1. F \subseteq FormatFlags /\ \A c : c \in F <=> Has(p, c)
  BY FlagsOfPiece
<1>2. ~("0" \in F /\ "-" \in F)
  BY <1>1
<1>3. ParsedFlags(p) = IF " " \in F /\ "+" \in F THEN F \ {" "} ELSE F
  <2> HIDE DEF F
  <2>1. NormalFlags(F) = IF " " \in F /\ "+" \in F THEN F \ {" "} ELSE F
    BY <1>2 DEF NormalFlags
  <2> QED  BY <2>1 DEF ParsedFlags, F
<1> HIDE DEF F
<1> QED  BY <1>1, <1>3

\* The width of a field and the flag for its side.
LEMMA ReadySpec ==
    ASSUME NEW p, IsPiece(p), ~IsText(p), NEW k, Supported(p, k),
           Starred(p) => stack[k] \in Int
    PROVE  LET s == Ready(p, k)
               width == WidthOf(p, k)
           IN  /\ width \in Int /\ 2 * s.padding < IntLimit /\ s.padding \in Nat
               /\ s.padding = IF width < 0 THEN -width ELSE width
               /\ get_format_padding(s) = s.padding
               /\ s.type = TypeOf(p) /\ s.width = ModifierOf(p)
               /\ s.precisionKind = "default" /\ s.precision = 0 /\ s.padKind \in {"default", "given"}
               /\ s.flags \subseteq FormatFlags
               /\ "-" \in s.flags <=> Left(p, k)
               /\ \A c \in {"+", "#", "0"} : c \in s.flags <=> Has(p, c)
               /\ " " \in s.flags <=> Has(p, " ") /\ ~Has(p, "+")
<1> DEFINE s == Ready(p, k)
           t == WithType(p)
           width == WidthOf(p, k)
<1>1. ~(Has(p, "0") /\ Has(p, "-")) /\ -IntLimit < 2 * width /\ 2 * width < IntLimit
  BY Zenon DEF Supported
<1>2. /\ ParsedFlags(p) \subseteq FormatFlags
      /\ \A c \in {"-", "+", "#", "0"} : c \in ParsedFlags(p) <=> Has(p, c)
      /\ " " \in ParsedFlags(p) <=> Has(p, " ") /\ ~Has(p, "+")
  BY Zenon, <1>1, FlagsParsed
<1>3. t = [type |-> TypeOf(p), flags |-> ParsedFlags(p), width |-> ModifierOf(p),
           padKind |-> KindOf(p), padding |-> PaddingRead(p), precisionKind |-> "default", precision |-> 0]
  BY DEF WithType, SpecOf
<1>4. IntLimit \in Nat \ {0}
  BY Limits
<1>5. CASE Starred(p)
  <2>1. width = ToInt(stack[k]) /\ width \in Int
    BY <1>5, IntsTyped DEF WidthOf
  <2>2. s = IF width < 0
            THEN [t EXCEPT !.padKind = "given", !.padding = ToInt(-width), !.flags = @ \union {"-"}]
            ELSE [t EXCEPT !.padKind = "given", !.padding = width]
    BY Zenon, <1>5, <2>1 DEF Ready, StarPadding
  <2>3. ToInt(-width) = -width
    <3>1. -width \in Int /\ -IntLimit <= 2 * (-width) /\ 2 * (-width) < IntLimit
      BY <1>1, <1>4, <2>1
    <3> HIDE DEF width
    <3> QED  BY <3>1, IntsExact
  <2>4. Left(p, k) <=> Has(p, "-") \/ width < 0
    BY Zenon DEF Left
  <2> HIDE DEF s, t, width
  <2>5. CASE width < 0
    <3>1. s = [type |-> TypeOf(p), flags |-> ParsedFlags(p) \union {"-"}, width |-> ModifierOf(p),
               padKind |-> "given", padding |-> -width, precisionKind |-> "default", precision |-> 0]
      BY <1>3, <2>2, <2>3, <2>5
    <3>2. "-" \in FormatFlags
      BY DEF FormatFlags
    <3>3. \A c \in {"+", "#", "0", " "} : c \in ParsedFlags(p) \union {"-"} <=> c \in ParsedFlags(p)
      OBVIOUS
    <3>4. get_format_padding(s) = s.padding
      BY <3>1 DEF get_format_padding
    <3>5. /\ s.type = TypeOf(p) /\ s.width = ModifierOf(p) /\ s.padding = -width
          /\ s.precisionKind = "default" /\ s.precision = 0 /\ s.padKind = "given"
          /\ s.flags = ParsedFlags(p) \union {"-"}
      BY <3>1
    <3> HIDE DEF s
    <3>6. s.padding \in Nat /\ 2 * s.padding < IntLimit
      BY <1>1, <1>4, <2>1, <2>5, <3>5 DEF width
    <3> QED  BY <1>2, <2>1, <2>4, <2>5, <3>2, <3>3, <3>4, <3>5, <3>6 DEF s, width
  <2>6. CASE ~(width < 0)
    <3>1. s = [type |-> TypeOf(p), flags |-> ParsedFlags(p), width |-> ModifierOf(p),
               padKind |-> "given", padding |-> width, precisionKind |-> "default", precision |-> 0]
      BY <1>3, <2>2, <2>6
    <3>4. get_format_padding(s) = s.padding
      BY <3>1 DEF get_format_padding
    <3>5. /\ s.type = TypeOf(p) /\ s.width = ModifierOf(p) /\ s.padding = width
          /\ s.precisionKind = "default" /\ s.precision = 0 /\ s.padKind = "given"
          /\ s.flags = ParsedFlags(p)
      BY <3>1
    <3> HIDE DEF s
    <3>6. s.padding \in Nat /\ 2 * s.padding < IntLimit
      BY <1>1, <1>4, <2>1, <2>6, <3>5 DEF width
    <3> QED  BY <1>2, <2>1, <2>4, <2>6, <3>4, <3>5, <3>6 DEF s, width
  <2> QED  BY <2>5, <2>6
<1>6. CASE ~Starred(p)
  <2>1. width = WidthRead(p)[Len(p.width)] /\ PaddingRead(p) = width
    BY <1>6 DEF WidthOf, PaddingRead
  <2>2. width \in Nat /\ (p.width = <<>> => width = 0)
    <3>1. Len(p.width) \in Nat /\ WidthRead(p) \in [0 .. Len(p.width) -> Nat] /\ WidthRead(p)[0] = 0
      BY <1>6, WidthUnfolds
    <3>2. p.width = <<>> => Len(p.width) = 0
      OBVIOUS
    <3> QED  BY <2>1, <3>1, <3>2
  <2>3. s = t
    BY <1>6 DEF Ready
  <2>4. Left(p, k) <=> Has(p, "-")
    <3>1. Left(p, k) <=> Has(p, "-") \/ width < 0
      BY Zenon DEF Left
    <3> QED  BY <2>2, <3>1
  <2>5. KindOf(p) = IF p.width = <<>> THEN "default" ELSE "given"
    BY Zenon, <1>6 DEF KindOf
  <2> HIDE DEF s, t, width
  <2>6. /\ s.type = TypeOf(p) /\ s.width = ModifierOf(p) /\ s.padding = width
        /\ s.precisionKind = "default" /\ s.precision = 0 /\ s.padKind = KindOf(p)
        /\ s.flags = ParsedFlags(p)
    BY <1>3, <2>1, <2>3
  <2>7. get_format_padding(s) = s.padding /\ s.padKind \in {"default", "given"}
    BY <2>2, <2>5, <2>6 DEF get_format_padding
  <2>8. s.padding \in Nat /\ 2 * s.padding < IntLimit
    BY <1>1, <2>2, <2>6 DEF width
  <2>9. /\ s.flags \subseteq FormatFlags
        /\ "-" \in s.flags <=> Left(p, k)
        /\ \A c \in {"+", "#", "0"} : c \in s.flags <=> Has(p, c)
        /\ " " \in s.flags <=> Has(p, " ") /\ ~Has(p, "+")
    BY <1>2, <2>4, <2>6
  <2>10. width \in Int /\ s.padding = IF width < 0 THEN -width ELSE width
    BY <2>2, <2>6
  <2>11. s.precisionKind = "default" /\ s.precision = 0 /\ s.type = TypeOf(p) /\ s.width = ModifierOf(p)
    BY <2>6
  <2> QED  BY Zenon, <2>7, <2>8, <2>9, <2>10, <2>11 DEF s, width
<1> QED  BY <1>5, <1>6

-----------------------------------------------------------------------------
(***************************************************************************)
(* What a supported directive is made of, and the number it prints.        *)
(***************************************************************************)
LEMMA SupportedParts ==
    ASSUME NEW p, IsPiece(p), ~IsText(p), NEW k, Supported(p, k)
    PROVE  /\ Understood(p) /\ ~Percent(p) /\ ~CutOff(p)
           /\ p.precision = <<>> /\ p.type # <<>> /\ Type(p) = p.type[1]
           /\ \/ Type(p) \in {"c", "s", "p"} /\ p.length = <<>> /\ ModifierOf(p) = ""
              \/ Type(p) \in {"d", "i", "o", "x", "X", "u"}
           /\ ModifierOf(p) \in Widths \ {"L"}
           /\ Limit(p) = LimitOf(ModifierOf(p))
           /\ SlotsOf(ModifierOf(p)) = IF TwoSlots(p) THEN 2 ELSE 1
           /\ Slots(p) = StarSlots(p) + SlotsOf(ModifierOf(p))
<1>1. Understood(p) /\ ~Percent(p)
  BY Zenon DEF Supported
<1>2. /\ p.precision = <<>>
      /\ \/ Type(p) \in {"c", "s", "p"} /\ p.length = <<>>
         \/ Type(p) \in {"d", "i", "o", "x", "X", "u"} /\ p.length # <<"L">>
  BY <1>1 DEF Understood, Signed, Unsigned
<1>3. p.type # <<>> /\ Type(p) = p.type[1]
  BY <1>2 DEF Type
<1>4. ~CutOff(p)
  BY <1>2, <1>3 DEF CutOff
<1>5. p.length \in LengthModifiers
  BY DEF IsPiece
<1>6. /\ p.length = <<>> => ModifierOf(p) = ""
      /\ p.length # <<"L">>
      /\ ModifierOf(p) \in Widths \ {"L"}
      /\ TwoSlots(p) <=> ModifierOf(p) \in {"ll", "j"}
      /\ p.length = <<"h", "h">> <=> ModifierOf(p) = "hh"
      /\ p.length = <<"h">> <=> ModifierOf(p) = "h"
  <2>1. p.length # <<"L">>
    BY <1>2
  <2> QED  BY <1>5, <2>1, ModifierValues DEF LengthModifiers, Widths, TwoSlots
<1>7. SlotsOf(ModifierOf(p)) = IF TwoSlots(p) THEN 2 ELSE 1
  BY Zenon, <1>6 DEF SlotsOf
<1>8. Limit(p) = LimitOf(ModifierOf(p))
  <2> DEFINE m == ModifierOf(p)
             hh == p.length = <<"h", "h">>
             h == p.length = <<"h">>
             two == TwoSlots(p)
  <2>1. Limit(p) = CASE hh -> CharLimit [] h -> ShortLimit [] two -> MaxLimit [] OTHER -> IntLimit
    BY Zenon DEF Limit
  <2>2. LimitOf(m) = CASE m = "hh" -> CharLimit [] m = "h" -> ShortLimit
                       [] m \in {"ll", "j"} -> MaxLimit [] OTHER -> IntLimit
    BY Zenon DEF LimitOf
  <2>3. (hh <=> m = "hh") /\ (h <=> m = "h") /\ (two <=> m \in {"ll", "j"})
    BY <1>6
  <2> HIDE DEF m, hh, h, two
  <2>4. Limit(p) = LimitOf(m)
    BY <2>1, <2>2, <2>3
  <2> QED  BY <2>4 DEF m
<1>9. Slots(p) = StarSlots(p) + SlotsOf(ModifierOf(p))
  BY Zenon, <1>1, <1>7 DEF Slots
<1>10. \/ Type(p) \in {"c", "s", "p"} /\ p.length = <<>> /\ ModifierOf(p) = ""
       \/ Type(p) \in {"d", "i", "o", "x", "X", "u"}
  BY <1>2, <1>6
<1> QED  BY Zenon, <1>1, <1>2, <1>3, <1>4, <1>6, <1>7, <1>8, <1>9, <1>10

LEMMA NumberRead ==
    ASSUME InputInv, NEW p, IsPiece(p), ~IsText(p), NEW k \in Nat \ {0}, Supported(p, k),
           k + Slots(p) <= Len(stack)
    PROVE  LET at == k + StarSlots(p)
               m  == ModifierOf(p)
           IN  /\ at \in Nat \ {0} /\ at + SlotsOf(m) <= Len(stack)
               /\ stack[at] \in 0 .. IntLimit - 1
               /\ Number(p, k) = IF Type(p) \in Signed THEN read_signed(m, at) ELSE read_unsigned(m, at)
               /\ (IF Number(p, k) < 0 THEN -Number(p, k) ELSE Number(p, k)) \in 0 .. MaxLimit - 1
               /\ Number(p, k) \in Int
               /\ Type(p) \notin Signed => Number(p, k) \in 0 .. MaxLimit - 1
               /\ Type(p) = "p" => Number(p, k) = stack[at]
<1> DEFINE at == k + StarSlots(p)
           m == ModifierOf(p)
           L == LimitOf(m)
           u == read_unsigned(m, at)
           z == read_signed(m, at)
           n == Number(p, k)
<1>1. /\ m \in Widths /\ Limit(p) = L /\ SlotsOf(m) = (IF TwoSlots(p) THEN 2 ELSE 1)
      /\ Slots(p) = StarSlots(p) + SlotsOf(m)
      /\ Type(p) = "p" => m = ""
  BY SupportedParts
<1>2. StarSlots(p) \in {0, 1} /\ SlotsOf(m) \in {1, 2} /\ Len(stack) \in Nat
  BY SlotsTyped, Stack DEF SlotsOf, InputInv
<1>3. at \in Nat \ {0} /\ at + SlotsOf(m) <= Len(stack)
  <2> DEFINE st == StarSlots(p)
             sl == SlotsOf(m)
  <2>1. k + (st + sl) <= Len(stack) /\ st \in {0, 1} /\ sl \in {1, 2}
    BY <1>1, <1>2
  <2> HIDE DEF st, sl, m
  <2>2. k + st \in Nat \ {0} /\ (k + st) + sl <= Len(stack)
    BY <1>2, <2>1
  <2> QED  BY <2>2 DEF st, sl
<1> HIDE DEF m
<1>4. /\ stack[at] \in 0 .. IntLimit - 1 /\ u \in 0 .. MaxLimit - 1 /\ z \in Int
      /\ (IF z < 0 THEN -z ELSE z) \in 0 .. MaxLimit - 1
  <2> HIDE DEF at
  <2> QED  BY <1>1, <1>3, NumbersTyped
<1>5. (stack[at] + (IF TwoSlots(p) THEN IntLimit * stack[at + 1] ELSE 0)) % Limit(p) = u
  <2>1. u = (IF SlotsOf(m) = 2 THEN stack[at] + IntLimit * stack[at + 1] ELSE stack[at]) % L
    BY Zenon DEF read_unsigned
  <2>2. stack[at] + 0 = stack[at]
    BY <1>4
  <2> HIDE DEF at, L, u
  <2>3. CASE TwoSlots(p)
    BY Zenon, <1>1, <2>1, <2>3
  <2>4. CASE ~TwoSlots(p)
    <3>1. SlotsOf(m) = 1
      BY Zenon, <1>1, <2>4
    <3>2. SlotsOf(m) # 2
      BY <3>1
    <3> QED  BY Zenon, <1>1, <2>1, <2>2, <2>4, <3>2
  <2> QED  BY <2>3, <2>4
<1>6. L \in Nat \ {0} /\ u \in 0 .. L - 1
  <2>1. L \in Nat \ {0}
    BY Limits DEF LimitOf
  <2>2. \A x \in Int : x % L \in 0 .. L - 1
    <3> HIDE DEF L
    <3> QED  BY <2>1
  <2>3. SlotsOf(m) = 2 => stack[at + 1] \in 0 .. IntLimit - 1
    <3>1. \A i \in 1 .. Len(stack) : stack[i] \in 0 .. IntLimit - 1
      BY Stack DEF InputInv
    <3> HIDE DEF at
    <3>2. SlotsOf(m) = 2 => at + 1 \in 1 .. Len(stack)
      BY <1>2, <1>3
    <3> QED  BY <3>1, <3>2
  <2> DEFINE x == IF SlotsOf(m) = 2 THEN stack[at] + IntLimit * stack[at + 1] ELSE stack[at]
  <2>4. x \in Int
    <3> HIDE DEF at
    <3> QED  BY <1>4, <2>3, Limits
  <2>5. u = x % L
    BY Zenon DEF read_unsigned
  <2> HIDE DEF x, u, L
  <2> QED  BY <2>1, <2>2, <2>4, <2>5
<1>7. n = IF Type(p) \in Signed /\ 2 * u >= L THEN u - L ELSE u
  <2>1. n = IF Type(p) \in Signed /\ 2 * u >= Limit(p) THEN u - Limit(p) ELSE u
    <3> HIDE DEF u
    <3> QED  BY Zenon, <1>5 DEF Number
  <2> HIDE DEF u, n, L
  <2> QED  BY Zenon, <1>1, <2>1
<1>8. z = IF 2 * u >= L THEN u - L ELSE u
  <2>1. z = ToSigned(u, L)
    BY Zenon DEF read_signed
  <2> HIDE DEF u, z, L
  <2>2. u % L = u
    BY <1>6
  <2> QED  BY <2>1, <2>2 DEF ToSigned
<1>9. Type(p) = "p" => n = stack[at]
  <2> SUFFICES ASSUME Type(p) = "p" PROVE n = stack[at]
    OBVIOUS
  <2>1. m = "" /\ Type(p) \notin Signed
    BY <1>1 DEF Signed
  <2>2. SlotsOf(m) = 1 /\ L = IntLimit
    BY <2>1 DEF SlotsOf, LimitOf
  <2>3. u = stack[at] % IntLimit
    BY <2>2 DEF read_unsigned
  <2>4. stack[at] % IntLimit = stack[at]
    <3>1. IntLimit \in Nat \ {0}
      BY Limits
    <3>2. \A a \in 0 .. IntLimit - 1 : a % IntLimit = a
      BY <3>1
    <3> HIDE DEF at
    <3> QED  BY <1>4, <3>2
  <2> HIDE DEF u, n, at
  <2> QED  BY <1>7, <2>1, <2>3, <2>4
<1>10. /\ n = IF Type(p) \in Signed THEN z ELSE u
       /\ (IF n < 0 THEN -n ELSE n) \in 0 .. MaxLimit - 1 /\ n \in Int
       /\ Type(p) \notin Signed => n \in 0 .. MaxLimit - 1
  <2> HIDE DEF u, n, z, L
  <2>1. n = IF Type(p) \in Signed THEN z ELSE u
    BY <1>7, <1>8
  <2> QED  BY <1>4, <2>1, Limits
<1> QED  BY Zenon, <1>3, <1>4, <1>9, <1>10 DEF m

\* A number in octal does not begin with a zero.
LEMMA OctalHead ==
    ASSUME NEW value \in 1 .. MaxLimit - 1
    PROVE  /\ TextOf(value, 8, LowerDigits) # <<>>
           /\ TextOf(value, 8, LowerDigits)[1] # "0"
<1> DEFINE n == NumDigits(value, 8)
           rest == Rest(value, 8)
           t == TextOf(value, 8, LowerDigits)
<1>1. value \in 0 .. MaxLimit - 1 /\ value \in Nat /\ value # 0 /\ 8 \in Radices /\ 8 \in Nat \ {0}
  BY Limits DEF Radices
<1>2. /\ n \in 0 .. IntegerBufLen - 3 /\ rest[n] = 0
      /\ \A k \in 0 .. n - 1 : rest[k] # 0
  BY <1>1, DigitsCounted
<1>3. /\ rest \in [0 .. IntegerBufLen -> Nat] /\ rest[0] = value
      /\ \A k \in 1 .. IntegerBufLen : rest[k] = rest[k - 1] \div 8
  BY <1>1, RestUnfolds
<1>4. IntegerBufLen \in Nat
  BY Limits
<1>5. Len(t) = n /\ t \in Seq(Characters)
  <2>1. LowerDigits \in DigitTables
    BY DEF DigitTables
  <2> QED  BY <1>1, <2>1, TextTyped
<1>6. \A i \in 1 .. n : t[i] = LowerDigits[1 + (rest[n - i] % 8)]
  BY DEF TextOf
<1> HIDE DEF n, rest, t
<1>7. n # 0 /\ n \in 1 .. IntegerBufLen /\ n - 1 \in 0 .. n - 1 /\ n - 1 \in 0 .. IntegerBufLen
  <2>1. n # 0
    <3>1. rest[0] # 0
      BY <1>1, <1>3
    <3> QED  BY <1>2, <3>1
  <2> QED  BY <1>2, <1>4, <2>1
<1>8. rest[n - 1] \in 1 .. 7
  <2>1. rest[n - 1] # 0 /\ rest[n - 1] \in Nat /\ rest[n - 1] \div 8 = 0
    BY <1>2, <1>3, <1>7
  <2>2. \A a \in Nat : a # 0 /\ a \div 8 = 0 => a \in 1 .. 7
    OBVIOUS
  <2> QED  BY <2>1, <2>2
<1>9. 1 + (rest[n - 1] % 8) \in 2 .. 8
  BY <1>8
<1>10. \A i \in 2 .. 8 : LowerDigits[i] # "0"
  BY DEF LowerDigits
<1>11. t[1] = LowerDigits[1 + (rest[n - 1] % 8)]
  BY <1>2, <1>6, <1>7
<1>12. t[1] # "0" /\ t # <<>>
  <2>1. t[1] # "0"
    BY <1>9, <1>10, <1>11
  <2>2. t # <<>>
    BY <1>5, <1>7
  <2> QED  BY <2>1, <2>2
<1> QED  BY <1>12 DEF t

(***************************************************************************)
(* The digits of a directive, and its prefix in octal.                     *)
(***************************************************************************)
LEMMA DigitsAsC11 ==
    ASSUME InputInv, NEW p, IsPiece(p), ~IsText(p), NEW k \in Nat \ {0}, Supported(p, k),
           k + Slots(p) <= Len(stack), Type(p) \notin {"c", "s"},
           NEW s, s.type = TypeOf(p), s.width = ModifierOf(p), s.precisionKind = "default"
    PROVE  LET at == k + StarSlots(p)
           IN  /\ DigitsOf(s, at) = IF Type(p) = "p" THEN <<"0", "x">> \o Digits(p, k) ELSE Digits(p, k)
               /\ Digits(p, k) \in Seq(Characters)
               /\ Len(Digits(p, k)) \in 0 .. IntegerBufLen - 3
               /\ Type(p) = "o" =>
                     (Digits(p, k) # <<>> /\ Head(Digits(p, k)) # "0" <=> Number(p, k) # 0)
<1> DEFINE at == k + StarSlots(p)
           n == Number(p, k)
           value == IF n < 0 THEN -n ELSE n
           radix == Radix(p)
           least == IF Type(p) = "p" THEN IntBits \div 4 ELSE 1
           numeral == Numeral(value, radix, TableOf(s.type))
           digits == Digits(p, k)
<1>1. Type(p) \in {"d", "i", "o", "x", "X", "u", "p"}
  BY SupportedParts
<1>2. /\ n = IF Type(p) \in Signed THEN read_signed(s.width, at) ELSE read_unsigned(s.width, at)
      /\ value \in 0 .. MaxLimit - 1 /\ n \in Int
      /\ Type(p) \notin Signed => n \in 0 .. MaxLimit - 1
      /\ Type(p) = "p" => n = stack[at]
  BY Zenon, NumberRead
<1>3. /\ s.type = (IF Type(p) \in Signed THEN "d" ELSE Type(p))
      /\ (s.type = "X" <=> Type(p) = "X")
  BY <1>1 DEF TypeOf, Signed
<1>4. radix \in Radices /\ radix = (IF Type(p) = "o" THEN 8 ELSE IF Type(p) \in {"x", "X", "p"} THEN 16 ELSE 10)
  BY <1>1 DEF Radix, Radices
<1>5. least \in Nat /\ least <= IntegerBufLen - 3 /\ 1 <= IntegerBufLen - 3 /\ 1 < IntegerBufLen
  BY Limits
<1>6. digits = Zeros(least - Len(numeral)) \o numeral
  <2>1. TableOf(s.type) = IF Type(p) = "X" THEN UpperDigits ELSE LowerDigits
    BY Zenon, <1>3 DEF TableOf
  <2> QED  BY Zenon, <2>1 DEF Digits
<1> HIDE DEF at, n, value, radix, least, numeral, digits
<1>7. /\ unsigned_to_string(value, radix, least, s) = digits
      /\ numeral = TextOf(value, radix, TableOf(s.type))
  <2>1. /\ value \in 0 .. MaxLimit - 1 /\ radix \in Radices
        /\ least \in Nat /\ least <= IntegerBufLen - 3
    BY Zenon, <1>2, <1>4, <1>5
  <2>2. /\ unsigned_to_string(value, radix, least, s)
              = Zeros(least - Len(Numeral(value, radix, TableOf(s.type))))
                    \o Numeral(value, radix, TableOf(s.type))
        /\ Numeral(value, radix, TableOf(s.type)) = TextOf(value, radix, TableOf(s.type))
    BY <2>1, NumberWritten
  <2> QED  BY Zenon, <1>6, <2>2 DEF numeral
<1>8. digits \in Seq(Characters) /\ Len(digits) \in 0 .. IntegerBufLen - 3
  <2>1. /\ unsigned_to_string(value, radix, least, s) \in Seq(Characters)
        /\ Len(unsigned_to_string(value, radix, least, s)) \in 0 .. IntegerBufLen - 3
    BY <1>2, <1>4, <1>5, TextOfNumber
  <2> QED  BY <1>7, <2>1
<1>9. DigitsOf(s, at) = IF Type(p) = "p" THEN <<"0", "x">> \o digits ELSE digits
  <2>1. get_format_precision(s, 1) = 1
    BY DEF get_format_precision
  <2>2. ASSUME NEW v PROVE PrintsDecimal(v, s) /\ PrintsHex(v, s)
    BY <2>1 DEF PrintsDecimal, PrintsHex
  <2>3. CASE Type(p) \in Signed
    <3>1. s.type = "d" /\ Type(p) # "p" /\ radix = 10 /\ least = 1
      BY <1>3, <1>4, <2>3 DEF Signed, least
    <3>2. n = read_signed(s.width, at)
      BY Zenon, <1>2, <2>3
    <3>3. DigitsOf(s, at) = IF PrintsDecimal(n, s) THEN signed_to_string(n, 10, 1, s) ELSE <<>>
      BY <2>1, <3>1, <3>2 DEF DigitsOf
    <3>4. signed_to_string(n, 10, 1, s) = unsigned_to_string(value, 10, 1, s)
      BY <1>5 DEF signed_to_string, value
    <3> QED  BY Zenon, <1>7, <2>2, <3>1, <3>3, <3>4
  <2>4. CASE Type(p) \notin Signed /\ Type(p) # "p"
    <3>1. s.type = Type(p) /\ least = 1 /\ n = read_unsigned(s.width, at)
      BY Zenon, <1>2, <1>3, <2>4 DEF least
    <3>2. n = value
      BY <1>2, <2>4, Limits DEF value
    <3>3. DigitsOf(s, at) = unsigned_to_string(value, radix, 1, s)
      <4>1. CASE s.type = "o"
        <5>1. DigitsOf(s, at) = IF PrintsDecimal(n, s) THEN unsigned_to_string(n, 8, 1, s) ELSE <<>>
          BY <2>1, <3>1, <4>1 DEF DigitsOf
        <5>2. radix = 8
          BY <1>4, <3>1, <4>1
        <5> QED  BY Zenon, <2>2, <3>2, <5>1, <5>2
      <4>2. CASE s.type \in {"x", "X"}
        <5>1. DigitsOf(s, at) = IF PrintsHex(n, s) THEN unsigned_to_string(n, 16, 1, s) ELSE <<>>
          BY <2>1, <3>1, <4>2 DEF DigitsOf
        <5>2. radix = 16
          BY <1>4, <3>1, <4>2
        <5> QED  BY Zenon, <2>2, <3>2, <5>1, <5>2
      <4>3. CASE s.type = "u"
        <5>1. DigitsOf(s, at) = IF PrintsHex(n, s) THEN unsigned_to_string(n, 10, 1, s) ELSE <<>>
          BY <2>1, <3>1, <4>3 DEF DigitsOf
        <5>2. radix = 10
          BY <1>4, <3>1, <4>3
        <5> QED  BY Zenon, <2>2, <3>2, <5>1, <5>2
      <4> QED  BY <1>1, <2>4, <3>1, <4>1, <4>2, <4>3 DEF Signed
    <3> QED  BY Zenon, <1>7, <2>4, <3>1, <3>3
  <2>5. CASE Type(p) = "p"
    <3>1. s.type = "p" /\ least = IntBits \div 4 /\ radix = 16 /\ n = stack[at] /\ Type(p) \notin Signed
      BY <1>2, <1>3, <1>4, <2>5 DEF least, Signed
    <3>2. n = value
      BY <1>2, <3>1, Limits DEF value
    <3>3. DigitsOf(s, at) = <<"0", "x">> \o unsigned_to_string(stack[at], 16, IntBits \div 4, s)
      BY <3>1 DEF DigitsOf
    <3> QED  BY Zenon, <1>7, <2>5, <3>1, <3>2, <3>3
  <2> QED  BY <2>3, <2>4, <2>5
<1>10. ASSUME Type(p) = "o" PROVE digits # <<>> /\ Head(digits) # "0" <=> n # 0
  <2>1. radix = 8 /\ least = 1 /\ Type(p) \notin Signed
    BY <1>4, <1>10 DEF least, Signed
  <2>2. n = value
    BY <1>2, <2>1, Limits DEF value
  <2>3. TableOf(s.type) = LowerDigits
    BY <1>3, <1>10 DEF TableOf
  <2>4. numeral = TextOf(n, 8, LowerDigits)
    BY Zenon, <1>7, <2>1, <2>2, <2>3
  <2>5. CASE n = 0
    <3>1. numeral = <<>>
      <4>1. n \in 0 .. MaxLimit - 1 /\ LowerDigits \in DigitTables /\ 8 \in Radices
        BY <1>2, <2>1, <2>2 DEF DigitTables, Radices
      <4> QED  BY <2>4, <2>5, <4>1, TextTyped
    <3>2. digits = Zeros(1) \o <<>>
      <4>1. least - Len(numeral) = 1
        BY <2>1, <3>1
      <4> QED  BY Zenon, <1>6, <3>1, <4>1
    <3>3. Zeros(1) \in Seq(Characters) /\ Len(Zeros(1)) = 1 /\ Zeros(1)[1] = "0"
      <4>1. 1 \in Int
        OBVIOUS
      <4>2. /\ Zeros(1) \in Seq(Characters) /\ Len(Zeros(1)) = (IF 1 > 0 THEN 1 ELSE 0)
            /\ \A i \in 1 .. 1 : Zeros(1)[i] = "0"
        BY Zenon, <4>1, Filled
      <4> QED  BY <4>2
    <3>4. digits = Zeros(1)
      BY <3>2, <3>3, ConcatEmptySeq
    <3>5. Head(digits) = "0"
      BY <3>3, <3>4
    <3> QED  BY <2>5, <3>5
  <2>6. CASE n # 0
    <3>1. n \in 1 .. MaxLimit - 1
      BY <1>2, <2>2, <2>6, Limits
    <3>2. numeral # <<>> /\ numeral[1] # "0"
      BY <2>4, <3>1, OctalHead
    <3>3. numeral \in Seq(Characters)
      <4>1. n \in 0 .. MaxLimit - 1 /\ LowerDigits \in DigitTables /\ 8 \in Radices
        BY <1>2, <2>1, <2>2 DEF DigitTables, Radices
      <4> QED  BY <2>4, <4>1, TextTyped
    <3>4. Len(numeral) \in Nat \ {0}
      BY <3>2, <3>3, EmptySeq
    <3>5. Zeros(least - Len(numeral)) = <<>>
      <4>1. least - Len(numeral) \in Int /\ least - Len(numeral) <= 0
        BY <2>1, <3>4
      <4> QED  BY <4>1, Filled
    <3>6. digits = numeral
      BY <1>6, <3>3, <3>5, ConcatEmptySeq
    <3>7. Head(digits) # "0" /\ digits # <<>>
      BY <3>2, <3>3, <3>6
    <3> QED  BY <2>6, <3>7
  <2> QED  BY <2>5, <2>6
<1> QED  BY Zenon, <1>8, <1>9, <1>10 DEF digits, n, at

-----------------------------------------------------------------------------
(***************************************************************************)
(* A field: what stands in it, and the characters that fill it.            *)
(***************************************************************************)
Missing(s, prefix, digits) == get_format_padding(s) - Len(prefix) - Len(digits)

Laid(s, prefix, digits, lacks) ==
    IF "-" \in s.flags THEN prefix \o digits \o Spaces(lacks)
    ELSE IF "0" \in s.flags THEN prefix \o Zeros(lacks) \o digits
    ELSE Spaces(lacks) \o prefix \o digits

\* An int counts the field, and its blanks are not those format_decimal forgets.
Fillable(s, prefix, digits, blanks) ==
    /\ prefix \in Seq(Characters) /\ digits \in Seq(Characters)
    /\ s.precisionKind = "default"
    /\ get_format_padding(s) \in Nat /\ 2 * get_format_padding(s) < IntLimit
    /\ 2 * (Len(prefix) + Len(digits)) <= IntLimit
    /\ \/ blanks = "all" \/ "-" \in s.flags \/ "0" \in s.flags
       \/ Missing(s, prefix, digits) <= 1

LEMMA JustifiedAsC11 ==
    ASSUME NEW s, NEW prefix, NEW digits, NEW blanks, Fillable(s, prefix, digits, blanks)
    PROVE  Justified(s, prefix, digits, blanks) = Laid(s, prefix, digits, Missing(s, prefix, digits))
<1> USE DEF Fillable, Missing
<1> DEFINE lacks == get_format_padding(s) - Len(prefix) - Len(digits)
           padding == get_format_padding(s)
           padSize == ToInt(padding - Len(digits) - Len(prefix))
           j == Justified(s, prefix, digits, blanks)
<1>1. Len(prefix) \in Nat /\ Len(digits) \in Nat /\ IntLimit \in Nat
  BY LenProperties, Limits
<1>0. lacks \in Int
  BY <1>1
<1>2. padSize = lacks
  <2>1. padding - Len(digits) - Len(prefix) = lacks
    BY <1>1
  <2>2. -IntLimit <= 2 * lacks /\ 2 * lacks < IntLimit
    BY <1>1
  <2> HIDE DEF lacks
  <2>3. ToInt(lacks) = lacks
    BY <1>0, <2>2, IntsExact
  <2> QED  BY Zenon, <2>1, <2>3
<1>3. j = IF lacks > 0 /\ "-" \notin s.flags
          THEN IF "0" \in s.flags /\ s.precisionKind = "default"
               THEN prefix \o write_chars("0", lacks) \o digits
               ELSE write_chars(" ", IF blanks = "all" THEN lacks ELSE 1) \o prefix \o digits
          ELSE prefix \o digits \o write_chars(" ", lacks)
  <2>1. j = IF padSize > 0 /\ "-" \notin s.flags
            THEN IF "0" \in s.flags /\ s.precisionKind = "default"
                 THEN prefix \o write_chars("0", padSize) \o digits
                 ELSE write_chars(" ", IF blanks = "all" THEN padSize ELSE 1) \o prefix \o digits
            ELSE prefix \o digits \o write_chars(" ", padSize)
    BY Zenon DEF Justified
  <2> QED  BY Zenon, <1>2, <2>1
<1>4. /\ write_chars("0", lacks) = Zeros(lacks) /\ write_chars(" ", lacks) = Spaces(lacks)
      /\ lacks <= 0 => Zeros(lacks) = <<>> /\ Spaces(lacks) = <<>>
  <2> HIDE DEF lacks
  <2> QED  BY <1>0, Filled
<1>5. prefix \o digits \in Seq(Characters)
  BY Joined
<1> HIDE DEF j, padding, padSize, lacks
<1> DEFINE laid == IF "-" \in s.flags THEN prefix \o digits \o Spaces(lacks)
                   ELSE IF "0" \in s.flags THEN prefix \o Zeros(lacks) \o digits
                   ELSE Spaces(lacks) \o prefix \o digits
<1>6. ASSUME "-" \in s.flags PROVE j = laid
  BY Zenon, <1>3, <1>4, <1>6
<1>7. ASSUME "-" \notin s.flags, lacks <= 0 PROVE j = laid
  <2>1. /\ (prefix \o digits) \o <<>> = prefix \o digits
        /\ prefix \o <<>> = prefix /\ <<>> \o prefix = prefix
    BY <1>5, ConcatEmptySeq
  <2>2. ~(lacks > 0)
    BY <1>0, <1>7
  <2> QED  BY Zenon, <1>3, <1>4, <1>7, <2>1, <2>2
<1>8. ASSUME "-" \notin s.flags, lacks > 0 PROVE j = laid
  <2>1. CASE "0" \in s.flags
    BY Zenon, <1>3, <1>4, <1>8, <2>1
  <2>2. CASE "0" \notin s.flags
    <3>1. write_chars(" ", IF blanks = "all" THEN lacks ELSE 1) = Spaces(lacks)
      <4>1. blanks = "all" \/ lacks = 1
        <5>1. blanks = "all" \/ lacks <= 1
          BY <1>8, <2>2 DEF lacks
        <5> QED  BY <1>0, <1>8, <5>1
      <4> QED  BY Zenon, <1>4, <4>1
    <3> QED  BY Zenon, <1>3, <1>8, <2>2, <3>1
  <2> QED  BY <2>1, <2>2
<1>9. lacks <= 0 \/ lacks > 0
  BY <1>0
<1>10. j = laid
  <2> HIDE DEF laid
  <2> QED  BY Zenon, <1>6, <1>7, <1>8, <1>9
<1> QED  BY Zenon, <1>10 DEF j, lacks, Laid

LEMMA StringAsC11 ==
    ASSUME NEW s, NEW text \in Seq(Characters), s.padding \in Nat, 2 * s.padding < IntLimit,
           2 * Len(text) <= IntLimit, s.precisionKind = "default"
    PROVE  LET lacks == s.padding - Len(text)
           IN  output_string(text, s) =
                   IF "-" \in s.flags THEN text \o Spaces(lacks) ELSE Spaces(lacks) \o text
<1> DEFINE lacks == s.padding - Len(text)
           length == IF s.precisionKind # "default" /\ s.precision < Len(text)
                     THEN s.precision ELSE Len(text)
<1>1. Len(text) \in Nat /\ IntLimit \in Nat
  BY LenProperties, Limits
<1>2. length = Len(text)
  OBVIOUS
<1>3. lacks \in Int /\ -IntLimit <= 2 * lacks /\ 2 * lacks < IntLimit
  BY <1>1
<1> HIDE DEF lacks
<1>4. ToInt(lacks) = lacks
  BY <1>3, IntsExact
<1>5. write_chars(" ", lacks) = Spaces(lacks)
  BY <1>3, Filled
<1>6. SubSeq(text, 1, Len(text)) = text
  BY <1>1
<1>7. output_string(text, s) =
          IF "-" \in s.flags
          THEN SubSeq(text, 1, length) \o write_chars(" ", ToInt(s.padding - length))
          ELSE write_chars(" ", ToInt(s.padding - length)) \o SubSeq(text, 1, length)
  BY Zenon DEF output_string
<1> HIDE DEF length
<1>8. s.padding - length = lacks
  BY <1>2 DEF lacks
<1> QED  BY Zenon, <1>2, <1>4, <1>5, <1>6, <1>7, <1>8 DEF lacks

\* Every directive the code supports is printed as C11 lays it out.
LEMMA FieldPrinted ==
    ASSUME InputInv, NEW p, IsPiece(p), ~IsText(p), NEW k \in Nat \ {0}, Supported(p, k),
           k + Slots(p) <= Len(stack)
    PROVE  Formatted(Ready(p, k), k + StarSlots(p)) = Field(p, k)
<1> DEFINE at == k + StarSlots(p)
           s == Ready(p, k)
           m == ModifierOf(p)
           n == Number(p, k)
           sign == Sign(p, k)
           body == Body(p, k)
           width == WidthOf(p, k)
           lacks == Lacks(p, k)
           digits == DigitsOf(s, at)
           field == IF Left(p, k) THEN sign \o body \o Spaces(lacks)
                    ELSE IF Has(p, "0") THEN sign \o Zeros(lacks) \o body
                    ELSE Spaces(lacks) \o sign \o body
<1>1. /\ ~Percent(p)
      /\ \/ Type(p) \in {"c", "s", "p"} /\ p.length = <<>> /\ m = ""
         \/ Type(p) \in {"d", "i", "o", "x", "X", "u"}
  BY Zenon, SupportedParts
<1>2. Field(p, k) = field
  <2>1. Field(p, k) = CASE Left(p, k) -> sign \o body \o Spaces(lacks)
                        [] ~Left(p, k) /\ Has(p, "0") -> sign \o Zeros(lacks) \o body
                        [] OTHER -> Spaces(lacks) \o sign \o body
    BY Zenon, <1>1 DEF Field
  <2> HIDE DEF sign, body, lacks
  <2> QED  BY Zenon, <2>1
<1>3. /\ at \in Nat \ {0} /\ stack[at] \in 0 .. IntLimit - 1
      /\ n = (IF Type(p) \in Signed THEN read_signed(m, at) ELSE read_unsigned(m, at))
      /\ n \in Int
      /\ Type(p) \notin Signed => n \in 0 .. MaxLimit - 1
  BY Zenon, NumberRead
<1>4. Starred(p) => stack[k] \in Int
  <2>1. Len(stack) \in Nat /\ \A i \in 1 .. Len(stack) : stack[i] \in 0 .. IntLimit - 1
    BY Stack DEF InputInv
  <2>2. Slots(p) \in Nat \ {0}
    <3>1. Slots(p) = StarSlots(p) + SlotsOf(m) /\ StarSlots(p) \in {0, 1} /\ SlotsOf(m) \in {1, 2}
      BY SupportedParts, SlotsTyped DEF SlotsOf
    <3> HIDE DEF m
    <3> QED  BY <3>1
  <2>3. k \in 1 .. Len(stack)
    BY <2>1, <2>2
  <2> QED  BY <2>1, <2>3
<1>5. /\ width \in Int /\ 2 * s.padding < IntLimit /\ s.padding \in Nat
      /\ s.padding = (IF width < 0 THEN -width ELSE width)
      /\ get_format_padding(s) = s.padding
      /\ s.type = TypeOf(p) /\ s.width = m
      /\ s.precisionKind = "default"
      /\ "-" \in s.flags <=> Left(p, k)
      /\ \A c \in {"+", "#", "0"} : c \in s.flags <=> Has(p, c)
      /\ " " \in s.flags <=> Has(p, " ") /\ ~Has(p, "+")
  BY Zenon, <1>4, ReadySpec
<1>6. lacks = s.padding - Len(sign) - Len(body)
  BY Zenon, <1>5 DEF Lacks
<1>7. /\ Has(p, "0") => Type(p) \in Signed \union Unsigned
      /\ Has(p, "#") => Type(p) \in {"o", "x", "X"}
      /\ Type(p) = "c" => stack[at] % CharLimit # 0
      /\ Type(p) = "s" => stack[at] \in DOMAIN Strings /\ 2 * Len(Strings[stack[at]]) <= IntLimit
      /\ Type(p) \in Signed => Left(p, k) \/ Has(p, "0") \/ lacks <= 1
  BY Zenon, <1>1 DEF Supported
<1>8. sign \in Seq(Characters) /\ Len(sign) \in 0 .. 2
  <2>1. \A t \in {<<"-">>, <<"+">>, <<" ">>, <<"0">>, <<"0", "x">>, <<"0", "X">>, <<>>} :
            t \in Seq(Characters) /\ Len(t) \in 0 .. 2
    <3>1. Len(<<>>) = 0 /\ Len(<<"0", "x">>) = 2 /\ Len(<<"0", "X">>) = 2
      OBVIOUS
    <3>2. \A c : Len(<<c>>) = 1
      OBVIOUS
    <3>3. \A c \in {" ", "0", "+", "-"} : <<c>> \in Seq(Characters)
      BY Literals
    <3>4. 0 \in 0 .. 2 /\ 1 \in 0 .. 2 /\ 2 \in 0 .. 2
      OBVIOUS
    <3> QED  BY Zenon, <3>1, <3>2, <3>3, <3>4, Literals
  <2>2. sign \in {<<"-">>, <<"+">>, <<" ">>, <<"0">>, <<"0", "x">>, <<"0", "X">>, <<>>}
    BY Zenon DEF Sign
  <2> QED  BY Zenon, <2>1, <2>2
<1>9. IntLimit \in Nat \ {0} /\ IntegerBufLen \in Nat /\ IntegerBufLen > 3
      /\ 2 * IntegerBufLen <= IntLimit
  BY Limits, WidthAssumption
<1> HIDE DEF at, s, m, n, sign, body, width, lacks
<1>12. s.padding \in Nat /\ 2 * s.padding < IntLimit
  BY Zenon, <1>5
<1>13. \A a, b, c \in Nat : /\ a - b - c \in Int /\ a - 0 - c = a - c /\ a - (b + c) = a - b - c
                          /\ \A l \in Nat : 2 * a < l /\ 2 * (b + c) <= l =>
                                -l <= 2 * (a - b - c) /\ 2 * (a - b - c) < l
  OBVIOUS
<1>10. CASE Type(p) \in {"c", "s"}
  <2> DEFINE char == CharOf[stack[at] % CharLimit]
             text == IF Type(p) = "c" THEN <<char>> ELSE Strings[stack[at]]
  <2>1. sign = <<>> /\ body = text /\ ~Has(p, "0") /\ s.type = Type(p)
    <3>1. sign = <<>>
      BY <1>7, <1>10 DEF Sign, Signed, sign
    <3>2. body = text
      BY <1>10 DEF Body, body, at
    <3>3. ~Has(p, "0")
      BY <1>7, <1>10 DEF Signed, Unsigned
    <3>4. s.type = Type(p)
      BY <1>5, <1>10 DEF TypeOf
    <3> QED  BY Zenon, <3>1, <3>2, <3>3, <3>4
  <2>2. stack[at] % CharLimit \in 0 .. CharLimit - 1
    <3>1. CharLimit \in Nat \ {0}
      BY Limits
    <3> QED  BY <1>3, <3>1
  <2>3. /\ char \in Characters
        /\ Type(p) = "c" => char # "NUL"
    <3>1. CharOf \in [0 .. CharLimit - 1 -> Characters] /\ \A c \in 1 .. CharLimit - 1 : CharOf[c] # "NUL"
      BY FormatAssumption
    <3>2. \A c \in 0 .. CharLimit - 1 : c # 0 => c \in 1 .. CharLimit - 1
      BY Limits
    <3> QED  BY Zenon, <1>7, <2>2, <3>1, <3>2
  <2>4. text \in Seq(Characters) /\ 2 * Len(text) <= IntLimit
    <3>1. Type(p) = "s" => Strings[stack[at]] \in Seq(Characters) /\ 2 * Len(Strings[stack[at]]) <= IntLimit
      <4>1. \A a \in DOMAIN Strings : Strings[a] \in Seq(Characters)
        BY FormatAssumption
      <4> QED  BY Zenon, <1>7, <4>1
    <3> HIDE DEF char
    <3>2. <<char>> \in Seq(Characters) /\ Len(<<char>>) = 1
      BY <2>3, OneCharacter
    <3>3. 2 * 1 <= IntLimit
      BY <1>9
    <3> QED  BY Zenon, <1>10, <3>1, <3>2, <3>3
  <2>5. Formatted(s, at) = output_string(text, s)
    <3>1. CASE Type(p) = "c"
      <4>1. Formatted(s, at) = format_character(s, at)
        BY <2>1, <3>1 DEF Formatted
      <4>2. format_character(s, at) = output_string(<<char>>, s)
        BY Zenon, <2>3, <3>1 DEF format_character
      <4> QED  BY Zenon, <3>1, <4>1, <4>2
    <3>2. CASE Type(p) = "s"
      <4>1. Formatted(s, at) = format_string(s, at)
        BY <2>1, <3>2 DEF Formatted
      <4>2. format_string(s, at) = output_string(Strings[stack[at]], s)
        BY Zenon, <1>7, <3>2 DEF format_string
      <4>3. Type(p) # "c"
        BY <3>2
      <4> QED  BY Zenon, <4>1, <4>2, <4>3
    <3> QED  BY <1>10, <3>1, <3>2
  <2> HIDE DEF text
  <2>6. lacks = s.padding - Len(text)
    <3>1. Len(sign) = 0
      BY <2>1
    <3>2. Len(text) \in Nat
      BY <2>4, LenProperties
    <3>3. lacks = s.padding - 0 - Len(text)
      BY Zenon, <1>6, <2>1, <3>1
    <3>4. s.padding - 0 - Len(text) = s.padding - Len(text)
      BY Zenon, <1>12, <1>13, <3>2
    <3> QED  BY Zenon, <3>3, <3>4
  <2>7. output_string(text, s) =
            IF "-" \in s.flags THEN text \o Spaces(lacks) ELSE Spaces(lacks) \o text
    BY Zenon, <1>5, <2>4, <2>6, StringAsC11
  <2>8. lacks \in Int
    <3>1. Len(text) \in Nat
      BY <2>4, LenProperties
    <3>2. 0 \in Nat
      OBVIOUS
    <3> QED  BY Zenon, <1>12, <1>13, <2>6, <3>1, <3>2
  <2>9. Spaces(lacks) \in Seq(Characters)
    BY <2>8, Filled
  <2>10. <<>> \o text = text /\ Spaces(lacks) \o <<>> = Spaces(lacks)
    BY <2>4, <2>9, ConcatEmptySeq
  <2>11. field = IF Left(p, k) THEN text \o Spaces(lacks) ELSE Spaces(lacks) \o text
    BY Zenon, <2>1, <2>10
  <2> HIDE DEF field
  <2> QED  BY Zenon, <1>2, <1>5, <2>5, <2>7, <2>11 DEF at, s
<1>11. CASE Type(p) \notin {"c", "s"}
  <2>1. /\ digits = (IF Type(p) = "p" THEN <<"0", "x">> \o body ELSE body)
        /\ body \in Seq(Characters) /\ Len(body) \in 0 .. IntegerBufLen - 3
        /\ Type(p) = "o" => (body # <<>> /\ Head(body) # "0" <=> n # 0)
    <3>1. body = Digits(p, k)
      BY <1>11 DEF Body, body
    <3> QED  BY Zenon, <1>5, <1>11, <3>1, DigitsAsC11 DEF at, m, n
  <2>2. Len(sign) \in Nat /\ Len(body) \in Nat /\ 2 * (Len(sign) + Len(body)) <= IntLimit
    <3>1. \A a \in 0 .. 2 : \A b \in 0 .. IntegerBufLen - 3 :
              a \in Nat /\ b \in Nat /\ 2 * (a + b) <= IntLimit
      BY <1>9
    <3> QED  BY Zenon, <1>8, <2>1, <3>1
  <2>3. lacks \in Int
    BY Zenon, <1>6, <1>12, <1>13, <2>2
  <2>4. CASE Type(p) = "p"
    <3> DEFINE x == <<"0", "x">>
               pad == write_chars(" ", ToInt(get_format_padding(s) - Len(digits)))
    <3>1. sign = x /\ s.type = "p" /\ ~Has(p, "0")
      BY <1>5, <1>7, <2>4 DEF Sign, Signed, Unsigned, sign, TypeOf
    <3>2. Formatted(s, at) = IF "-" \in s.flags THEN digits \o pad ELSE pad \o digits
      <4>1. Formatted(s, at) = format_pointer(s, at)
        BY <3>1 DEF Formatted
      <4> QED  BY Zenon, <4>1 DEF format_pointer
    <3>3. digits = sign \o body
      BY Zenon, <2>1, <2>4, <3>1
    <3>4. Len(digits) = Len(sign) + Len(body)
      BY <1>8, <2>1, <3>3, ConcatProperties
    <3> HIDE DEF digits
    <3>5. get_format_padding(s) - Len(digits) = lacks
      <4>1. s.padding - (Len(sign) + Len(body)) = s.padding - Len(sign) - Len(body)
        <5>1. \A a, b, c \in Nat : a - (b + c) = a - b - c
          OBVIOUS
        <5> QED  BY Zenon, <1>12, <2>2, <5>1
      <4>2. get_format_padding(s) = s.padding
        BY Zenon, <1>5
      <4> QED  BY Zenon, <1>6, <3>4, <4>1, <4>2
    <3>6. ToInt(lacks) = lacks
      <4>1. -IntLimit <= 2 * lacks /\ 2 * lacks < IntLimit
        <5>1. IntLimit \in Nat
          BY <1>9
        <5> QED  BY Zenon, <1>6, <1>12, <1>13, <2>2, <5>1
      <4> QED  BY <2>3, <4>1, IntsExact
    <3>7. pad = Spaces(lacks) /\ pad \in Seq(Characters)
      <4>1. write_chars(" ", lacks) = Spaces(lacks) /\ Spaces(lacks) \in Seq(Characters)
        BY <2>3, Filled
      <4> QED  BY Zenon, <3>5, <3>6, <4>1
    <3> HIDE DEF pad
    <3>8. pad \o (sign \o body) = pad \o sign \o body
      <4>1. sign \in Seq(Characters) /\ body \in Seq(Characters) /\ pad \in Seq(Characters)
        BY Zenon, <1>8, <2>1, <3>7
      <4>2. (pad \o sign) \o body = pad \o (sign \o body)
        BY <4>1, ConcatAssociative
      <4> QED  BY Zenon, <4>2
    <3>9. field = IF Left(p, k) THEN sign \o body \o pad ELSE pad \o sign \o body
      BY Zenon, <3>1, <3>7
    <3> HIDE DEF field
    <3> QED  BY Zenon, <1>2, <1>5, <3>2, <3>3, <3>8, <3>9 DEF at, s
  <2>5. CASE Type(p) # "p"
    <3> DEFINE blanks == IF Type(p) \in Signed THEN "one" ELSE "all"
    <3>1. digits = body
      BY Zenon, <2>1, <2>5
    <3> HIDE DEF digits
    <3>2. Formatted(s, at) = Justified(s, sign, body, blanks)
      <4>1. CASE Type(p) \in Signed
        <5>1. s.type = "d" /\ blanks = "one" /\ Type(p) \notin {"o", "x", "X", "p"}
          BY <1>5, <4>1 DEF TypeOf, Signed
        <5>2. n = read_signed(s.width, at)
          BY Zenon, <1>3, <1>5, <4>1
        <5>3. sign = get_int_sign_char(n, s)
          <6>1. "+" \in s.flags <=> Has(p, "+")
            BY <1>5
          <6>2. " " \in s.flags <=> Has(p, " ") /\ ~Has(p, "+")
            BY Zenon, <1>5
          <6>3. n < 0 \/ n >= 0
            BY <1>3
          <6>4. ~(n < 0 /\ n >= 0)
            BY <1>3
          <6>5. sign = CASE n < 0 -> <<"-">>
                         [] n >= 0 /\ Has(p, "+") -> <<"+">>
                         [] n >= 0 /\ ~Has(p, "+") /\ Has(p, " ") -> <<" ">>
                         [] OTHER -> <<>>
            BY <4>1, <5>1, <6>3, <6>4 DEF Sign, sign, n
          <6>6. get_int_sign_char(n, s) =
                    IF n < 0 THEN <<"-">> ELSE IF "+" \in s.flags THEN <<"+">>
                    ELSE IF " " \in s.flags THEN <<" ">> ELSE <<>>
            BY Zenon DEF get_int_sign_char
          <6> QED  BY Zenon, <6>1, <6>2, <6>3, <6>4, <6>5, <6>6
        <5>4. Formatted(s, at) = format_decimal(s, at)
          BY <5>1 DEF Formatted
        <5> QED  BY Zenon, <3>1, <5>1, <5>2, <5>3, <5>4 DEF format_decimal, digits
      <4>2. CASE Type(p) \notin Signed
        <5>1. s.type = Type(p) /\ blanks = "all" /\ Type(p) \in {"o", "x", "X", "u"}
          BY <1>1, <1>5, <1>11, <2>5, <4>2 DEF TypeOf, Signed
        <5>2. n = read_unsigned(s.width, at)
          BY Zenon, <1>3, <1>5, <4>2
        <5>3. "#" \in s.flags <=> Has(p, "#")
          BY <1>5
        <5>4. CASE Type(p) = "o"
          <6>1. sign = IF Has(p, "#") /\ n # 0 THEN <<"0">> ELSE <<>>
            BY <4>2, <5>4 DEF Sign, sign, n
          <6>2. sign = IF "#" \in s.flags /\ body # <<>> /\ Head(body) # "0" THEN <<"0">> ELSE <<>>
            BY Zenon, <2>1, <5>3, <5>4, <6>1
          <6>3. Formatted(s, at) = format_octal(s, at)
            BY <5>1, <5>4 DEF Formatted
          <6> QED  BY Zenon, <3>1, <5>1, <6>2, <6>3 DEF format_octal, digits
        <5>5. CASE Type(p) \in {"x", "X"}
          <6>1. sign = IF Has(p, "#") /\ n # 0 THEN <<"0", IF Type(p) = "X" THEN "X" ELSE "x">> ELSE <<>>
            BY <4>2, <5>5 DEF Sign, sign, n
          <6>2. Formatted(s, at) = format_hex(s, at)
            BY <5>1, <5>5 DEF Formatted
          <6>3. sign = IF "#" \in s.flags /\ read_unsigned(s.width, at) # 0
                       THEN <<"0", IF s.type = "X" THEN "X" ELSE "x">> ELSE <<>>
            BY Zenon, <5>1, <5>2, <5>3, <6>1
          <6> QED  BY Zenon, <3>1, <5>1, <6>2, <6>3 DEF format_hex, digits
        <5>6. CASE Type(p) = "u"
          <6>1. sign = <<>>
            BY <4>2, <5>6 DEF Sign, sign
          <6>2. Formatted(s, at) = format_unsigned(s, at)
            BY <5>1, <5>6 DEF Formatted
          <6> QED  BY Zenon, <3>1, <5>1, <6>1, <6>2 DEF format_unsigned, digits
        <5> QED  BY <5>1, <5>4, <5>5, <5>6
      <4> QED  BY <4>1, <4>2
    <3>3. lacks = get_format_padding(s) - Len(sign) - Len(body)
      BY Zenon, <1>5, <1>6
    <3>4. blanks = "all" \/ "-" \in s.flags \/ "0" \in s.flags \/ lacks <= 1
      <4>1. "0" \in s.flags <=> Has(p, "0")
        BY <1>5
      <4> QED  BY Zenon, <1>5, <1>7, <4>1
    <3> HIDE DEF blanks
    <3>5. get_format_padding(s) \in Nat /\ 2 * get_format_padding(s) < IntLimit
      BY Zenon, <1>5
    <3>6. Justified(s, sign, body, blanks) =
              IF "-" \in s.flags THEN sign \o body \o Spaces(lacks)
              ELSE IF "0" \in s.flags THEN sign \o Zeros(lacks) \o body
              ELSE Spaces(lacks) \o sign \o body
      <4>1. sign \in Seq(Characters) /\ body \in Seq(Characters) /\ s.precisionKind = "default"
        BY Zenon, <1>5, <1>8, <2>1
      <4>2. Missing(s, sign, body) = lacks
        BY Zenon, <3>3 DEF Missing
      <4>3. Fillable(s, sign, body, blanks)
        BY Zenon, <2>2, <3>4, <3>5, <4>1, <4>2 DEF Fillable
      <4>4. Justified(s, sign, body, blanks) = Laid(s, sign, body, Missing(s, sign, body))
        BY <4>3, JustifiedAsC11
      <4>5. Laid(s, sign, body, Missing(s, sign, body)) = Laid(s, sign, body, lacks)
        BY Zenon, <4>2
      <4> QED  BY Zenon, <4>4, <4>5 DEF Laid
    <3>7. "0" \in s.flags <=> Has(p, "0")
      BY <1>5
    <3>8. field = Justified(s, sign, body, blanks)
      BY Zenon, <1>5, <3>6, <3>7
    <3> HIDE DEF field
    <3> QED  BY Zenon, <1>2, <3>2, <3>8 DEF at, s
  <2> QED  BY <2>4, <2>5
<1> QED  BY <1>10, <1>11

-----------------------------------------------------------------------------
(***************************************************************************)
(* What has been printed.  For every piece N such that all pieces up to it *)
(* are supported, kvprintf has printed them as prescribed while it is not  *)
(* beyond them: back in its loop behind some piece, or in the middle of a  *)
(* directive that it knows, part by part.                                  *)
(***************************************************************************)
FlagsDone(p, j) == SpecOf(FlagsRead(p, j), "default", 0, "", "empty")
WidthDone(p, j) ==
    SpecOf(ParsedFlags(p), IF j = 0 THEN "default" ELSE "given", WidthRead(p)[j], "", "empty")

Reading(n) ==
    LET p == format[n + 1]
    IN  /\ ~IsText(p)
        /\ args = After[n].args + (IF pc = "format" THEN StarSlots(p) ELSE 0)
        /\ written = Printed[n]
        /\ pc = "flags" => \E j \in 0 .. Len(p.flags) :
                              fmt = After[n].fmt + 1 + j /\ spec = FlagsDone(p, j)
        /\ pc = "padding" =>
               IF Starred(p) THEN fmt = Flagged(n) /\ spec = WithFlags(p)
               ELSE \E j \in 0 .. Len(p.width) : fmt = Flagged(n) + j /\ spec = WidthDone(p, j)
        /\ pc \in {"precision", "width"} => fmt = Padded(n) /\ spec = WithPadding(p)
        /\ pc = "type" => fmt = Padded(n) + Len(p.length) /\ spec = WithLength(p)
        /\ pc = "stars" => fmt = After[n + 1].fmt /\ spec = WithType(p)
        /\ pc = "format" => fmt = After[n + 1].fmt /\ spec = Ready(p, After[n].args)

Standing(n) == fmt = After[n].fmt /\ args = After[n].args /\ written = Printed[n]

Good(N) == \A k \in 1 .. N : Supported(format[k], After[k - 1].args)

Printing(N) ==
    /\ pc \in {"call", "scan"} => \E n \in 0 .. N : Standing(n)
    /\ pc \in Parsing \union {"type", "stars", "format"} => \E n \in 0 .. N - 1 : Reading(n)

PrintInv == \A N \in 0 .. Len(format) : Good(N) /\ fmt <= After[N].fmt => Printing(N)

LEMMA PrintedUnfolds ==
    ASSUME format \in Formats
    PROVE  /\ Printed[0] = <<>>
           /\ \A n \in 1 .. Len(format) :
                 Printed[n] = Printed[n - 1] \o Field(format[n], After[n - 1].args)
<1> DEFINE N == Len(format)
           F(n) == Field(format[n], After[n - 1].args)
           ValueAt(g, n) == IF n = 0 THEN <<>> ELSE g[n - 1] \o F(n)
           f == Printed
           Solves(g, m) == g = [n \in 0 .. m |-> ValueAt(g, n)]
           T == {m \in 0 .. N : \E g : Solves(g, m)}
<1>1. N \in Nat
  BY Pieces
<1>2. f = CHOOSE g : g = [n \in 0 .. N |-> ValueAt(g, n)]
  BY DEF Printed
<1> HIDE DEF N, F, f
<1>3. 0 \in T
  <2> DEFINE g == [n \in 0 .. 0 |-> <<>>]
  <2>1. Solves(g, 0)
    OBVIOUS
  <2>2. 0 \in 0 .. N
    BY <1>1
  <2> HIDE DEF Solves, g
  <2>3. \E k : Solves(k, 0)
    BY Zenon, <2>1
  <2> QED  BY Zenon, <2>2, <2>3
<1>4. ASSUME NEW m \in 1 .. N, m - 1 \in T PROVE m \in T
  <2>1. PICK g : g = [n \in 0 .. m - 1 |-> ValueAt(g, n)]
    BY <1>4
  <2> DEFINE h == [n \in 0 .. m |-> IF n = m THEN g[m - 1] \o F(m) ELSE g[n]]
  <2>2. m \in 0 .. N /\ m # 0 /\ m - 1 \in 0 .. m /\ m - 1 # m
    BY <1>1
  <2>3. ASSUME NEW n \in 0 .. m PROVE h[n] = ValueAt(h, n)
    <3>1. CASE n = m
      <4>1. h[n] = g[m - 1] \o F(m) /\ h[m - 1] = g[m - 1]
        BY <2>2, <3>1
      <4> HIDE DEF h
      <4> QED  BY Zenon, <2>2, <3>1, <4>1
    <3>2. CASE n # m
      <4>1. n \in 0 .. m - 1 /\ h[n] = g[n]
        BY <3>2
      <4>2. g[n] = ValueAt(g, n)
        <5> HIDE DEF ValueAt
        <5> QED  BY <2>1, <4>1
      <4>3. n # 0 => n - 1 \in 0 .. m /\ n - 1 # m
        BY <4>1
      <4>4. n # 0 => h[n - 1] = g[n - 1]
        BY <4>3
      <4> HIDE DEF h
      <4> QED  BY Zenon, <4>1, <4>2, <4>4
    <3> QED  BY <3>1, <3>2
  <2>4. h = [n \in 0 .. m |-> h[n]]
    OBVIOUS
  <2> HIDE DEF h
  <2>5. h = [n \in 0 .. m |-> ValueAt(h, n)]
    <3> HIDE DEF ValueAt
    <3> QED  BY <2>3, <2>4
  <2>6. \E k : Solves(k, m)
    BY Zenon, <2>5
  <2> HIDE DEF Solves
  <2> QED  BY Zenon, <2>2, <2>6
<1>5. 0 .. N \subseteq T
  <2> HIDE DEF T
  <2> QED  BY <1>1, <1>3, <1>4, Induction
<1>6. N \in T
  <2>1. N \in 0 .. N
    BY <1>1
  <2> HIDE DEF T
  <2> QED  BY <1>5, <2>1
<1>7. \E g : g = [n \in 0 .. N |-> ValueAt(g, n)]
  BY Zenon, <1>6
<1>8. f = [n \in 0 .. N |-> ValueAt(f, n)]
  <2> HIDE DEF ValueAt
  <2> QED  BY <1>2, <1>7
<1>9. f[0] = <<>> /\ \A n \in 1 .. N : f[n] = f[n - 1] \o F(n)
  <2>1. 0 \in 0 .. N /\ \A n \in 1 .. N : n \in 0 .. N /\ n # 0
    BY <1>1
  <2>2. \A n \in 0 .. N : f[n] = ValueAt(f, n)
    <3> HIDE DEF ValueAt
    <3> QED  BY <1>8
  <2> QED  BY Zenon, <2>1, <2>2
<1> QED  BY Zenon, <1>9 DEF N, F, f

\* None of it depends on anything but the input.
LEMMA PrintedStays ==
    ASSUME UNCHANGED input
    PROVE  /\ \A p, k : (Supported(p, k)' <=> Supported(p, k)) /\ Field(p, k)' = Field(p, k)
           /\ Printed' = Printed
           /\ \A N : Good(N)' <=> Good(N)
<1>1. format' = format /\ stack' = stack /\ After' = After
  BY PlacesStay DEF input
<1>2. ASSUME NEW p, NEW k
      PROVE  /\ Number(p, k)' = Number(p, k) /\ WidthOf(p, k)' = WidthOf(p, k)
  BY <1>1 DEF Number, WidthOf
<1>3. ASSUME NEW p, NEW k
      PROVE  /\ Digits(p, k)' = Digits(p, k) /\ Sign(p, k)' = Sign(p, k)
             /\ Left(p, k)' <=> Left(p, k)
  BY <1>2 DEF Digits, Sign, Left
<1>4. ASSUME NEW p, NEW k
      PROVE  Body(p, k)' = Body(p, k)
  BY <1>1, <1>3 DEF Body
<1>5. ASSUME NEW p, NEW k
      PROVE  Lacks(p, k)' = Lacks(p, k)
  BY <1>2, <1>3, <1>4 DEF Lacks
<1>6. ASSUME NEW p, NEW k
      PROVE  (Supported(p, k)' <=> Supported(p, k)) /\ Field(p, k)' = Field(p, k)
  BY Zenon, <1>1, <1>2, <1>3, <1>4, <1>5 DEF Supported, Field
<1>7. Printed' = Printed
  BY <1>1 DEF Printed, Field, Left, Lacks, Body, Sign, Digits, Number, WidthOf
<1>8. ASSUME NEW N
      PROVE  Good(N)' <=> Good(N)
  BY <1>1, <1>6 DEF Good
<1> QED  BY Zenon, <1>6, <1>7, <1>8

\* A piece among those that are supported.
LEMMA GoodPiece ==
    ASSUME InputInv, NEW N \in 0 .. Len(format), Good(N), NEW n \in 0 .. N - 1
    PROVE  /\ n \in 0 .. Len(format) - 1 /\ n + 1 \in 1 .. N /\ n + 1 \in 0 .. N
           /\ IsPiece(format[n + 1]) /\ Supported(format[n + 1], After[n].args)
           /\ ~IsText(format[n + 1]) => ~CutOff(format[n + 1]) /\ format[n + 1].precision = <<>>
<1>1. Len(format) \in Nat
  BY Pieces DEF InputInv
<1>2. n \in 0 .. Len(format) - 1 /\ n + 1 \in 1 .. N /\ n + 1 \in 0 .. N /\ (n + 1) - 1 = n
  BY <1>1
<1>3. IsPiece(format[n + 1])
  BY <1>2, InPiece
<1>4. Supported(format[n + 1], After[n].args)
  BY Zenon, <1>2 DEF Good
<1>5. ~IsText(format[n + 1]) => ~CutOff(format[n + 1]) /\ format[n + 1].precision = <<>>
  BY Zenon, <1>3, <1>4, SupportedParts
<1> QED  BY Zenon, <1>2, <1>3, <1>4, <1>5

\* kvprintf only goes forward.
LEMMA PrintingOn ==
    ASSUME InputInv, PrintInv, UNCHANGED input, fmt \in Nat, fmt' \in Nat, fmt <= fmt',
           \A N \in 0 .. Len(format) :
               Good(N) /\ fmt' <= After[N].fmt /\ Printing(N) => Printing(N)'
    PROVE  PrintInv'
<1>1. /\ format' = format /\ After' = After
      /\ \A N : Good(N)' <=> Good(N)
  BY Zenon, PlacesStay, PrintedStays
<1>2. ASSUME NEW N \in 0 .. Len(format), Good(N), fmt' <= After[N].fmt
      PROVE  Printing(N)'
  <2>1. After[N].fmt \in Nat
    BY MarksAscend DEF InputInv
  <2> DEFINE a == After[N].fmt
  <2>2. fmt <= a
    <3> HIDE DEF a
    <3>1. a \in Nat /\ fmt' <= a
      BY <1>2, <2>1 DEF a
    <3> QED  BY <3>1
  <2>3. Printing(N)
    BY Zenon, <1>2, <2>2 DEF PrintInv
  <2> QED  BY Zenon, <1>2, <2>3
<1> QED  BY Zenon, <1>1, <1>2 DEF PrintInv

LEMMA StandsThere ==
    ASSUME UNCHANGED input, pc' \in {"call", "scan", "return"}, NEW N, NEW n \in 0 .. N,
           fmt' = After[n].fmt, args' = After[n].args, written' = Printed[n]
    PROVE  Printing(N)'
<1>1. After' = After /\ Printed' = Printed
  BY Zenon, PlacesStay, PrintedStays
<1>2. Standing(n)'
  BY Zenon, <1>1 DEF Standing
<1>3. pc' \notin Parsing \union {"type", "stars", "format"}
  BY DEF Parsing
<1> QED  BY Zenon, <1>2, <1>3 DEF Printing

LEMMA ReadsThere ==
    ASSUME UNCHANGED input, pc' \in Parsing \union {"type", "stars", "format"},
           NEW N, NEW n \in 0 .. N - 1,
           ~IsText(format[n + 1]), written' = Printed[n],
           args' = After[n].args + (IF pc' = "format" THEN StarSlots(format[n + 1]) ELSE 0),
           pc' = "flags" => \E j \in 0 .. Len(format[n + 1].flags) :
               fmt' = After[n].fmt + 1 + j /\ spec' = FlagsDone(format[n + 1], j),
           pc' = "padding" =>
               IF Starred(format[n + 1]) THEN fmt' = Flagged(n) /\ spec' = WithFlags(format[n + 1])
               ELSE \E j \in 0 .. Len(format[n + 1].width) :
                        fmt' = Flagged(n) + j /\ spec' = WidthDone(format[n + 1], j),
           pc' \in {"precision", "width"} => fmt' = Padded(n) /\ spec' = WithPadding(format[n + 1]),
           pc' = "type" => /\ fmt' = Padded(n) + Len(format[n + 1].length)
                           /\ spec' = WithLength(format[n + 1]),
           pc' = "stars" => fmt' = After[n + 1].fmt /\ spec' = WithType(format[n + 1]),
           pc' = "format" => fmt' = After[n + 1].fmt /\ spec' = Ready(format[n + 1], After[n].args)'
    PROVE  Printing(N)'
<1>1. /\ format' = format /\ After' = After /\ Printed' = Printed
      /\ Flagged(n)' = Flagged(n) /\ Padded(n)' = Padded(n)
  BY Zenon, PlacesStay, PrintedStays
<1>2. Reading(n)'
  BY Zenon, <1>1 DEF Reading
<1>3. pc' \notin {"call", "scan"}
  BY DEF Parsing
<1> QED  BY Zenon, <1>2, <1>3 DEF Printing

LEMMA PrintInit ==
    ASSUME Init
    PROVE  PrintInv
<1>1. pc = "call" /\ fmt = 1 /\ args = 1 /\ written = <<>> /\ format \in Formats
  BY DEF Init
<1>2. Standing(0)
  BY <1>1, AfterUnfolds, PrintedUnfolds DEF Standing
<1>3. ASSUME NEW N \in 0 .. Len(format) PROVE Printing(N)
  <2>1. 0 \in 0 .. N
    BY <1>1, Pieces
  <2>2. pc \notin Parsing \union {"type", "stars", "format"}
    BY <1>1 DEF Parsing
  <2> QED  BY Zenon, <1>2, <2>1, <2>2 DEF Printing
<1> QED  BY Zenon, <1>3 DEF PrintInv

LEMMA CallPrints ==
    ASSUME IInv, PrintInv, Call \/ Return
    PROVE  PrintInv'
<1>1. /\ InputInv /\ UNCHANGED input /\ fmt' = fmt /\ args' = args /\ written' = written /\ fmt \in Nat
      /\ pc \in {"call", "scan"} /\ pc' \in {"call", "scan", "return"}
  BY NumbersOfState DEF Call, Return, IInv
<1>2. ASSUME NEW N \in 0 .. Len(format), Printing(N)
      PROVE  Printing(N)'
  <2>1. PICK n \in 0 .. N : Standing(n)
    BY Zenon, <1>1, <1>2 DEF Printing
  <2>2. fmt' = After[n].fmt /\ args' = After[n].args /\ written' = Printed[n]
    BY Zenon, <1>1, <2>1 DEF Standing
  <2> QED  BY Zenon, <1>1, <2>2, StandsThere
<1>3. fmt <= fmt' /\ fmt' \in Nat
  BY <1>1
<1> QED  BY Zenon, <1>1, <1>2, <1>3, PrintingOn

\* In its loop kvprintf stands before a piece, or beyond those that count.
LEMMA BeforePiece ==
    ASSUME IInv, NEW N \in 0 .. Len(format), Good(N), Printing(N), pc = "scan",
           fmt' \in Nat, fmt < fmt', fmt' <= After[N].fmt
    PROVE  \E n \in 0 .. N - 1 :
               /\ Standing(n) /\ (IsText(format[n + 1]) => Char = format[n + 1].char)
               /\ ~IsText(format[n + 1]) => Char = "%"
<1>1. PICK n \in 0 .. N : Standing(n)
  BY Zenon DEF Printing
<1>2. InputInv /\ fmt \in Nat /\ Len(format) \in Nat
  BY NumbersOfState, Pieces DEF IInv, InputInv
<1>3. n # N
  <2>1. ASSUME n = N PROVE FALSE
    <3>1. fmt = After[N].fmt
      BY Zenon, <1>1, <2>1 DEF Standing
    <3> DEFINE a == After[N].fmt
    <3>2. a \in Nat /\ fmt = a /\ fmt' <= a
      BY <1>2, <3>1
    <3> HIDE DEF a
    <3> QED  BY <1>2, <3>2
  <2> QED  BY <2>1
<1>4. n \in 0 .. N - 1
  BY <1>2, <1>3
<1> DEFINE p == format[n + 1]
           s == After[n].fmt
<1>5. n \in 0 .. Len(format) - 1 /\ IsPiece(p)
  BY Zenon, <1>2, <1>4, GoodPiece
<1>6. s \in Nat \ {0} /\ (1 \in 1 .. Len(Written(p)) => memory[s + (1 - 1)] = Written(p)[1])
  BY <1>2, <1>5, InPiece
<1>7. Len(Written(p)) \in Nat \ {0} /\ fmt = s
  BY <1>1, <1>5, WrittenIsText DEF Standing
<1>8. Char = Written(p)[1]
  <2>1. s + (1 - 1) = s /\ 1 \in 1 .. Len(Written(p))
    BY <1>6, <1>7
  <2> QED  BY Zenon, <1>6, <1>7, <2>1 DEF Char
<1>9. IsText(p) => Char = p.char
  BY <1>8 DEF Written
<1>10. ~IsText(p) => Char = "%"
  BY Zenon, <1>5, <1>8, PartsWritten
<1> HIDE DEF s
<1> QED  BY Zenon, <1>1, <1>4, <1>9, <1>10

LEMMA LiteralPrints ==
    ASSUME IInv, PrintInv, WriteLiteral
    PROVE  PrintInv'
<1>1. /\ InputInv /\ UNCHANGED input /\ fmt' = fmt + 1 /\ args' = args /\ fmt \in Nat
      /\ written' = Append(written, Char) /\ pc = "scan" /\ pc' = "scan"
      /\ Char \notin {"%", "NUL"} /\ written \in Seq(Characters) /\ format \in Formats
  BY NumbersOfState DEF WriteLiteral, IInv, OutputInv, InputInv
<1>2. fmt < fmt' /\ fmt <= fmt' /\ fmt' \in Nat
  BY <1>1
<1>3. ASSUME NEW N \in 0 .. Len(format), Good(N), fmt' <= After[N].fmt, Printing(N)
      PROVE  Printing(N)'
  <2>1. PICK n \in 0 .. N - 1 :
            /\ Standing(n) /\ (IsText(format[n + 1]) => Char = format[n + 1].char)
            /\ ~IsText(format[n + 1]) => Char = "%"
    BY Zenon, <1>1, <1>2, <1>3, BeforePiece
  <2> DEFINE p == format[n + 1]
  <2>2. IsText(p) /\ Char = p.char
    BY <1>1, <2>1
  <2>3. /\ n \in 0 .. Len(format) - 1 /\ n + 1 \in 0 .. N /\ n + 1 \in 1 .. Len(format)
    <3>1. Len(format) \in Nat
      BY <1>1, Pieces
    <3> QED  BY <3>1
  <2>4. /\ After[n + 1].fmt = After[n].fmt + Len(Written(p))
        /\ After[n + 1].args = After[n].args + Slots(p)
        /\ After[n].args \in Nat \ {0}
    BY <1>1, <2>3, InPiece
  <2>5. Written(p) = <<p.char>> /\ Slots(p) = 0
    BY Zenon, <2>2 DEF Written, Slots
  <2>6. Len(Written(p)) = 1
    BY <2>5
  <2>7. fmt = After[n].fmt /\ args = After[n].args /\ written = Printed[n]
    BY Zenon, <2>1 DEF Standing
  <2>8. fmt' = After[n + 1].fmt
    BY Zenon, <1>1, <2>4, <2>6, <2>7
  <2>9. args' = After[n + 1].args
    BY <1>1, <2>4, <2>5, <2>7
  <2>10. written' = Printed[n + 1]
    <3>1. Printed[n + 1] = Printed[(n + 1) - 1] \o Field(p, After[(n + 1) - 1].args)
      BY <1>1, <2>3, PrintedUnfolds
    <3>2. Field(p, After[(n + 1) - 1].args) = <<p.char>>
      <4>1. ~Percent(p)
        BY <2>2 DEF IsText, Percent
      <4> QED  BY Zenon, <2>2, <4>1 DEF Field
    <3>3. (n + 1) - 1 = n
      BY <2>3
    <3>4. Append(written, Char) = written \o <<Char>>
      BY <1>1
    <3> HIDE DEF p
    <3> QED  BY Zenon, <1>1, <2>2, <2>7, <3>1, <3>2, <3>3, <3>4
  <2> QED  BY Zenon, <1>1, <2>3, <2>8, <2>9, <2>10, StandsThere
<1> QED  BY Zenon, <1>1, <1>2, <1>3, PrintingOn

LEMMA SpecPrints ==
    ASSUME IInv, PrintInv, parse_format_spec
    PROVE  PrintInv'
<1>1. /\ InputInv /\ UNCHANGED input /\ args' = args /\ fmt \in Nat
      /\ written' = written /\ pc = "scan" /\ Char = "%"
      /\ fmt' = fmt + 2 \/ fmt' = fmt + 1
  BY NumbersOfState DEF parse_format_spec, IInv
<1>2. fmt < fmt' /\ fmt <= fmt' /\ fmt' \in Nat
  BY <1>1
<1>3. ASSUME NEW N \in 0 .. Len(format), Good(N), fmt' <= After[N].fmt, Printing(N)
      PROVE  Printing(N)'
  <2>1. PICK n \in 0 .. N - 1 :
            /\ Standing(n) /\ (IsText(format[n + 1]) => Char = format[n + 1].char)
            /\ ~IsText(format[n + 1]) => Char = "%"
    BY Zenon, <1>1, <1>2, <1>3, BeforePiece
  <2> DEFINE p == format[n + 1]
  <2>2. /\ n \in 0 .. Len(format) - 1 /\ IsPiece(p) /\ Supported(p, After[n].args)
        /\ ~IsText(p) => ~CutOff(p)
    BY Zenon, <1>1, <1>3, GoodPiece
  <2>3. ~IsText(p)
    <3>1. IsText(p) => p.char # "%"
      BY <2>2 DEF IsPiece
    <3> QED  BY Zenon, <1>1, <2>1, <3>1
  <2>4. fmt = After[n].fmt /\ args = After[n].args /\ written = Printed[n]
    BY Zenon, <2>1 DEF Standing
  <2>5. memory[fmt + 1] # "%"
    <3>1. memory[After[n].fmt + 1] = "%" => p.type = <<"%">>
      BY <1>1, <2>2, <2>3, EndOfDirective
    <3>2. ~Percent(p)
      BY Zenon, <2>2, <2>3, SupportedParts
    <3> QED  BY Zenon, <2>4, <3>1, <3>2 DEF Percent
  <2>6. spec' = EmptySpec /\ fmt' = fmt + 1 /\ pc' = "flags"
    BY <2>5 DEF parse_format_spec
  <2>7. /\ 0 \in 0 .. Len(p.flags)
        /\ fmt' = After[n].fmt + 1 + 0 /\ spec' = FlagsDone(p, 0)
    <3>1. Len(p.flags) \in Nat
      BY <2>2, <2>3, PartsOf
    <3>2. FlagsRead(p, 0) = {}
      BY DEF FlagsRead
    <3>3. EmptySpec = SpecOf({}, "default", 0, "", "empty")
      BY DEF EmptySpec, SpecOf
    <3>4. FlagsDone(p, 0) = EmptySpec
      BY Zenon, <3>2, <3>3 DEF FlagsDone
    <3>5. fmt' = After[n].fmt + 1 + 0
      <4>1. fmt + 1 = fmt + 1 + 0
        BY <1>1
      <4> QED  BY Zenon, <2>4, <2>6, <4>1
    <3> QED  BY <2>6, <3>1, <3>4, <3>5
  <2>8. args' = After[n].args + 0
    <3>1. After[n].args \in Nat \ {0}
      BY <1>1, <2>2, InPiece
    <3> QED  BY <1>1, <2>4, <3>1
  <2>9. \E j \in 0 .. Len(p.flags) : fmt' = After[n].fmt + 1 + j /\ spec' = FlagsDone(p, j)
    BY Zenon, <2>7
  <2> HIDE DEF p
  <2>10. written' = Printed[n]
    BY Zenon, <1>1, <2>4
  <2>11. args' = After[n].args + (IF pc' = "format" THEN StarSlots(p) ELSE 0)
    BY Zenon, <2>6, <2>8
  <2> QED  BY Zenon, <1>1, <2>3, <2>6, <2>9, <2>10, <2>11, ReadsThere DEF Parsing, p
<1> QED  BY Zenon, <1>1, <1>2, <1>3, PrintingOn

\* In the middle of a directive.
Within(n) ==
    /\ Reading(n) /\ ~IsText(format[n + 1]) /\ written = Printed[n]
    /\ n \in 0 .. Len(format) - 1 /\ IsPiece(format[n + 1])
    /\ Supported(format[n + 1], After[n].args) /\ ~CutOff(format[n + 1])
    /\ args = After[n].args + (IF pc = "format" THEN StarSlots(format[n + 1]) ELSE 0)
    /\ After[n].args \in Nat \ {0}
    /\ \A k \in 1 .. Len(Written(format[n + 1])) :
          memory[After[n].fmt + (k - 1)] = Written(format[n + 1])[k]
    /\ After[n].fmt \in Nat \ {0} /\ After[n + 1].fmt \in Nat
    /\ Flagged(n) = After[n].fmt + FlagsEnd(format[n + 1])
    /\ Padded(n) = After[n].fmt + WidthEnd(format[n + 1])

LEMMA InReading ==
    ASSUME InputInv, NEW N \in 0 .. Len(format), Good(N), Printing(N),
           pc \in Parsing \union {"type", "stars", "format"}
    PROVE  \E n \in 0 .. N - 1 : Within(n)
<1>1. PICK n \in 0 .. N - 1 : Reading(n)
  BY Zenon DEF Printing
<1>2. ~IsText(format[n + 1]) /\ written = Printed[n]
      /\ args = After[n].args + (IF pc = "format" THEN StarSlots(format[n + 1]) ELSE 0)
  BY Zenon, <1>1 DEF Reading
<1>3. /\ n \in 0 .. Len(format) - 1 /\ IsPiece(format[n + 1])
      /\ Supported(format[n + 1], After[n].args) /\ ~CutOff(format[n + 1])
  BY Zenon, <1>2, GoodPiece
<1>4. /\ After[n].args \in Nat \ {0} /\ After[n].fmt \in Nat \ {0}
      /\ \A k \in 1 .. Len(Written(format[n + 1])) :
            memory[After[n].fmt + (k - 1)] = Written(format[n + 1])[k]
  BY Zenon, <1>3, InPiece
<1>5. After[n + 1].fmt \in Nat
  BY Zenon, <1>2, <1>3, Borders
<1> QED  BY Zenon, <1>1, <1>2, <1>3, <1>4, <1>5 DEF Within, Flagged, Padded

LEMMA FlagsPrints ==
    ASSUME IInv, PrintInv, parse_format_flags
    PROVE  PrintInv'
<1>1. /\ InputInv /\ UNCHANGED input /\ args' = args /\ fmt \in Nat
      /\ written' = written /\ pc = "flags"
      /\ fmt' = fmt \/ fmt' = fmt + 1
  BY NumbersOfState DEF parse_format_flags, IInv
<1>2. fmt <= fmt' /\ fmt' \in Nat
  BY <1>1
<1>3. ASSUME NEW N \in 0 .. Len(format), Good(N), Printing(N)
      PROVE  Printing(N)'
  <2>1. PICK n \in 0 .. N - 1 : Within(n)
    BY Zenon, <1>1, <1>3, InReading DEF Parsing
  <2> USE DEF Within
  <2> DEFINE p == format[n + 1]
             s == After[n].fmt
             l == Len(p.flags)
  <2>2. PICK j \in 0 .. l : fmt = s + 1 + j /\ spec = FlagsDone(p, j)
    BY Zenon, <1>1, <2>1 DEF Reading
  <2>3. /\ l \in Nat /\ FlagsEnd(p) = 1 + l
        /\ Len(Written(p)) \in Nat /\ FlagsEnd(p) < Len(Written(p))
        /\ \A i \in 2 .. FlagsEnd(p) : Written(p)[i] = p.flags[i - 1]
    <3>1. l \in Nat /\ Len(Written(p)) = TypeEnd(p) /\ TypeEnd(p) \in Nat
      BY <1>1, <2>1, PartsOf, PartsWritten, Borders
    <3>2. FlagsEnd(p) = 1 + l
      BY DEF FlagsEnd
    <3>3. FlagsEnd(p) < TypeEnd(p)
      <4>1. FlagsEnd(p) <= WidthEnd(p) /\ WidthEnd(p) + 1 <= TypeEnd(p) /\ WidthEnd(p) \in Nat
            /\ FlagsEnd(p) \in Nat
        BY <2>1, Ends, BehindWidth
      <4> QED  BY <3>1, <4>1
    <3> QED  BY Zenon, <2>1, <3>1, <3>2, <3>3, PartsWritten
  <2>4. \A i \in 1 .. l : p.flags[i] \in FormatFlags
    <3>1. p.flags \in Seq(FormatFlags)
      BY <2>1, PartsOf
    <3> QED  BY <3>1, ElementOfSeq
  <2>5. memory[s + l + 1] \notin FormatFlags
    <3>1. memory[Flagged(n)] \notin FormatFlags
      BY <1>1, <2>1, DirectiveInMemory
    <3>2. Flagged(n) = s + l + 1
      <4> HIDE DEF s, p, l
      <4>1. Flagged(n) = s + FlagsEnd(p) /\ s \in Nat
        BY <2>1 DEF s, p
      <4> QED  BY <2>3, <4>1
    <3> QED  BY <3>1, <3>2
  <2>6. spec = SpecOf(FlagsRead(p, j), "default", 0, "", "empty")
    BY Zenon, <2>2 DEF FlagsDone
  <2>7. ASSUME j \in 0 .. l - 1
        PROVE  Char = p.flags[j + 1] /\ j + 1 \in 1 .. l
    <3>1. /\ j + 2 \in 1 .. Len(Written(p)) /\ j + 2 \in 2 .. FlagsEnd(p)
          /\ (j + 2) - 1 = j + 1 /\ j + 1 \in 1 .. l
      <4>1. l \in Nat /\ FlagsEnd(p) = 1 + l /\ Len(Written(p)) \in Nat /\ FlagsEnd(p) < Len(Written(p))
        BY Zenon, <2>3
      <4> HIDE DEF p, l
      <4> QED  BY <2>7, <4>1
    <3>2. fmt = s + (j + 1)
      <4> HIDE DEF s, p, l
      <4>1. s \in Nat
        BY <2>1 DEF s
      <4> QED  BY <2>2, <2>7, <4>1
    <3>3. memory[s + ((j + 2) - 1)] = Written(p)[j + 2]
      BY Zenon, <2>1, <3>1
    <3>4. Written(p)[j + 2] = p.flags[(j + 2) - 1]
      BY Zenon, <2>3, <3>1
    <3> QED  BY Zenon, <3>1, <3>2, <3>3, <3>4 DEF Char
  <2>8. j = l => Char \notin FormatFlags
    <3>1. j = l => fmt = s + l + 1
      <4> HIDE DEF s, p, l
      <4>1. s \in Nat
        BY <2>1 DEF s
      <4> QED  BY <2>2, <2>3, <4>1
    <3> QED  BY Zenon, <2>5, <3>1 DEF Char
  <2>9. written' = Printed[n] /\ args = After[n].args + 0
    BY Zenon, <1>1, <2>1
  <2>10. args' = After[n].args + (IF pc' = "format" THEN StarSlots(p) ELSE 0) \/ pc' = "format"
    BY Zenon, <1>1, <2>9
  <2> HIDE DEF p, s, l
  <2>11. CASE j \in 0 .. l - 1
    <3>1. Char \in FormatFlags
      BY Zenon, <2>4, <2>7, <2>11
    <3>2. spec' = [spec EXCEPT !.flags = @ \union {Char}] /\ fmt' = fmt + 1 /\ pc' = "flags"
      BY <1>1, <3>1 DEF parse_format_flags
    <3>3. spec' = SpecOf(FlagsRead(p, j) \union {Char}, "default", 0, "", "empty")
      BY <2>6, <3>2 DEF SpecOf
    <3>4. FlagsRead(p, j + 1) = FlagsRead(p, j) \union {Char}
      <4>1. Char = p.flags[j + 1]
        BY <2>7, <2>11
      <4>2. \A i : i \in 1 .. j + 1 <=> i \in 1 .. j \/ i = j + 1
        BY <2>11, <2>3
      <4> QED  BY <4>1, <4>2 DEF FlagsRead
    <3>5. spec' = FlagsDone(p, j + 1)
      BY Zenon, <3>3, <3>4 DEF FlagsDone
    <3>6. j + 1 \in 0 .. l /\ fmt' = s + 1 + (j + 1)
      <4>1. s \in Nat /\ l \in Nat
        BY <2>1, <2>3 DEF s
      <4>2. fmt = s + 1 + j /\ fmt' = fmt + 1
        BY Zenon, <2>2, <3>2
      <4> QED  BY <2>11, <4>1, <4>2
    <3>7. \E i \in 0 .. l : fmt' = s + 1 + i /\ spec' = FlagsDone(p, i)
      BY Zenon, <3>5, <3>6
    <3> QED  BY Zenon, <1>1, <2>1, <2>9, <2>10, <3>2, <3>7, ReadsThere DEF Parsing, p, s, l
  <2>12. CASE j = l
    <3>1. spec' = [spec EXCEPT !.flags = NormalFlags(@)] /\ fmt' = fmt /\ pc' = "padding"
      BY Zenon, <2>8, <2>12 DEF parse_format_flags
    <3>2. spec.flags = FlagsRead(p, l)
      BY <2>6, <2>12 DEF SpecOf
    <3>3. spec' = SpecOf(ParsedFlags(p), "default", 0, "", "empty")
      <4>1. spec' = [spec EXCEPT !.flags = NormalFlags(FlagsRead(p, l))]
        BY <3>1, <3>2
      <4>2. ParsedFlags(p) = NormalFlags(FlagsRead(p, l))
        BY Zenon DEF ParsedFlags, l
      <4> QED  BY <2>6, <4>1, <4>2 DEF SpecOf
    <3>4. fmt' = Flagged(n)
      <4>1. Flagged(n) = s + FlagsEnd(p) /\ s \in Nat
        BY <2>1 DEF s, p
      <4> QED  BY <2>2, <2>3, <2>12, <3>1, <4>1
    <3>5. spec' = WithFlags(p)
      BY Zenon, <3>3 DEF WithFlags
    <3>6. ~Starred(p) => /\ 0 \in 0 .. Len(p.width) /\ fmt' = Flagged(n) + 0
                         /\ spec' = WidthDone(p, 0)
      <4> SUFFICES ASSUME ~Starred(p)
                   PROVE  0 \in 0 .. Len(p.width) /\ fmt' = Flagged(n) + 0 /\ spec' = WidthDone(p, 0)
        OBVIOUS
      <4>1. Len(p.width) \in Nat /\ WidthRead(p)[0] = 0
        BY <2>1, WidthUnfolds DEF p
      <4>2. fmt' = Flagged(n) + 0
        <5>1. \A a \in Nat : a = a + 0
          OBVIOUS
        <5> QED  BY Zenon, <1>2, <3>4, <5>1
      <4>3. WidthDone(p, 0) = SpecOf(ParsedFlags(p), "default", 0, "", "empty")
        BY Zenon, <4>1 DEF WidthDone
      <4>4. 0 \in 0 .. Len(p.width)
        BY <4>1
      <4> QED  BY Zenon, <3>3, <4>2, <4>3, <4>4
    <3>7. IF Starred(p) THEN fmt' = Flagged(n) /\ spec' = WithFlags(p)
          ELSE \E i \in 0 .. Len(p.width) : fmt' = Flagged(n) + i /\ spec' = WidthDone(p, i)
      BY Zenon, <3>4, <3>5, <3>6
    <3> QED  BY Zenon, <1>1, <2>1, <2>9, <2>10, <3>1, <3>7, ReadsThere DEF Parsing, p
  <2>13. j \in 0 .. l - 1 \/ j = l
    BY <2>3
  <2> QED  BY <2>11, <2>12, <2>13
<1> QED  BY Zenon, <1>1, <1>2, <1>3, PrintingOn

\* What the next parts of a directive do to what is known of it.
StarSet(s, t)     == t = [s EXCEPT !.padKind = "fromArg"]
DigitSet(s, t, d) == t = [s EXCEPT !.padKind = "given", !.padding = ToInt(10 * @ + d)]

LEMMA StarIsSet ==
    ASSUME NEW flags, NEW kind, NEW padding, NEW t,
           StarSet(SpecOf(flags, kind, padding, "", "empty"), t)
    PROVE  t = SpecOf(flags, "fromArg", padding, "", "empty")
BY DEF SpecOf, StarSet

LEMMA DigitIsSet ==
    ASSUME NEW flags, NEW kind, NEW padding, NEW t, NEW d,
           DigitSet(SpecOf(flags, kind, padding, "", "empty"), t, d)
    PROVE  t = SpecOf(flags, "given", ToInt(10 * padding + d), "", "empty")
BY DEF SpecOf, DigitSet

\* A digit more of a field width.
LEMMA DigitRead ==
    ASSUME NEW p, IsPiece(p), ~IsText(p), ~Starred(p), NEW k, Supported(p, k),
           NEW j \in 0 .. Len(p.width) - 1
    PROVE  /\ j + 1 \in 0 .. Len(p.width) /\ p.width[j + 1] \in DOMAIN DigitValue
           /\ \A t : DigitSet(WidthDone(p, j), t, DigitValue[p.width[j + 1]]) => t = WidthDone(p, j + 1)
<1> DEFINE f == WidthRead(p)
           l == Len(p.width)
           d == DigitValue[p.width[j + 1]]
<1>1. l \in Nat /\ \A i \in 0 .. l : f[i] \in Nat /\ f[i] <= f[l]
  BY WidthUnfolds, WidthGrows
<1>2. j + 1 \in 1 .. l /\ j + 1 \in 0 .. l /\ (j + 1) - 1 = j /\ j + 1 # 0 /\ l \in 0 .. l
  BY <1>1
<1>3. p.width[j + 1] \in DOMAIN DigitValue /\ f[j + 1] = 10 * f[j] + d
  <2>1. f[j + 1] = 10 * f[(j + 1) - 1] + d
    BY <1>2, WidthUnfolds
  <2> QED  BY Zenon, <1>2, <2>1, WidthUnfolds
<1>4. 2 * f[l] < IntLimit
  BY Zenon DEF Supported, WidthOf
<1> HIDE DEF f, l, d
<1>5. ToInt(f[j + 1]) = f[j + 1]
  <2>1. IntLimit \in Nat \ {0}
    BY Limits
  <2>2. f[j + 1] \in Int /\ -IntLimit <= 2 * f[j + 1] /\ 2 * f[j + 1] < IntLimit
    BY <1>1, <1>2, <1>4, <2>1
  <2> QED  BY Zenon, <2>2, IntsExact
<1>6. \E kind : WidthDone(p, j) = SpecOf(ParsedFlags(p), kind, f[j], "", "empty")
  BY Zenon DEF WidthDone, f
<1>7. WidthDone(p, j + 1) = SpecOf(ParsedFlags(p), "given", f[j + 1], "", "empty")
  BY Zenon, <1>2 DEF WidthDone, f
<1>8. ASSUME NEW t, DigitSet(WidthDone(p, j), t, d)
      PROVE  t = SpecOf(ParsedFlags(p), "given", ToInt(10 * f[j] + d), "", "empty")
  <2>1. PICK kind : WidthDone(p, j) = SpecOf(ParsedFlags(p), kind, f[j], "", "empty")
    BY Zenon, <1>6
  <2>2. DigitSet(SpecOf(ParsedFlags(p), kind, f[j], "", "empty"), t, d)
    BY Zenon, <1>8, <2>1
  <2> QED  BY Zenon, <2>2, DigitIsSet
<1>9. ToInt(10 * f[j] + d) = f[j + 1]
  BY Zenon, <1>3, <1>5
<1> QED  BY Zenon, <1>2, <1>3, <1>7, <1>8, <1>9 DEF l, d

\* A star, or all digits read.
LEMMA PaddingRest ==
    ASSUME NEW p, IsPiece(p), ~IsText(p), NEW s
    PROVE  /\ Starred(p) /\ StarSet(WithFlags(p), s) => s = WithPadding(p)
           /\ ~Starred(p) /\ s = WidthDone(p, Len(p.width)) => s = WithPadding(p)
<1>1. ASSUME Starred(p), StarSet(WithFlags(p), s)
      PROVE  s = WithPadding(p)
  <2>1. KindOf(p) = "fromArg" /\ PaddingRead(p) = 0
    BY <1>1 DEF KindOf, PaddingRead
  <2>2. WithFlags(p) = SpecOf(ParsedFlags(p), "default", 0, "", "empty")
    BY Zenon DEF WithFlags
  <2>3. s = SpecOf(ParsedFlags(p), "fromArg", 0, "", "empty")
    BY Zenon, <1>1, <2>2, StarIsSet
  <2> QED  BY Zenon, <2>1, <2>3 DEF WithPadding
<1>2. ASSUME ~Starred(p), s = WidthDone(p, Len(p.width))
      PROVE  s = WithPadding(p)
  <2>1. Len(p.width) = 0 <=> p.width = <<>>
    <3>1. p.width \in Seq(Characters)
      BY PartsOf
    <3> QED  BY <3>1
  <2>2. KindOf(p) = (IF Len(p.width) = 0 THEN "default" ELSE "given")
        /\ PaddingRead(p) = WidthRead(p)[Len(p.width)]
    BY <1>2, <2>1 DEF KindOf, PaddingRead
  <2> QED  BY Zenon, <1>2, <2>2 DEF WidthDone, WithPadding
<1> QED  BY Zenon, <1>1, <1>2

LEMMA PaddingPrints ==
    ASSUME IInv, PrintInv, parse_format_padding
    PROVE  PrintInv'
<1>1. /\ InputInv /\ UNCHANGED input /\ args' = args /\ fmt \in Nat
      /\ written' = written /\ pc = "padding"
      /\ fmt' = fmt \/ fmt' = fmt + 1
  BY NumbersOfState DEF parse_format_padding, IInv
<1>2. fmt <= fmt' /\ fmt' \in Nat
  BY <1>1
<1>3. ASSUME NEW N \in 0 .. Len(format), Good(N), Printing(N)
      PROVE  Printing(N)'
  <2>1. PICK n \in 0 .. N - 1 : Within(n)
    BY Zenon, <1>1, <1>3, InReading DEF Parsing
  <2> USE DEF Within
  <2> DEFINE p == format[n + 1]
             s == After[n].fmt
             l == Len(p.width)
             F == Flagged(n)
             P == Padded(n)
  <2>2. IF Starred(p) THEN fmt = F /\ spec = WithFlags(p)
        ELSE \E j \in 0 .. l : fmt = F + j /\ spec = WidthDone(p, j)
    BY Zenon, <1>1, <2>1 DEF Reading
  <2>3. /\ l \in Nat /\ F \in Nat /\ P \in Nat /\ P = F + l
    <3>1. l \in Nat /\ s \in Nat /\ FlagsEnd(p) \in Nat /\ WidthEnd(p) \in Nat
      BY <2>1, PartsOf, Ends
    <3>2. WidthEnd(p) = FlagsEnd(p) + l
      BY DEF WidthEnd
    <3>3. F = s + FlagsEnd(p) /\ P = s + WidthEnd(p)
      BY Zenon, <2>1
    <3> HIDE DEF s, l, F, P, p
    <3> QED  BY <3>1, <3>2, <3>3
  <2>4. /\ Starred(p) => P = F + 1 /\ memory[F] = "*"
        /\ memory[P] \notin DOMAIN DigitValue \union {"*"}
    BY <1>1, <2>1, DirectiveInMemory
  <2>5. /\ ~IsDigit("*")
        /\ \A c : IsDigit(c) <=> c \in DOMAIN DigitValue
    BY DigitsAreCharacters DEF IsDigit
  <2>6. written' = Printed[n] /\ args' = After[n].args + 0
    BY Zenon, <1>1, <2>1
  <2>7. args' = After[n].args + (IF pc' = "format" THEN StarSlots(p) ELSE 0) \/ pc' = "format"
    BY Zenon, <2>6
  <2>8. ASSUME pc' = "precision", fmt' = P, spec' = WithPadding(p)
        PROVE  Printing(N)'
    BY Zenon, <1>1, <2>1, <2>6, <2>7, <2>8, ReadsThere DEF Parsing, p, P
  <2> HIDE DEF s, l, F, P, p
  <2>9. CASE Starred(p)
    <3>1. Char = "*" /\ spec = WithFlags(p) /\ fmt = F
      BY Zenon, <2>2, <2>4, <2>9 DEF Char
    <3>2. spec.padKind = "default"
      BY <3>1 DEF WithFlags, SpecOf
    <3>3. spec' = [spec EXCEPT !.padKind = "fromArg"] /\ fmt' = fmt + 1 /\ pc' = "precision"
      BY <2>5, <3>1, <3>2 DEF parse_format_padding
    <3>4. spec' = WithPadding(p)
      <4>1. StarSet(WithFlags(p), spec')
        BY Zenon, <3>1, <3>3 DEF StarSet
      <4> QED  BY Zenon, <2>1, <2>9, <4>1, PaddingRest DEF p
    <3>5. fmt' = P
      BY Zenon, <2>4, <2>9, <3>1, <3>3
    <3> QED  BY Zenon, <2>8, <3>3, <3>4, <3>5
  <2>10. CASE ~Starred(p)
    <3>1. PICK j \in 0 .. l : fmt = F + j /\ spec = WidthDone(p, j)
      BY Zenon, <2>2, <2>10
    <3>2. CASE j = l
      <4>1. fmt = P
        BY <2>3, <3>1, <3>2
      <4>2. Char # "*" /\ ~IsDigit(Char)
        BY Zenon, <2>4, <2>5, <4>1 DEF Char
      <4>3. spec' = spec /\ fmt' = fmt /\ pc' = "precision"
        BY <4>2 DEF parse_format_padding
      <4>4. spec = WithPadding(p)
        <5>1. spec = WidthDone(p, Len(p.width))
          BY Zenon, <3>1, <3>2 DEF l
        <5> QED  BY Zenon, <2>1, <2>10, <5>1, PaddingRest DEF p
      <4> QED  BY Zenon, <2>8, <4>1, <4>3, <4>4
    <3>3. CASE j \in 0 .. l - 1
      <4>1. Char = p.width[j + 1]
        <5>1. l \in Nat /\ F = s + FlagsEnd(p) /\ s \in Nat /\ FlagsEnd(p) \in Nat
              /\ WidthEnd(p) = FlagsEnd(p) + l /\ TypeEnd(p) \in Nat /\ WidthEnd(p) <= TypeEnd(p)
          <6>1. FlagsEnd(p) \in Nat /\ WidthEnd(p) \in Nat
            BY <2>1, Ends DEF p
          <6>2. WidthEnd(p) <= TypeEnd(p) /\ TypeEnd(p) \in Nat
            <7>1. WidthEnd(p) + 1 <= TypeEnd(p) /\ TypeEnd(p) \in Nat
              BY <1>1, <2>1, BehindWidth, Borders DEF p
            <7> QED  BY <6>1, <7>1
          <6>3. F = s + FlagsEnd(p) /\ s \in Nat
            BY <2>1 DEF F, s, p
          <6> QED  BY Zenon, <2>3, <6>1, <6>2, <6>3 DEF WidthEnd, l
        <5> DEFINE i == FlagsEnd(p) + (j + 1)
        <5>2. /\ i \in FlagsEnd(p) + 1 .. WidthEnd(p) /\ i \in 1 .. TypeEnd(p)
              /\ i - FlagsEnd(p) = j + 1 /\ fmt = s + (i - 1)
          <6> DEFINE a == FlagsEnd(p)
                     b == WidthEnd(p)
                     c == TypeEnd(p)
          <6>1. /\ l \in Nat /\ a \in Nat /\ c \in Nat /\ b = a + l /\ b <= c /\ i = a + (j + 1)
                /\ s \in Nat /\ fmt = s + a + j
            BY Zenon, <3>1, <5>1
          <6> HIDE DEF a, b, c, i
          <6>2. i \in a + 1 .. b /\ i \in 1 .. c /\ i - a = j + 1 /\ fmt = s + (i - 1)
            BY <3>3, <6>1
          <6> QED  BY Zenon, <6>2 DEF a, b, c
        <5> HIDE DEF i
        <5>3. Len(Written(p)) = TypeEnd(p) /\ Written(p)[i] = p.width[i - FlagsEnd(p)]
          BY <2>1, <5>2, PartsWritten DEF p
        <5>4. memory[s + (i - 1)] = Written(p)[i]
          <6>1. i \in 1 .. Len(Written(p))
            BY Zenon, <5>2, <5>3
          <6> QED  BY Zenon, <2>1, <6>1 DEF p, s
        <5> QED  BY Zenon, <5>2, <5>3, <5>4 DEF Char
      <4>2. /\ j + 1 \in 0 .. l /\ Char \in DOMAIN DigitValue
            /\ \A t : DigitSet(spec, t, DigitValue[p.width[j + 1]]) => t = WidthDone(p, j + 1)
        <5>1. IsPiece(p) /\ ~IsText(p) /\ Supported(p, After[n].args)
          BY Zenon, <2>1 DEF p
        <5> QED  BY Zenon, <2>10, <3>1, <3>3, <4>1, <5>1, DigitRead DEF l
      <4>3. IsDigit(Char) /\ Char # "*"
        BY Zenon, <2>5, <4>2
      <4>4. /\ spec' = [spec EXCEPT !.padKind = "given", !.padding = ToInt(10 * @ + DigitValue[Char])]
            /\ fmt' = fmt + 1 /\ pc' = "padding"
        BY <1>1, <4>3 DEF parse_format_padding
      <4>5. spec' = WidthDone(p, j + 1)
        <5>1. DigitSet(spec, spec', DigitValue[Char])
          BY Zenon, <4>4 DEF DigitSet
        <5> QED  BY Zenon, <4>1, <4>2, <5>1
      <4>6. fmt' = F + (j + 1)
        <5>1. fmt' = fmt + 1 /\ fmt = F + j
          BY Zenon, <3>1, <4>4
        <5> QED  BY <2>3, <3>1, <5>1
      <4>7. \E i \in 0 .. l : fmt' = F + i /\ spec' = WidthDone(p, i)
        BY Zenon, <4>2, <4>5, <4>6
      <4> QED  BY Zenon, <1>1, <2>1, <2>6, <2>7, <2>10, <4>4, <4>7, ReadsThere DEF Parsing, p, l, F
    <3>4. j = l \/ j \in 0 .. l - 1
      BY <2>3
    <3> QED  BY <3>2, <3>3, <3>4
  <2> QED  BY <2>9, <2>10
<1> QED  BY Zenon, <1>1, <1>2, <1>3, PrintingOn

LEMMA PrecisionPrints ==
    ASSUME IInv, PrintInv, parse_format_precision
    PROVE  PrintInv'
<1>1. /\ InputInv /\ UNCHANGED input /\ args' = args /\ fmt \in Nat /\ fmt' = fmt
      /\ written' = written /\ pc = "precision" /\ pc' = "width"
  BY NumbersOfState DEF parse_format_precision, IInv
<1>2. spec' = spec
  <2>1. spec' = [spec EXCEPT !.precisionKind = "default"] /\ spec \in Directives
    BY DEF parse_format_precision, IInv, SpecInv
  <2> QED  BY <2>1 DEF Directives
<1>3. fmt <= fmt' /\ fmt' \in Nat
  BY <1>1
<1>4. ASSUME NEW N \in 0 .. Len(format), Good(N), Printing(N)
      PROVE  Printing(N)'
  <2>1. PICK n \in 0 .. N - 1 : Within(n)
    BY Zenon, <1>1, <1>4, InReading DEF Parsing
  <2> USE DEF Within
  <2>2. fmt = Padded(n) /\ spec = WithPadding(format[n + 1])
    BY Zenon, <1>1, <2>1 DEF Reading
  <2>3. written' = Printed[n] /\ args' = After[n].args + 0
    BY Zenon, <1>1, <2>1
  <2>4. args' = After[n].args + (IF pc' = "format" THEN StarSlots(format[n + 1]) ELSE 0)
    BY Zenon, <1>1, <2>3
  <2> QED  BY Zenon, <1>1, <1>2, <2>1, <2>2, <2>3, <2>4, ReadsThere DEF Parsing
<1> QED  BY Zenon, <1>1, <1>3, <1>4, PrintingOn

LengthSet(s, t, length) == t = [s EXCEPT !.width = length]
TypeSet(s, t, type)     == t = [s EXCEPT !.type = type]

LEMMA LengthIsSet ==
    ASSUME NEW flags, NEW kind, NEW padding, NEW t, NEW length,
           LengthSet(SpecOf(flags, kind, padding, "", "empty"), t, length)
    PROVE  t = SpecOf(flags, kind, padding, length, "empty")
BY DEF SpecOf, LengthSet

LEMMA TypeIsSet ==
    ASSUME NEW flags, NEW kind, NEW padding, NEW t, NEW length, NEW type,
           TypeSet(SpecOf(flags, kind, padding, length, "empty"), t, type)
    PROVE  t = SpecOf(flags, kind, padding, length, type)
BY DEF SpecOf, TypeSet

LEMMA WidthPrints ==
    ASSUME IInv, PrintInv, parse_format_width
    PROVE  PrintInv'
<1>1. /\ InputInv /\ UNCHANGED input /\ args' = args /\ fmt \in Nat
      /\ written' = written /\ pc = "width" /\ pc' = "type"
      /\ fmt' = fmt + LengthOf(WidthAt(fmt)) /\ LengthSet(spec, spec', WidthAt(fmt))
  BY NumbersOfState DEF parse_format_width, IInv, LengthSet
<1>2. fmt <= fmt' /\ fmt' \in Nat
  <2>1. LengthOf(WidthAt(fmt)) \in {0, 1, 2}
    BY DEF LengthOf
  <2> QED  BY <1>1, <2>1
<1>3. ASSUME NEW N \in 0 .. Len(format), Good(N), Printing(N)
      PROVE  Printing(N)'
  <2>1. PICK n \in 0 .. N - 1 : Within(n)
    BY Zenon, <1>1, <1>3, InReading DEF Parsing
  <2> USE DEF Within
  <2> DEFINE p == format[n + 1]
  <2>2. fmt = Padded(n) /\ spec = WithPadding(p)
    BY Zenon, <1>1, <2>1 DEF Reading
  <2>3. written' = Printed[n] /\ args' = After[n].args + 0
    BY Zenon, <1>1, <2>1
  <2>4. args' = After[n].args + (IF pc' = "format" THEN StarSlots(p) ELSE 0)
    BY Zenon, <1>1, <2>3
  <2>5. p.precision = <<>>
    BY Zenon, <2>1, SupportedParts
  <2>6. WidthAt(Padded(n)) = ModifierOf(p) /\ LengthOf(ModifierOf(p)) = Len(p.length)
    BY <1>1, <2>1, <2>5, ModifierAt
  <2> HIDE DEF p
  <2>7. fmt' = Padded(n) + Len(p.length)
    BY Zenon, <1>1, <2>2, <2>6
  <2>8. spec' = WithLength(p)
    <3>1. LengthSet(SpecOf(ParsedFlags(p), KindOf(p), PaddingRead(p), "", "empty"), spec', ModifierOf(p))
      <4>1. spec = SpecOf(ParsedFlags(p), KindOf(p), PaddingRead(p), "", "empty")
        BY Zenon, <2>2 DEF WithPadding
      <4> QED  BY Zenon, <1>1, <2>2, <2>6, <4>1
    <3>2. spec' = SpecOf(ParsedFlags(p), KindOf(p), PaddingRead(p), ModifierOf(p), "empty")
      BY Zenon, <3>1, LengthIsSet
    <3> QED  BY Zenon, <3>2 DEF WithLength
  <2> QED  BY Zenon, <1>1, <2>1, <2>3, <2>4, <2>7, <2>8, ReadsThere DEF Parsing, p
<1> QED  BY Zenon, <1>1, <1>2, <1>3, PrintingOn

\* A supported directive is valid.
LEMMA TypeTaken ==
    ASSUME NEW p, IsPiece(p), ~IsText(p), NEW k, Supported(p, k), NEW at, memory[at] = p.type[1]
    PROVE  TypeAt(at) = TypeOf(p) /\ Validated(WithType(p)) = WithType(p)
<1>1. /\ \/ Type(p) \in {"c", "s", "p"} /\ ModifierOf(p) = ""
         \/ Type(p) \in {"d", "i", "o", "x", "X", "u"}
      /\ ModifierOf(p) # "L" /\ Type(p) = p.type[1]
  BY SupportedParts
<1>2. TypeAt(at) = TypeOf(p)
  BY <1>1 DEF TypeAt, FormatTypes, TypeOf
<1>3. WithType(p).type = TypeOf(p) /\ WithType(p).width = ModifierOf(p)
  BY DEF WithType, SpecOf
<1>4. \/ TypeOf(p) \in {"c", "s", "p"} /\ ModifierOf(p) = ""
      \/ TypeOf(p) \in {"d", "o", "x", "X", "u"}
  BY <1>1 DEF TypeOf
<1> DEFINE s == WithType(p)
<1>5. is_valid_spec(s)
  <2>1. /\ s.type # "%"
        /\ s.type \in {"c", "s", "p"} => s.width = ""
        /\ s.type \in {"d", "o", "x", "X", "u"} => s.width # "L"
        /\ s.type \in {"c", "s", "p"} \/ s.type \in {"d", "o", "x", "X", "u"}
    BY <1>1, <1>3, <1>4
  <2> HIDE DEF s
  <2>2. s.type \in {"c", "s", "p"} => s.type \notin {"d", "o", "x", "X", "u"}
    OBVIOUS
  <2> QED  BY <2>1, <2>2 DEF is_valid_spec
<1> HIDE DEF s
<1>6. Validated(s) = s
  BY Zenon, <1>5 DEF Validated
<1> QED  BY Zenon, <1>2, <1>6 DEF s

LEMMA TypePrints ==
    ASSUME IInv, PrintInv, parse_format_type
    PROVE  PrintInv'
<1>1. /\ InputInv /\ UNCHANGED input /\ args' = args /\ fmt \in Nat
      /\ written' = written /\ pc = "type" /\ pc' = "stars" /\ fmt' = fmt + 1
  BY NumbersOfState DEF parse_format_type, IInv
<1>2. \E t : TypeSet(spec, t, TypeAt(fmt)) /\ spec' = Validated(t)
  BY Zenon DEF parse_format_type, TypeSet
<1>3. fmt <= fmt' /\ fmt' \in Nat
  BY <1>1
<1>4. ASSUME NEW N \in 0 .. Len(format), Good(N), Printing(N)
      PROVE  Printing(N)'
  <2>1. PICK n \in 0 .. N - 1 : Within(n)
    BY Zenon, <1>1, <1>4, InReading DEF Parsing
  <2> USE DEF Within
  <2> DEFINE p == format[n + 1]
             P == Padded(n)
             l == Len(p.length)
             t == After[n + 1].fmt
  <2>2. fmt = P + l /\ spec = WithLength(p)
    BY Zenon, <1>1, <2>1 DEF Reading
  <2>3. written' = Printed[n] /\ args' = After[n].args + 0
    BY Zenon, <1>1, <2>1
  <2>4. args' = After[n].args + (IF pc' = "format" THEN StarSlots(p) ELSE 0)
    BY Zenon, <1>1, <2>3
  <2>5. p.precision = <<>>
    BY Zenon, <2>1, SupportedParts
  <2>6. t = P + l + 1 /\ memory[P + l] = p.type[1]
    BY <1>1, <2>1, <2>5, EndOfDirective
  <2> HIDE DEF p, P, l, t
  <2>7. fmt' = t
    BY Zenon, <1>1, <2>2, <2>6
  <2>8. spec' = WithType(p)
    <3>1. memory[fmt] = p.type[1]
      BY Zenon, <2>2, <2>6
    <3>2. TypeAt(fmt) = TypeOf(p) /\ Validated(WithType(p)) = WithType(p)
      BY Zenon, <2>1, <3>1, TypeTaken DEF p
    <3>3. PICK u : TypeSet(spec, u, TypeAt(fmt)) /\ spec' = Validated(u)
      BY Zenon, <1>2
    <3>4. TypeSet(SpecOf(ParsedFlags(p), KindOf(p), PaddingRead(p), ModifierOf(p), "empty"), u, TypeOf(p))
      <4>1. spec = SpecOf(ParsedFlags(p), KindOf(p), PaddingRead(p), ModifierOf(p), "empty")
        BY Zenon, <2>2 DEF WithLength
      <4> QED  BY Zenon, <3>2, <3>3, <4>1
    <3>5. u = SpecOf(ParsedFlags(p), KindOf(p), PaddingRead(p), ModifierOf(p), TypeOf(p))
      BY Zenon, <3>4, TypeIsSet
    <3>6. u = WithType(p)
      BY Zenon, <3>5 DEF WithType
    <3> QED  BY Zenon, <3>2, <3>3, <3>6
  <2> QED  BY Zenon, <1>1, <2>1, <2>3, <2>4, <2>7, <2>8, ReadsThere DEF Parsing, p, t
<1> QED  BY Zenon, <1>1, <1>3, <1>4, PrintingOn

\* The argument of a star.
LEMMA StarAt ==
    ASSUME IInv, pc = "stars", spec.padKind = "fromArg"
    PROVE  stack[args] \in Int /\ spec \in Directives
<1> DEFINE l == Len(stack)
           m == Len(memory)
<1>1. l \in Nat /\ m \in Nat /\ m <= l /\ fmt \in 1 .. m
  BY CharactersOfMemory DEF IInv, PlaceInv
<1>2. args \in Nat \ {0} /\ args + 1 + Takes <= fmt /\ Takes \in Nat /\ spec \in Directives
  BY NumbersOfState DEF IInv, SlotsInv, SpecInv, StarsLeft
<1>3. \A k \in 1 .. l : stack[k] \in Int
  <2>1. \A k \in 1 .. l : stack[k] \in 0 .. IntLimit - 1
    BY Stack DEF IInv, InputInv
  <2> HIDE DEF l
  <2> QED  BY <2>1, Limits
<1> HIDE DEF l, m
<1>4. args \in 1 .. l
  BY <1>1, <1>2
<1> QED  BY Zenon, <1>2, <1>3, <1>4

LEMMA StarsPrints ==
    ASSUME IInv, PrintInv, TakeStars
    PROVE  PrintInv'
<1>1. /\ InputInv /\ UNCHANGED input /\ fmt \in Nat /\ fmt' = fmt
      /\ written' = written /\ pc = "stars" /\ pc' = "format" /\ stack' = stack
  BY NumbersOfState DEF TakeStars, IInv, input
<1>2. fmt <= fmt' /\ fmt' \in Nat
  BY <1>1
<1>3. /\ args' = args + (IF spec.padKind = "fromArg" THEN 1 ELSE 0)
      /\ spec' = IF spec.padKind = "fromArg" THEN StarPadding(spec, args) ELSE spec
  <2> DEFINE padded == IF spec.padKind = "fromArg" THEN StarPadding(spec, args) ELSE spec
  <2>1. padded.precisionKind = "default"
    <3>1. CASE spec.padKind = "fromArg"
      <4>1. StarPadding(spec, args) \in Directives
        BY <1>1, <3>1, StarAt, PaddingTyped
      <4> QED  BY <3>1, <4>1 DEF Directives
    <3>2. CASE spec.padKind # "fromArg"
      <4>1. spec \in Directives
        BY DEF IInv, SpecInv
      <4> QED  BY <3>2, <4>1 DEF Directives
    <3> QED  BY <3>1, <3>2
  <2>2. spec' = padded /\ args' = (IF spec.padKind = "fromArg" THEN args + 1 ELSE args)
    <3>1. padded.precisionKind # "fromArg"
      BY <2>1
    <3> QED  BY Zenon, <3>1 DEF TakeStars
  <2>3. args \in Nat
    BY NumbersOfState
  <2> QED  BY <2>2, <2>3
<1>4. ASSUME NEW N \in 0 .. Len(format), Good(N), Printing(N)
      PROVE  Printing(N)'
  <2>1. PICK n \in 0 .. N - 1 : Within(n)
    BY Zenon, <1>1, <1>4, InReading
  <2> USE DEF Within
  <2> DEFINE p == format[n + 1]
             k == After[n].args
  <2>2. fmt = After[n + 1].fmt /\ spec = WithType(p)
    BY Zenon, <1>1, <2>1 DEF Reading
  <2>3. written' = Printed[n] /\ args = k + 0 /\ k \in Nat
    BY <1>1, <2>1
  <2>4. args = k
    <3> HIDE DEF k
    <3> QED  BY <2>3
  <2>5. (IF spec.padKind = "fromArg" THEN 1 ELSE 0) = StarSlots(p) /\ (spec.padKind = "fromArg" <=> Starred(p))
    <3>1. spec.padKind = KindOf(p)
      <4> HIDE DEF p
      <4> QED  BY <2>2 DEF WithType, SpecOf
    <3> QED  BY <2>1, <3>1 DEF KindOf, StarSlots
  <2>6. args' = k + (IF pc' = "format" THEN StarSlots(p) ELSE 0)
    BY Zenon, <1>1, <1>3, <2>4, <2>5
  <2>7. spec' = Ready(p, k)
    <3> HIDE DEF p, k
    <3> QED  BY Zenon, <1>3, <2>2, <2>4, <2>5 DEF Ready
  <2>8. Ready(p, k)' = Ready(p, k)
    <3>1. format' = format /\ After' = After
      BY PlacesStay, <1>1
    <3> QED  BY Zenon, <1>1, <3>1 DEF Ready, StarPadding
  <2>9. spec' = Ready(p, k)'
    BY Zenon, <2>7, <2>8
  <2>10. fmt' = After[n + 1].fmt
    BY Zenon, <1>1, <2>2
  <2> QED  BY Zenon, <1>1, <2>1, <2>3, <2>6, <2>9, <2>10, ReadsThere DEF Parsing
<1> QED  BY Zenon, <1>1, <1>2, <1>4, PrintingOn

LEMMA FormatPrints ==
    ASSUME IInv, PrintInv, FormatSpec
    PROVE  PrintInv'
<1>1. /\ InputInv /\ UNCHANGED input /\ fmt \in Nat /\ fmt' = fmt
      /\ pc = "format" /\ pc' = "scan" /\ format \in Formats
      /\ written' = written \o Formatted(spec, args)
      /\ args' = args + Takes
  BY NumbersOfState DEF FormatSpec, IInv, InputInv, Takes
<1>2. fmt <= fmt' /\ fmt' \in Nat
  BY <1>1
<1>3. args + Takes <= Len(stack) /\ Len(stack) \in Nat
  <2> DEFINE l == Len(stack)
             m == Len(memory)
  <2>1. l \in Nat /\ m \in Nat /\ m <= l /\ fmt \in 1 .. m
    BY CharactersOfMemory DEF IInv, PlaceInv
  <2>2. args \in Nat /\ Takes \in Nat /\ args + Takes <= fmt
    BY <1>1, NumbersOfState DEF IInv, SlotsInv
  <2> HIDE DEF l, m
  <2>3. args + Takes <= l
    BY <2>1, <2>2
  <2> QED  BY <2>1, <2>3 DEF l
<1>4. ASSUME NEW N \in 0 .. Len(format), Good(N), Printing(N)
      PROVE  Printing(N)'
  <2>1. PICK n \in 0 .. N - 1 : Within(n)
    BY Zenon, <1>1, <1>4, InReading
  <2> USE DEF Within
  <2> DEFINE p == format[n + 1]
             k == After[n].args
             star == StarSlots(p)
             takes == SlotsOf(ModifierOf(p))
  <2>2. fmt = After[n + 1].fmt /\ spec = Ready(p, k)
    BY Zenon, <1>1, <2>1 DEF Reading
  <2>3. written = Printed[n] /\ args = k + star /\ k \in Nat \ {0}
    BY Zenon, <1>1, <2>1
  <2>4. /\ n + 1 \in 0 .. N /\ n + 1 \in 1 .. Len(format) /\ (n + 1) - 1 = n
    <3>1. Len(format) \in Nat
      BY <1>1, Pieces
    <3> QED  BY <3>1
  <2>5. After[n + 1].args = k + Slots(p)
    BY <1>1, <2>1, InPiece
  <2>6. /\ Slots(p) = star + takes /\ ModifierOf(p) \in Widths \ {"L"} /\ p.type # <<>>
        /\ Type(p) \in {"c", "s", "p", "d", "i", "o", "x", "X", "u"}
    BY <2>1, SupportedParts
  <2>7. star \in {0, 1} /\ takes \in {1, 2}
    BY SlotsTyped DEF SlotsOf
  <2>8. spec.type = TypeOf(p) /\ spec.width = ModifierOf(p)
    <3>1. WithType(p).type = TypeOf(p) /\ WithType(p).width = ModifierOf(p)
      BY DEF WithType, SpecOf
    <3>2. /\ StarPadding(WithType(p), k).type = WithType(p).type
          /\ StarPadding(WithType(p), k).width = WithType(p).width
      BY DEF StarPadding, WithType, SpecOf
    <3> HIDE DEF p, k
    <3> QED  BY Zenon, <2>2, <3>1, <3>2 DEF Ready
  <2>9. Takes = takes
    <3>1. TypeOf(p) \notin {"empty", "%"}
      BY <2>6 DEF TypeOf
    <3> HIDE DEF p
    <3> QED  BY Zenon, <2>8, <3>1 DEF Takes, takes
  <2> HIDE DEF star, takes, k, p
  <2>10. k + Slots(p) <= Len(stack) /\ args' = After[n + 1].args
    <3>1. \A a \in Nat, b, c \in {0, 1, 2} : a + b + c = a + (b + c)
      OBVIOUS
    <3>2. k + Slots(p) = args + Takes
      BY <2>3, <2>6, <2>7, <2>9
    <3> QED  BY Zenon, <1>1, <1>3, <2>5, <3>2
  <2>11. Formatted(spec, args) = Field(p, k)
    <3>1. Formatted(Ready(p, k), k + StarSlots(p)) = Field(p, k)
      BY Zenon, <1>1, <2>1, <2>3, <2>10, FieldPrinted DEF p, k
    <3> QED  BY Zenon, <2>2, <2>3, <3>1 DEF star
  <2>12. written' = Printed[n + 1]
    <3>1. Printed[n + 1] = Printed[(n + 1) - 1] \o Field(format[n + 1], After[(n + 1) - 1].args)
      BY <1>1, <2>4, PrintedUnfolds
    <3> QED  BY Zenon, <1>1, <2>3, <2>4, <2>11, <3>1 DEF p, k
  <2>13. fmt' = After[n + 1].fmt
    BY Zenon, <1>1, <2>2
  <2> QED  BY Zenon, <1>1, <2>4, <2>10, <2>12, <2>13, StandsThere
<1> QED  BY Zenon, <1>1, <1>2, <1>4, PrintingOn

LEMMA StutterPrints ==
    ASSUME PrintInv, UNCHANGED vars
    PROVE  PrintInv'
<1>1. UNCHANGED input /\ UNCHANGED <<fmt, args, spec, pc, written>>
      /\ format' = format /\ stack' = stack /\ memory' = memory
  BY DEF vars, input
<1>2. /\ After' = After /\ Printed' = Printed
      /\ \A N : Good(N)' <=> Good(N)
      /\ \A n : Flagged(n)' = Flagged(n) /\ Padded(n)' = Padded(n)
  BY Zenon, <1>1, PlacesStay, PrintedStays
<1>3. \A p, k : Ready(p, k)' = Ready(p, k)
  BY Zenon, <1>1 DEF Ready, StarPadding
<1>4. ASSUME NEW n PROVE (Standing(n)' <=> Standing(n)) /\ (Reading(n)' <=> Reading(n))
  BY <1>1, <1>2, <1>3 DEF Standing, Reading
<1>5. ASSUME NEW N PROVE Printing(N)' <=> Printing(N)
  BY Zenon, <1>1, <1>4 DEF Printing
<1> QED  BY Zenon, <1>1, <1>2, <1>5 DEF PrintInv

LEMMA PrintInvStep == IInv /\ PrintInv /\ [Next]_vars => PrintInv'
<1> SUFFICES ASSUME IInv, PrintInv, [Next]_vars PROVE PrintInv'
  OBVIOUS
<1>1. CASE Call \/ Return
  BY <1>1, CallPrints
<1>2. CASE WriteLiteral
  BY <1>2, LiteralPrints
<1>3. CASE parse_format_spec
  BY <1>3, SpecPrints
<1>4. CASE parse_format_flags
  BY <1>4, FlagsPrints
<1>5. CASE parse_format_padding
  BY <1>5, PaddingPrints
<1>6. CASE parse_format_precision
  BY <1>6, PrecisionPrints
<1>7. CASE parse_format_width
  BY <1>7, WidthPrints
<1>8. CASE parse_format_type
  BY <1>8, TypePrints
<1>9. CASE TakeStars
  BY <1>9, StarsPrints
<1>10. CASE FormatSpec
  BY <1>10, FormatPrints
<1>11. CASE UNCHANGED vars
  BY <1>11, StutterPrints
<1> QED  BY Zenon, <1>1, <1>2, <1>3, <1>4, <1>5, <1>6, <1>7, <1>8, <1>9, <1>10, <1>11 DEF Next, ParseStep

LEMMA PrintsFollow == IInv /\ PrintInv => PrintsAsC11
<1> SUFFICES ASSUME IInv, PrintInv, pc = "scan", NEW n \in 0 .. Len(format), fmt = After[n].fmt, Good(n)
             PROVE  written = Printed[n]
  BY Zenon DEF PrintsAsC11, Good
<1>1. format \in Formats /\ Len(format) \in Nat
  BY Pieces DEF IInv, InputInv
<1> DEFINE at(i) == After[i].fmt
<1>2. /\ \A i \in 0 .. Len(format) : at(i) \in Nat
      /\ \A i \in 1 .. Len(format) : at(i - 1) < at(i)
      /\ \A j \in 0 .. Len(format) : \A i \in 0 .. j : at(i) <= at(j)
  BY <1>1, MarksAscend
<1>3. PICK m \in 0 .. n : Standing(m)
  <2>1. fmt <= After[n].fmt
    <3>1. at(n) \in Nat /\ fmt = at(n)
      BY <1>2
    <3> HIDE DEF at
    <3>2. fmt <= at(n)
      BY <3>1
    <3> QED  BY Zenon, <3>2 DEF at
  <2>2. Printing(n)
    BY Zenon, <2>1 DEF PrintInv
  <2> QED  BY Zenon, <2>2 DEF Printing
<1>4. at(m) = at(n) /\ written = Printed[m]
  BY Zenon, <1>3 DEF Standing
<1> HIDE DEF at
<1>5. m = n
  <2>1. ASSUME m # n PROVE FALSE
    <3>1. /\ m + 1 \in 1 .. Len(format) /\ m + 1 \in 0 .. n /\ (m + 1) - 1 = m
          /\ m \in 0 .. Len(format)
      BY <1>1, <2>1
    <3>2. at((m + 1) - 1) < at(m + 1) /\ at(m + 1) <= at(n)
      BY Zenon, <1>2, <3>1
    <3>3. at(m) \in Nat /\ at(m + 1) \in Nat /\ at(n) \in Nat /\ at(m) < at(m + 1)
      <4>1. m + 1 \in 0 .. Len(format)
        BY <3>1
      <4> QED  BY Zenon, <1>2, <3>1, <3>2, <4>1
    <3> QED  BY <1>4, <3>2, <3>3
  <2> QED  BY <2>1
<1> QED  BY Zenon, <1>4, <1>5

(***************************************************************************)
(* Whatever the format and its arguments, and however wide the integers,   *)
(* what kvprintf has printed behind a piece of the format is what C11 says *)
(* of the pieces up to it, if the code supports all of them: the digits of *)
(* every number in every base, its sign and prefix, the field's width, and *)
(* the side it is filled on.                                               *)
(***************************************************************************)
THEOREM PrintsAsPrescribed == Spec => []PrintsAsC11
<1>1. Init => PrintInv
  BY PrintInit
<1>2. IInv /\ PrintInv /\ [Next]_vars => PrintInv'
  BY PrintInvStep
<1>3. IInv /\ PrintInv => PrintsAsC11
  BY PrintsFollow
<1> QED  BY <1>1, <1>2, <1>3, IInvAlways, PTL DEF Spec
=============================================================================
