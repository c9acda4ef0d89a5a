----------------------------- MODULE MCKPrintf -----------------------------
(***************************************************************************)
(* Calls of kvprintf with integers of 4, 8, 12 and 24 bits: single         *)
(* directives with all their parts, two directives after one another, what *)
(* kmain prints, and directives that C11 or the code does not know.        *)
(***************************************************************************)
EXTENDS KPrintfProps, TLC

MCCharacters ==
    KnownCharacters \union {"g", "h", "i", "j", "k", "l", "m", "n", "o", "p", "q", "s", "u"}
                    \union {"?", "(", ")", "\n"}

\* A character has the value of its place; 15 has the sign bit set.
MCCharOf ==
    [v \in 0 .. 15 |-> <<"NUL", "a", "b", "c", "d", "e", "f", "g", "h", "i", "j", "k", "l",
                         "m", "n", "o">>[v + 1]]

MCStrings  == 100 :> <<"h", "i">> @@ 101 :> <<>> @@ 102 :> <<"%", "d">>
MCWildText == <<"?">>

Directive(flags, width, precision, length, type) ==
    [flags |-> flags, width |-> width, precision |-> precision, length |-> length, type |-> type]

Text(c) == [type |-> <<"text">>, char |-> c]

Plain(type) == Directive(<<>>, <<>>, <<>>, <<>>, type)

None    == <<>>
Types   == {<<"c">>, <<"s">>, <<"d">>, <<"i">>, <<"o">>, <<"x">>, <<"X">>, <<"u">>, <<"p">>}
Lengths == {None, <<"h", "h">>, <<"h">>, <<"l">>, <<"l", "l">>, <<"j">>, <<"z">>, <<"t">>, <<"L">>}

\* Flags in some order, one of them twice.
Flags ==
    {None, <<"-">>, <<"+">>, <<" ">>, <<"#">>, <<"0">>, <<" ", "+">>, <<"+", "-">>, <<"0", "+">>,
     <<"#", "0">>, <<"0", "#", "0">>, <<"-", " ">>, <<"-", "0">>, <<"0", "-", "+">>}

\* One directive, and a decimal number after it.
Single ==
    {<<Directive(f, w, None, None, t), Text("a"), Plain(<<"d">>)>> :
        f \in Flags, w \in {None, <<"3">>, <<"1", "0">>, <<"*">>}, t \in Types}

Lengthy ==
    {<<Directive(f, w, None, l, t), Plain(<<"x">>)>> :
        f \in {None, <<"0">>}, w \in {None, <<"7">>}, l \in Lengths,
        t \in Types \ {<<"i">>, <<"s">>, <<"x">>}}

Precise ==
    {<<Directive(None, w, p, None, t), Plain(<<"u">>)>> :
        w \in {None, <<"4">>, <<"*">>}, p \in {<<".">>, <<".", "2">>, <<".", "*">>, <<".", "6", "4">>},
        t \in {<<"c">>, <<"d">>, <<"X">>}}

\* A single directive with both of '-' and '0', alone.
Alone ==
    {<<Directive(f, w, None, None, t)>> :
        f \in {<<"-", "0">>, <<"0", "-", "+">>}, w \in {<<"4">>, <<"1", "0">>},
        t \in {<<"d">>, <<"o">>, <<"x">>, <<"u">>}}

Malformed ==
    {<<Text("a"), Directive(f, w, p, l, t)>> :
        f \in {None, <<"-">>}, w \in {None, <<"3">>, <<"*">>}, p \in {None, <<".">>, <<".", "3">>},
        l \in {None, <<"h">>, <<"l">>, <<"l", "l">>}, t \in {None, <<"%">>, <<"q">>}}

\* kmain's lines: of the memory map, and of its allocation.
KMainLines ==
    LET Wide == Directive(<<"0">>, <<"1", "6">>, None, <<"l", "l">>, <<"X">>)
        Hex8 == Directive(<<"0">>, <<"8">>, None, None, <<"X">>)
    IN  {<<Wide, Text("-"), Wide, Text("("), Wide, Text(")"), Plain(<<"d">>), Text(" "), Hex8, Text("\n")>>,
         <<Plain(<<"u">>), Text("("), Plain(<<"u">>), Text(")"), Plain(<<"p">>), Text("\n")>>}

MCFormats == Single \union Lengthy \union Precise \union Alone \union Malformed \union KMainLines

\* The empty string.
MCBehind == <<"NUL">>

\* The first slots: a star and an argument, or one or two arguments.  4090 is
\* -6, 2048 the least integer, 100 to 102 are strings.
MCStacks ==
    {first \o <<7, 5, 6, 7, 0, 9, 4095, 8, 0>> \o [n \in 1 .. 30 |-> n] :
        first \in {<<0, 9>>, <<9, 0>>, <<3, 4095>>, <<4090, 100>>, <<2048, 101>>, <<100, 2047>>,
                   <<102, 2048>>, <<15, 1>>, <<4095, 0>>, <<4, 102>>}}
=============================================================================
