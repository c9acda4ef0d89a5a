---------------------------- MODULE KMainProofs ----------------------------
(***************************************************************************)
(* Through all of kmain the initializers of the run time are called in     *)
(* order, the hardware's cursor is where the kernel has it and can be      *)
(* seen, and memory ends as it began: for every memory map a pointer       *)
(* reaches, table of initializers and state of the VGA registers.          *)
(***************************************************************************)
EXTENDS KMain, VgaCursorProofs, PhysMemMapProofs, SequenceTheorems

Initializers  == Int \union {NULL}
Constructors  == {"constructor", NULL}
Function      == {"c", "cpp"} \X Nat

RuntimeTypes ==
    /\ table.c \in Seq(Initializers)
    /\ table.cpp \in Seq(Constructors)
    /\ phase \in {"c", "cpp", "isa", "ready", "failed", "fault"}
    /\ init \in Nat
    /\ phase \in {"c", "fault"} => init <= Len(table.c)
    /\ phase = "cpp" => init <= Len(table.cpp)
    /\ result \in Int
    /\ ran \in Seq(Function)

\* How many entries of a table lie behind.
Passed(name) ==
    IF name = "c"
    THEN IF phase \in {"c", "fault"} THEN init ELSE Len(table.c)
    ELSE CASE phase \in {"c", "failed", "fault"} -> 0
           [] phase = "cpp"                      -> init
           [] OTHER                              -> Len(table.cpp)

InOrder     == \A i, j \in DOMAIN ran : i < j => Before(ran[i], ran[j])
OnlyPassed  ==
    \A i \in DOMAIN ran : \A name \in {"c", "cpp"} :
        ran[i][1] = name => ran[i][2] \in 1 .. Passed(name)
NoneMissing ==
    phase # "failed" =>
        \A name \in {"c", "cpp"} : \A k \in 1 .. Passed(name) :
            Entries(name)[k] # NULL => \E i \in DOMAIN ran : ran[i] = <<name, k>>

\* A failure is the last thing that was called, and is remembered.
Failed(i)     == ran[i][1] = "c" /\ table.c[ran[i][2]] # 0
FailureIsLast ==
    /\ \A i \in DOMAIN ran : Failed(i) => i = Len(ran) /\ result # 0
    /\ phase \notin {"c", "failed", "fault"} => result = 0

RuntimeInv == RuntimeTypes /\ InOrder /\ OnlyPassed /\ NoneMissing /\ FailureIsLast

-----------------------------------------------------------------------------
LEMMA RuntimeInitIsSafe == RuntimeInit => RuntimeInv
<1> SUFFICES ASSUME RuntimeInit PROVE RuntimeInv
  OBVIOUS
<1>1. /\ table \in Tables /\ phase = "c" /\ init = 0 /\ result = 0 /\ ran = <<>>
  BY DEF RuntimeInit
<1>2. RuntimeTypes
  <2>1. table.c \in Seq(Initializers) /\ table.cpp \in Seq(Constructors)
    BY <1>1, TablesAssumption DEF Initializers, Constructors
  <2>2. Len(table.c) \in Nat
    BY <2>1, LenProperties
  <2>3. ran \in Seq(Function)
    BY <1>1
  <2> QED  BY <1>1, <2>1, <2>2, <2>3 DEF RuntimeTypes
<1>3. Passed("c") = 0 /\ Passed("cpp") = 0 /\ DOMAIN ran = {}
  BY <1>1 DEF Passed
<1> QED
  BY <1>1, <1>2, <1>3 DEF RuntimeInv, InOrder, OnlyPassed, NoneMissing, FailureIsLast

\* A function called is one more, behind all others.
LEMMA CalledNext ==
    ASSUME ran \in Seq(Function), NEW f \in Function, ran' = Append(ran, f)
    PROVE  /\ ran' \in Seq(Function)
           /\ Len(ran) \in Nat /\ Len(ran') = Len(ran) + 1
           /\ DOMAIN ran = 1 .. Len(ran) /\ DOMAIN ran' = 1 .. (Len(ran) + 1)
           /\ \A i \in DOMAIN ran : ran'[i] = ran[i]
           /\ ran'[Len(ran) + 1] = f
BY AppendProperties, LenProperties

(***************************************************************************)
(* One entry of the table `name' is passed: a gap, or a function that is   *)
(* called.                                                                 *)
(***************************************************************************)
LEMMA EntryPassed ==
    ASSUME RuntimeInv, NEW name \in {"c", "cpp"}, phase = name,
           init < Len(Entries(name)), init' = init + 1, table' = table,
           phase' = name \/ (name = "c" /\ phase' = "fault"),
           IF Entries(name)[init + 1] = NULL
           THEN ran' = ran ELSE ran' = Append(ran, <<name, init + 1>>)
    PROVE  /\ ran' \in Seq(Function)
           /\ init' \in Nat /\ init' <= Len(Entries(name))
           /\ InOrder' /\ OnlyPassed' /\ NoneMissing'
<1>0. /\ RuntimeTypes /\ InOrder /\ OnlyPassed /\ NoneMissing
      /\ init \in Nat /\ ran \in Seq(Function)
      /\ \A i \in DOMAIN ran : ran[i] \in Function
  BY ElementOfSeq DEF RuntimeInv, RuntimeTypes
<1>1. init + 1 \in 1 .. Len(Entries(name)) /\ init' \in Nat /\ Len(Entries(name)) \in Nat
  <2>1. Len(Entries(name)) \in Nat
    BY <1>0, LenProperties DEF Entries, RuntimeTypes
  <2> QED  BY <1>0, <2>1
<1>2. /\ \A n \in {"c", "cpp"} : Passed(n) \in Nat
      /\ Passed(name) = init /\ Passed(name)' = init + 1
      /\ \A n \in {"c", "cpp"} : n # name => Passed(n)' = Passed(n)
      /\ name = "c" => Passed("cpp") = 0
  BY <1>0, LenProperties DEF Passed, RuntimeTypes
<1>3. \A n \in {"c", "cpp"} : Entries(n)' = Entries(n)
  BY DEF Entries
<1> DEFINE f == <<name, init + 1>>
<1>4. CASE Entries(name)[init + 1] = NULL
  <2>1. ran' = ran
    BY <1>4
  <2>2. InOrder'
    BY <1>0, <2>1 DEF InOrder, Before
  <2>3. OnlyPassed'
    <3> SUFFICES ASSUME NEW i \in DOMAIN ran, NEW n \in {"c", "cpp"}, ran[i][1] = n
                 PROVE  ran[i][2] \in 1 .. Passed(n)'
      BY <2>1 DEF OnlyPassed
    <3>1. ran[i][2] \in 1 .. Passed(n)
      BY <1>0 DEF OnlyPassed
    <3> QED  BY <1>0, <1>2, <3>1
  <2>4. NoneMissing'
    <3> SUFFICES ASSUME phase # "failed", NEW n \in {"c", "cpp"}, NEW k \in 1 .. Passed(n)',
                        Entries(n)[k] # NULL
                 PROVE  \E i \in DOMAIN ran : ran[i] = <<n, k>>
      BY <1>3, <2>1 DEF NoneMissing
    <3>1. k \in 1 .. Passed(n)
      BY <1>0, <1>2, <1>4
    <3> QED  BY <1>0, <3>1 DEF NoneMissing
  <2> QED  BY <1>0, <1>1, <2>1, <2>2, <2>3, <2>4
<1>5. CASE Entries(name)[init + 1] # NULL
  <2>1. f \in Function /\ ran' = Append(ran, f)
    BY <1>0, <1>5 DEF Function
  <2>2. /\ ran' \in Seq(Function)
        /\ Len(ran) \in Nat
        /\ DOMAIN ran = 1 .. Len(ran) /\ DOMAIN ran' = 1 .. (Len(ran) + 1)
        /\ \A i \in DOMAIN ran : ran'[i] = ran[i]
        /\ ran'[Len(ran) + 1] = f
    BY <1>0, <2>1, CalledNext
  <2>3. f[1] = name /\ f[2] = init + 1
    OBVIOUS
  <2> HIDE DEF f
  <2>4. \A i \in DOMAIN ran : Before(ran[i], f)
    <3> SUFFICES ASSUME NEW i \in DOMAIN ran PROVE Before(ran[i], f)
      OBVIOUS
    <3>2. ran[i] \in Function /\ ran[i][1] \in {"c", "cpp"}
      BY <1>0 DEF Function
    <3>1. \A n \in {"c", "cpp"} : ran[i][1] = n => ran[i][2] \in 1 .. Passed(n)
      BY <1>0 DEF OnlyPassed
    <3>3. CASE ran[i][1] = name
      BY <1>0, <1>2, <2>3, <3>1, <3>3 DEF Before
    <3>4. CASE ran[i][1] # name
      <4>1. name # "c"
        BY <1>2, <3>1, <3>2, <3>4
      <4> QED  BY <2>3, <3>2, <3>4, <4>1 DEF Before
    <3> QED  BY <3>3, <3>4
  <2>5. InOrder'
    <3> SUFFICES ASSUME NEW i \in 1 .. (Len(ran) + 1), NEW j \in 1 .. (Len(ran) + 1), i < j
                 PROVE  Before(ran'[i], ran'[j])
      BY <2>2 DEF InOrder, Before
    <3>1. i \in DOMAIN ran
      BY <2>2
    <3>2. CASE j \in DOMAIN ran
      BY <1>0, <2>2, <3>1, <3>2 DEF InOrder
    <3>3. CASE j = Len(ran) + 1
      BY <2>2, <2>4, <3>1, <3>3
    <3> QED  BY <2>2, <3>2, <3>3
  <2>6. OnlyPassed'
    <3> SUFFICES ASSUME NEW i \in 1 .. (Len(ran) + 1), NEW n \in {"c", "cpp"}, ran'[i][1] = n
                 PROVE  ran'[i][2] \in 1 .. Passed(n)'
      BY <2>2 DEF OnlyPassed
    <3>1. CASE i \in DOMAIN ran
      <4>1. ran'[i] = ran[i] /\ ran[i][2] \in 1 .. Passed(n)
        BY <1>0, <2>2, <3>1 DEF OnlyPassed
      <4> QED  BY <1>0, <1>2, <4>1
    <3>2. CASE i = Len(ran) + 1
      <4>1. n = name
        BY <2>2, <2>3, <3>2
      <4> QED  BY <1>0, <1>2, <2>2, <2>3, <3>2, <4>1
    <3> QED  BY <2>2, <3>1, <3>2
  <2>7. NoneMissing'
    <3> SUFFICES ASSUME phase # "failed", NEW n \in {"c", "cpp"}, NEW k \in 1 .. Passed(n)',
                        Entries(n)[k] # NULL
                 PROVE  \E i \in DOMAIN ran' : ran'[i] = <<n, k>>
      BY <1>3 DEF NoneMissing
    <3>1. CASE k \in 1 .. Passed(n)
      <4>1. PICK i \in DOMAIN ran : ran[i] = <<n, k>>
        BY <1>0, <3>1 DEF NoneMissing
      <4> QED  BY <2>2, <4>1
    <3>2. CASE k \notin 1 .. Passed(n)
      <4>1. n = name /\ k = init + 1
        BY <1>0, <1>2, <3>2
      <4> QED  BY <2>2, <4>1 DEF f
    <3> QED  BY <3>1, <3>2
  <2> QED  BY <1>0, <1>1, <2>2, <2>5, <2>6, <2>7
<1> QED  BY <1>4, <1>5

\* Going from one table to the next calls nothing and passes nothing.
LEMMA NothingPassed ==
    ASSUME RuntimeInv, RuntimeTypes', UNCHANGED <<table, ran, result>>,
           \A n \in {"c", "cpp"} : Passed(n)' \in Nat /\ Passed(n)' >= Passed(n),
           phase' # "failed" =>
               phase # "failed" /\ \A n \in {"c", "cpp"} : Passed(n)' = Passed(n),
           phase' \notin {"c", "failed", "fault"} => result = 0
    PROVE  RuntimeInv'
<1>1. InOrder'
  BY DEF RuntimeInv, InOrder, Before
<1>2. \A n \in {"c", "cpp"} : Passed(n) \in Nat
  BY LenProperties DEF RuntimeInv, RuntimeTypes, Passed
<1>3. OnlyPassed'
  <2> SUFFICES ASSUME NEW i \in DOMAIN ran, NEW n \in {"c", "cpp"}, ran[i][1] = n
               PROVE  ran[i][2] \in 1 .. Passed(n)'
    BY DEF OnlyPassed
  <2>1. ran[i][2] \in 1 .. Passed(n)
    BY DEF RuntimeInv, OnlyPassed
  <2> QED  BY <1>2, <2>1
<1>4. NoneMissing'
  <2> SUFFICES ASSUME phase' # "failed", NEW n \in {"c", "cpp"}, NEW k \in 1 .. Passed(n)',
                      Entries(n)[k] # NULL
               PROVE  \E i \in DOMAIN ran : ran[i] = <<n, k>>
    BY DEF NoneMissing, Entries
  <2>1. k \in 1 .. Passed(n) /\ phase # "failed"
    OBVIOUS
  <2> QED  BY <2>1 DEF RuntimeInv, NoneMissing
<1>5. FailureIsLast'
  BY DEF RuntimeInv, FailureIsLast, Failed
<1> QED  BY <1>1, <1>3, <1>4, <1>5 DEF RuntimeInv

LEMMA RuntimeStepIsSafe == RuntimeInv /\ [nos_krt_init]_runtime => RuntimeInv'
<1> SUFFICES ASSUME RuntimeInv, [nos_krt_init]_runtime PROVE RuntimeInv'
  OBVIOUS
<1>0. /\ RuntimeTypes
      /\ Len(table.c) \in Nat /\ Len(table.cpp) \in Nat /\ init \in Nat
      /\ \A i \in DOMAIN ran : Failed(i) => i = Len(ran) /\ result # 0
      /\ phase \notin {"c", "failed", "fault"} => result = 0
  BY LenProperties DEF RuntimeInv, RuntimeTypes, FailureIsLast
<1>1. CASE RunInitializer
  <2>1. Entries("c") = table.c
    BY DEF Entries
  <2>2. /\ phase = "c" /\ init < Len(table.c) /\ result = 0
        /\ init' = init + 1 /\ table' = table
        /\ phase' = "c" \/ phase' = "fault"
        /\ IF table.c[init + 1] = NULL
           THEN ran' = ran /\ result' = result
           ELSE ran' = Append(ran, <<"c", init + 1>>) /\ result' = table.c[init + 1]
    BY <1>1 DEF RunInitializer
  <2>3. /\ ran' \in Seq(Function)
        /\ init' \in Nat /\ init' <= Len(table.c)
        /\ InOrder' /\ OnlyPassed' /\ NoneMissing'
    BY <2>1, <2>2, EntryPassed
  <2>4. init + 1 \in 1 .. Len(table.c)
    BY <1>0, <2>2
  <2>5. table.c[init + 1] \in Initializers
    BY <1>0, <2>4, ElementOfSeq DEF RuntimeTypes
  <2>6. result' \in Int
    BY <1>0, <2>2, <2>5 DEF RuntimeTypes, Initializers
  <2>7. RuntimeTypes'
    BY <1>0, <2>2, <2>3, <2>6 DEF RuntimeTypes
  <2>8. FailureIsLast'
    <3>1. CASE table.c[init + 1] = NULL
      BY <1>0, <2>2, <3>1 DEF FailureIsLast, Failed
    <3>2. CASE table.c[init + 1] # NULL
      <4>1. ran \in Seq(Function) /\ <<"c", init + 1>> \in Function
        BY <1>0 DEF RuntimeTypes, Function
      <4>2. /\ DOMAIN ran' = 1 .. (Len(ran) + 1) /\ Len(ran') = Len(ran) + 1
            /\ DOMAIN ran = 1 .. Len(ran) /\ Len(ran) \in Nat
            /\ \A i \in DOMAIN ran : ran'[i] = ran[i]
            /\ ran'[Len(ran) + 1] = <<"c", init + 1>>
        BY <2>2, <3>2, <4>1, CalledNext
      <4>3. \A i \in DOMAIN ran : ~Failed(i)
        BY <1>0, <2>2
      <4>4. ASSUME NEW i \in DOMAIN ran', ran'[i][1] = "c", table.c[ran'[i][2]] # 0
            PROVE  i = Len(ran') /\ result' # 0
        BY <2>2, <3>2, <4>2, <4>3, <4>4 DEF Failed
      <4> QED  BY <1>0, <2>2, <4>4 DEF FailureIsLast, Failed
    <3> QED  BY <3>1, <3>2
  <2> QED  BY <2>3, <2>7, <2>8 DEF RuntimeInv
<1>2. CASE InitializersDone
  <2>1. /\ phase = "c" /\ (init = Len(table.c) \/ result # 0)
        /\ init' = 0 /\ phase' = IF result = 0 THEN "cpp" ELSE "failed"
        /\ UNCHANGED <<table, result, ran>>
    BY <1>2 DEF InitializersDone
  <2>2. RuntimeTypes'
    BY <1>0, <2>1 DEF RuntimeTypes
  <2>3. /\ Passed("c") = init /\ Passed("c")' = Len(table.c) /\ init <= Len(table.c)
        /\ Passed("cpp") = 0 /\ Passed("cpp")' = 0
    BY <1>0, <2>1 DEF Passed, RuntimeTypes
  <2> QED  BY <1>0, <2>1, <2>2, <2>3, NothingPassed
<1>3. CASE RunConstructor
  <2>1. Entries("cpp") = table.cpp
    BY DEF Entries
  <2>2. /\ phase = "cpp" /\ init < Len(table.cpp)
        /\ init' = init + 1 /\ UNCHANGED <<table, phase, result>>
        /\ ran' = IF table.cpp[init + 1] = NULL THEN ran ELSE Append(ran, <<"cpp", init + 1>>)
    BY <1>3 DEF RunConstructor
  <2>3. /\ ran' \in Seq(Function)
        /\ init' \in Nat /\ init' <= Len(table.cpp)
        /\ InOrder' /\ OnlyPassed' /\ NoneMissing'
    BY <2>1, <2>2, EntryPassed
  <2>4. RuntimeTypes'
    BY <1>0, <2>2, <2>3 DEF RuntimeTypes
  <2>5. FailureIsLast'
    <3>1. CASE table.cpp[init + 1] = NULL
      BY <1>0, <2>2, <3>1 DEF FailureIsLast, Failed
    <3>2. CASE table.cpp[init + 1] # NULL
      <4>1. ran \in Seq(Function) /\ <<"cpp", init + 1>> \in Function
        BY <1>0 DEF RuntimeTypes, Function
      <4>2. /\ DOMAIN ran' = 1 .. (Len(ran) + 1)
            /\ DOMAIN ran = 1 .. Len(ran) /\ Len(ran) \in Nat
            /\ \A i \in DOMAIN ran : ran'[i] = ran[i]
            /\ ran'[Len(ran) + 1] = <<"cpp", init + 1>>
        BY <2>2, <3>2, <4>1, CalledNext
      <4>3. result = 0 /\ \A i \in DOMAIN ran : ~Failed(i)
        BY <1>0, <2>2
      <4>4. \A i \in DOMAIN ran' : ~(ran'[i][1] = "c" /\ table.c[ran'[i][2]] # 0)
        BY <4>2, <4>3 DEF Failed
      <4> QED  BY <2>2, <4>3, <4>4 DEF FailureIsLast, Failed
    <3> QED  BY <3>1, <3>2
  <2> QED  BY <2>3, <2>4, <2>5 DEF RuntimeInv
<1>4. CASE ConstructorsDone
  <2>1. /\ phase = "cpp" /\ init = Len(table.cpp) /\ phase' = "isa"
        /\ UNCHANGED <<table, init, result, ran>>
    BY <1>4 DEF ConstructorsDone
  <2>2. RuntimeTypes'
    BY <1>0, <2>1 DEF RuntimeTypes
  <2>3. /\ Passed("c") = Len(table.c) /\ Passed("c")' = Len(table.c)
        /\ Passed("cpp") = init /\ Passed("cpp")' = Len(table.cpp)
    BY <2>1 DEF Passed
  <2> QED  BY <1>0, <2>1, <2>2, <2>3, NothingPassed
<1>5. CASE InitIsa
  <2>1. phase = "isa" /\ phase' = "ready" /\ UNCHANGED <<table, init, result, ran>>
    BY <1>5 DEF InitIsa
  <2>2. RuntimeTypes'
    BY <1>0, <2>1 DEF RuntimeTypes
  <2>3. /\ Passed("c") = Len(table.c) /\ Passed("c")' = Len(table.c)
        /\ Passed("cpp") = Len(table.cpp) /\ Passed("cpp")' = Len(table.cpp)
    BY <2>1 DEF Passed
  <2> QED  BY <1>0, <2>1, <2>2, <2>3, NothingPassed
<1>6. CASE UNCHANGED runtime
  <2>1. UNCHANGED <<table, phase, init, result, ran>>
    BY <1>6 DEF runtime
  <2>2. RuntimeTypes'
    BY <1>0, <2>1 DEF RuntimeTypes
  <2>3. \A n \in {"c", "cpp"} : Passed(n)' = Passed(n) /\ Passed(n) \in Nat
    BY <1>0, <2>1 DEF Passed, RuntimeTypes
  <2> QED  BY <1>0, <2>1, <2>2, <2>3, NothingPassed
<1> QED  BY <1>1, <1>2, <1>3, <1>4, <1>5, <1>6 DEF nos_krt_init

LEMMA InvCallsInOrder == RuntimeInv => CalledInOrder
<1> SUFFICES ASSUME RuntimeInv PROVE CalledInOrder
  OBVIOUS
<1>1. \A i, j \in DOMAIN ran : i < j => Before(ran[i], ran[j])
  BY DEF RuntimeInv, InOrder
<1>2. \A i \in DOMAIN ran : ran[i][1] = "c" /\ table.c[ran[i][2]] # 0 => i = Len(ran)
  BY DEF RuntimeInv, FailureIsLast, Failed
<1>3. ASSUME phase = "ready", NEW name \in {"c", "cpp"}, NEW k \in DOMAIN Entries(name),
             Entries(name)[k] # NULL
      PROVE  \E i \in DOMAIN ran : ran[i] = <<name, k>>
  <2>1. Passed(name) = Len(Entries(name))
    BY <1>3 DEF Passed, Entries
  <2>2. DOMAIN Entries(name) = 1 .. Len(Entries(name))
    BY LenProperties DEF RuntimeInv, RuntimeTypes, Entries
  <2> QED  BY <1>3, <2>1, <2>2 DEF RuntimeInv, NoneMissing
<1> QED  BY <1>1, <1>2, <1>3 DEF CalledInOrder

-----------------------------------------------------------------------------
\* What kmain does to the run time and to the cursor is what they do alone.
LEMMA KMainRunsParts == [KNext]_kvars => [nos_krt_init]_runtime /\ [CursorStep]_cursorVars
<1>1. StartRuntime => nos_krt_init /\ UNCHANGED cursorVars
  BY DEF StartRuntime
<1>2. InitializeScreen => vtInitialize /\ UNCHANGED runtime
  BY DEF InitializeScreen
<1>3. ClearScreen => PutCursor(0) /\ UNCHANGED runtime
  BY DEF ClearScreen
<1>4. EnableCursor => vtEnableCursor /\ UNCHANGED runtime
  BY DEF EnableCursor
<1>5. PrintMap => (\E idx \in Int : PutCursor(idx)) /\ UNCHANGED runtime
  BY RegistersAssumption DEF PrintMap, Prints
<1>6. mask_all_irqs => UNCHANGED <<cursorVars, runtime>>
  BY DEF mask_all_irqs
<1>7. RuntimeStarted => UNCHANGED <<cursorVars, runtime>>
  BY DEF RuntimeStarted
<1>8. InitializeMemory => (\E idx \in Int : PutCursor(idx)) /\ UNCHANGED runtime
  BY RegistersAssumption DEF InitializeMemory, Prints
<1>9. Allocate => UNCHANGED <<cursorVars, runtime>>
  BY DEF Allocate
<1>10. AllocateRuns => UNCHANGED <<cursorVars, runtime>>
  BY DEF AllocateRuns
<1>11. AllocateReturns => (\E idx \in Int : PutCursor(idx)) /\ UNCHANGED runtime
  BY RegistersAssumption DEF AllocateReturns, Prints
<1>12. Free => (\E idx \in Int : PutCursor(idx)) /\ UNCHANGED runtime
  BY RegistersAssumption DEF Free, Prints
<1>13. UNCHANGED kvars => UNCHANGED <<cursorVars, runtime>>
  BY DEF kvars
<1> QED
  BY <1>1, <1>2, <1>3, <1>4, <1>5, <1>6, <1>7, <1>8, <1>9, <1>10, <1>11, <1>12, <1>13
  DEF KNext, CursorStep

(***************************************************************************)
(* Through all of kmain no function of the start-up tables runs twice, out *)
(* of order or after a failure, and none is missing once the run time is   *)
(* ready, whatever the tables and the values the initializers return.      *)
(***************************************************************************)
THEOREM RuntimeStartsInOrder == KSpec => []CalledInOrder
<1>1. KInit => RuntimeInv
  BY RuntimeInitIsSafe DEF KInit
<1>2. RuntimeInv /\ [KNext]_kvars => RuntimeInv'
  BY RuntimeStepIsSafe, KMainRunsParts
<1> QED
  BY <1>1, <1>2, InvCallsInOrder, PTL DEF KSpec

(***************************************************************************)
(* Through all of kmain the hardware's cursor is where the kernel has it,  *)
(* whatever registers the BIOS left, printing included.                    *)
(***************************************************************************)
THEOREM KMainCursorFollows == KSpec => []LocationFollows
<1>1. KInit => CursorInv
  BY CursorInitIsSafe DEF KInit
<1>2. CursorInv /\ [KNext]_kvars => CursorInv'
  BY CursorStepIsSafe, KMainRunsParts
<1>3. CursorInv => LocationFollows
  BY DEF CursorInv
<1> QED
  BY <1>1, <1>2, <1>3, PTL DEF KSpec

\* From the set-up of the screen on the ports answer and the cursor shows.
ShowsInv ==
    step \notin {"irqs", "runtime", "screen"} => 0 \in vga.misc /\ Shows(vga)

LEMMA ShowsStep == CursorInv /\ ShowsInv /\ [KNext]_kvars => ShowsInv'
<1> SUFFICES ASSUME CursorInv, ShowsInv, [KNext]_kvars PROVE ShowsInv'
  OBVIOUS
<1>1. CASE mask_all_irqs \/ StartRuntime \/ RuntimeStarted
  BY <1>1 DEF mask_all_irqs, StartRuntime, RuntimeStarted, Goto, ShowsInv, cursorVars
<1>2. CASE InitializeScreen
  <2> DEFINE v == SelectColorPorts(vga)
  <2>1. v \in RegisterFile /\ 0 \in v.misc
    BY SelectKeepsLocation DEF CursorInv, CursorTypeOK, SelectColorPorts, RegisterFile
  <2> HIDE DEF v
  <2>2. 0 \in Underline(v).misc /\ Shows(Underline(v))
    BY <2>1, UnderlineKeepsLocation, UnderlineShows
  <2>3. vga' = Underline(v)
    BY <1>2 DEF InitializeScreen, vtInitialize, v
  <2> QED BY <2>2, <2>3 DEF ShowsInv
<1>3. CASE ClearScreen \/ EnableCursor \/ PrintMap \/ InitializeMemory \/ AllocateReturns \/ Free
  <2>1. vtEnableCursor \/ \E idx \in Int : PutCursor(idx)
    BY <1>3, RegistersAssumption
    DEF ClearScreen, EnableCursor, PrintMap, InitializeMemory, AllocateReturns, Free, Prints
  <2>2. 0 \in vga.misc /\ Shows(vga)
    BY <1>3
    DEF ClearScreen, EnableCursor, PrintMap, InitializeMemory, AllocateReturns, Free, Goto, ShowsInv
  <2> QED BY <2>1, <2>2, ShapeStays DEF ShowsInv
<1>4. CASE Allocate \/ AllocateRuns
  <2>1. vga' = vga
    BY <1>4 DEF Allocate, AllocateRuns, cursorVars
  <2>2. step' = step \/ step \notin {"irqs", "runtime", "screen"}
    <3>1. CASE AllocateRuns
      BY <3>1 DEF AllocateRuns
    <3>2. CASE Allocate
      BY <3>2 DEF Allocate, Goto
    <3> QED BY <1>4, <3>1, <3>2
  <2> QED BY <2>1, <2>2 DEF ShowsInv
<1>5. CASE UNCHANGED kvars
  BY <1>5 DEF kvars, cursorVars, ShowsInv
<1> QED BY <1>1, <1>2, <1>3, <1>4, <1>5 DEF KNext

(***************************************************************************)
(* From the first print on the cursor can be seen, whatever shape and      *)
(* ports the BIOS left.                                                    *)
(***************************************************************************)
THEOREM KMainCursorVisible == KSpec => []CursorVisible
<1>1. KInit => CursorInv /\ ShowsInv
  BY CursorInitIsSafe DEF KInit, ShowsInv
<1>2. CursorInv /\ [KNext]_kvars => CursorInv'
  BY CursorStepIsSafe, KMainRunsParts
<1>3. ShowsInv => CursorVisible
  BY DEF ShowsInv, Shows, CursorVisible, Visible
<1> QED BY <1>1, <1>2, <1>3, ShowsStep, PTL DEF KSpec

-----------------------------------------------------------------------------
(***************************************************************************)
(* kmain and memory.  The search is that of PhysMemInv, from the bottom;   *)
(* what it may return where page 0 is free, one page beyond the run, is    *)
(* all that can go wrong on a map with room for the request.               *)
(***************************************************************************)
Early   == {"irqs", "runtime", "screen", "clear", "enable", "print", "initialize"}
Request == PagesForBytes(AllocBytes)

StepInv ==
    /\ machine \in Machines
    /\ ptr \in Nat
    /\ numPages \in Nat
    /\ hintAddress = 0
    /\ step \in Early \union {"allocate", "allocating", "free", "end"}
    /\ pc \in {"boot", "idle", "searchHint", "mark", "outOfMemory"}
    /\ pc = "boot" <=> step \in Early
    /\ pc \in {"searchHint", "mark", "outOfMemory"} => step = "allocating" /\ pageCount = Request
    /\ pc = "boot" => g_pageBitmap = 0
    /\ pc # "boot" => /\ mmap = machine.map
                      /\ g_totalMemory = TotalMemory(mmap)
                      /\ g_pageBitmap = BitmapAddr(mmap)
    /\ step \in {"allocating", "free", "end"} => numPages = Request

Block0(base) == [base |-> base, count |-> numPages]

\* The pages marked at the beginning.
Reserved == InitialUsed(mmap)

\* Nothing is allocated.
Fresh ==
    /\ live = {}
    /\ g_allocatedMemory = 0
    /\ g_pageBitmap # 0 => usedPages = Reserved

\* The block at base is, and its pages were free, or it is the one too far.
Held(base) ==
    /\ live = {Block0(base)}
    /\ g_allocatedMemory = numPages % CounterLimit
    /\ g_pageBitmap # 0 =>
        /\ usedPages = Reserved \union Pages(Block0(base))
        /\ \/ base + numPages <= EndPage /\ Pages(Block0(base)) \intersect Reserved = {}
           \/ base = 1 /\ OneTooFar(numPages, Reserved)

Outcome(base) == IF base = 0 THEN Fresh ELSE Held(base)

MemoryInv ==
    /\ step \in Early \union {"allocate"} => Fresh
    /\ step = "allocating" => IF pc = "idle" THEN Outcome(foundAddress) ELSE Fresh
    /\ step = "free" => Outcome(ptr)
    /\ MemoryRestored

KMemInv == TypeOK /\ StepInv /\ SearchInv /\ MemoryInv

-----------------------------------------------------------------------------
\* Between two calls no search is going on.
LEMMA OutOfSearch ==
  ASSUME TypeOK', hintAddress' = 0, pc' \in {"boot", "idle"}
  PROVE  SearchInv'
<1>1. EndPage' \in Nat
  <2>1. g_totalMemory' \in Nat
    BY DEF TypeOK
  <2>2. g_totalMemory' \div BitmapWordSize \in Nat
    BY <2>1, Widths, Division
  <2> QED BY <2>2, Widths DEF EndPage, EndWord
<1>2. 0 = (0 \div WordBits) * WordBits
  BY Widths
<1>3. HintInv'
  BY <1>1, <1>2 DEF HintInv
<1>4. ScanInv' /\ ResultInv'
  BY DEF ScanInv, ResultInv, Searching
<1> QED BY <1>3, <1>4 DEF SearchInv

\* What changes nothing of memory, and goes on to a step of the same kind.
LEMMA MemoryUntouched ==
  ASSUME KMemInv, UNCHANGED <<machine, locals, memory>>,
         step' = step \/ (step \in Early /\ step' \in Early)
  PROVE  KMemInv'
<1>1. /\ UNCHANGED <<mmap, g_totalMemory, g_pageBitmap, g_allocatedMemory, usedPages, pc, pageCount,
                     hintAddress, bitmap, bitmapEnd, bit, wordAddress, baseAddress, foundAddress,
                     remainingPages, live>>
      /\ UNCHANGED <<machine, ptr, numPages>>
  BY DEF memory, vars, globals, call, scan, locals
<1>2. TypeOK'
  BY <1>1 DEF KMemInv, TypeOK
<1>3. StepInv'
  BY <1>1 DEF KMemInv, StepInv, Early
<1>4. SearchInv'
  BY <1>1 DEF KMemInv, SearchInv, ScanInv, ResultInv, HintInv, Searching, WordInv, RunInv, FoundRun,
              NotFoundInv, NoRun, PassedOver, OneTooFar, Searchable, Counted, RunStart,
              CurrentPage, EndPage, EndWord, SearchStart
<1>5. EndPage' = EndPage /\ Reserved' = Reserved /\ OneTooFar(numPages, Reserved)' = OneTooFar(numPages, Reserved)
      /\ Lost' = Lost
  BY <1>1 DEF EndPage, EndWord, Reserved, OneTooFar, Searchable, Lost
<1>6. Fresh' = Fresh
  BY <1>1, <1>5 DEF Fresh
<1>7. \A base : Held(base)' = Held(base)
  BY <1>1, <1>5 DEF Held, Block0, Pages
<1>8. Outcome(ptr)' = Outcome(ptr) /\ Outcome(foundAddress)' = Outcome(foundAddress)
  BY <1>1, <1>6, <1>7 DEF Outcome
<1>9. MemoryRestored'
  <2>1. step' = "end" => step = "end"
    BY DEF Early
  <2> QED BY <1>1, <1>5, <2>1 DEF KMemInv, MemoryInv, MemoryRestored, Reserved
<1>10. MemoryInv'
  BY <1>1, <1>6, <1>8, <1>9 DEF KMemInv, MemoryInv, Early
<1> QED BY <1>2, <1>3, <1>4, <1>10 DEF KMemInv

LEMMA InitializeMemoryStep ==
  ASSUME KMemInv, InitializeMemory
  PROVE  KMemInv'
<1>1. /\ step = "initialize" /\ step' = "allocate"
      /\ machine' = machine /\ ptr' = ptr /\ numPages' = numPages
      /\ pmInitialize(machine.map)
  BY DEF InitializeMemory, Goto, locals
<1>2. machine.map \in Maps
  BY MachinesAssumption DEF KMemInv, StepInv
<1>3. TypeOK'
  BY <1>1, <1>2, InitializeType DEF KMemInv
<1>4. /\ pc' = "idle" /\ mmap' = machine.map
      /\ g_totalMemory' = TotalMemory(mmap') /\ g_pageBitmap' = BitmapAddr(mmap')
      /\ UNCHANGED <<g_allocatedMemory, hintAddress, live, foundAddress>>
      /\ BitmapAddr(mmap') > 0 => usedPages' = InitialUsed(mmap')
  BY <1>1 DEF pmInitialize, call, scan
<1>5. StepInv'
  BY <1>1, <1>4 DEF KMemInv, StepInv, Early
<1>6. SearchInv'
  BY <1>3, <1>4, OutOfSearch DEF KMemInv, StepInv
<1>7. MemoryInv'
  <2>1. Fresh
    BY <1>1 DEF KMemInv, MemoryInv, Early
  <2>2. g_pageBitmap' # 0 => BitmapAddr(mmap') > 0
    BY <1>2, <1>4, BitmapAddrType
  <2>3. Fresh'
    BY <1>4, <2>1, <2>2 DEF Fresh, Reserved
  <2> QED BY <1>1, <2>3 DEF MemoryInv, Early, MemoryRestored
<1> QED BY <1>3, <1>5, <1>6, <1>7 DEF KMemInv

\* The request begins the search, or returns at once when it is for nothing.
LEMMA AllocateKStep ==
  ASSUME KMemInv, Allocate
  PROVE  KMemInv'
<1>1. /\ step = "allocate" /\ step' = "allocating" /\ machine' = machine /\ ptr' = ptr
      /\ numPages' = Request
      /\ IF Request = 0 THEN pmAllocateNothing ELSE pmAllocatePages(Request, 0)
  BY DEF Allocate, Goto, pmAllocateBytes, Request
<1>2. Request \in Nat
  <2>1. AllocBytes \in Nat
    BY MachinesAssumption
  <2>2. PICK q \in Nat : PageAlignUp(AllocBytes) = q * PageSize /\ q * PageSize \in Nat
    BY <2>1, AlignedUp
  <2>3. PageAlignUp(AllocBytes) % PtrLimit \in Nat
    BY <2>2, Widths
  <2> QED BY <2>3, Widths, Division DEF Request, PagesForBytes
<1>3. TypeOK /\ StepInv /\ Fresh /\ pc = "idle"
  BY <1>1 DEF KMemInv, MemoryInv, StepInv, Early
<1>4. CASE Request = 0
  <2>1. /\ pmAllocateNothing /\ foundAddress' = 0
        /\ UNCHANGED <<mmap, g_totalMemory, g_pageBitmap, g_allocatedMemory, usedPages, pc, pageCount,
                       hintAddress, live>>
    BY <1>1, <1>4 DEF pmAllocateNothing, globals, call
  <2>2. TypeOK'
    BY <1>3, <2>1, AllocateNothingType
  <2>3. StepInv'
    BY <1>1, <1>2, <1>3, <2>1 DEF StepInv, Early
  <2>4. SearchInv'
    BY <1>3, <2>1, <2>2, OutOfSearch DEF StepInv
  <2>5. Fresh'
    BY <1>3, <2>1 DEF Fresh, Reserved
  <2>6. MemoryInv'
    BY <1>1, <1>3, <2>1, <2>5 DEF MemoryInv, Early, Outcome, MemoryRestored
  <2> QED BY <2>2, <2>3, <2>4, <2>6 DEF KMemInv
<1>5. CASE Request # 0
  <2>1. pmAllocatePages(Request, 0)
    BY <1>1, <1>5
  <2>2. 0 * PageSize = 0 /\ 0 % WordBits = 0 /\ Request \in Nat \ {0}
    BY <1>2, <1>5, Widths
  <2>3. /\ UNCHANGED <<mmap, g_totalMemory, g_pageBitmap, g_allocatedMemory, usedPages, live>>
        /\ pc' = "searchHint" /\ pageCount' = Request /\ hintAddress' = 0
    BY <1>3, <2>1, <2>2 DEF pmAllocatePages, globals
  <2>4. TypeOK'
    BY <1>2, <1>3, <2>1, AllocateType
  <2>5. StepInv'
    BY <1>1, <1>2, <1>3, <2>3 DEF StepInv, Early
  <2>6. SearchInv'
    BY <1>3, <2>1, <2>2, AllocateSearches
  <2>7. Fresh'
    BY <1>3, <2>3 DEF Fresh, Reserved
  <2>8. MemoryInv'
    BY <1>1, <2>3, <2>7 DEF MemoryInv, Early, MemoryRestored
  <2> QED BY <2>4, <2>5, <2>6, <2>8 DEF KMemInv
<1> QED BY <1>4, <1>5

\* The steps of the search but the last leave memory as it was.
LEMMA SearchKStep ==
  ASSUME KMemInv, UNCHANGED <<machine, step, locals>>,
         SkipFullWord \/ FreePage \/ TakenPage \/ SearchResult
  PROVE  KMemInv'
<1>1. TypeOK /\ StepInv /\ SearchInv /\ MemoryInv
  BY DEF KMemInv
<1>2. pc = "searchHint"
  BY <1>1 DEF StepInv, SkipFullWord, FreePage, TakenPage, SearchResult, SearchOver, VisitBit, Searching
<1>3. /\ UNCHANGED <<mmap, g_totalMemory, g_pageBitmap, g_allocatedMemory, usedPages, live, pageCount, hintAddress>>
      /\ pc' \in {"searchHint", "mark", "outOfMemory"}
  BY <1>2 DEF SkipFullWord, FreePage, TakenPage, SearchResult, globals, call
<1>4. UNCHANGED <<machine, step, ptr, numPages>>
  BY DEF locals
<1>5. step = "allocating" /\ pageCount = Request /\ hintAddress = 0
  BY <1>1, <1>2 DEF StepInv
<1>6. TypeOK'
  BY <1>1, CallStepType DEF CallStep
<1>7. StepInv'
  BY <1>1, <1>2, <1>3, <1>4, <1>5 DEF StepInv, Early
<1>8. SearchInv'
  BY <1>1, SearchStep
<1>9. Fresh'
  BY <1>1, <1>2, <1>3, <1>5 DEF MemoryInv, Fresh, Reserved
<1>10. MemoryInv'
  BY <1>3, <1>4, <1>5, <1>9 DEF MemoryInv, Early, MemoryRestored
<1> QED BY <1>6, <1>7, <1>8, <1>10 DEF KMemInv

LEMMA MarkKStep ==
  ASSUME KMemInv, UNCHANGED <<machine, step, locals>>, MarkFound
  PROVE  KMemInv'
<1>1. TypeOK /\ StepInv /\ SearchInv /\ MemoryInv /\ pc = "mark" /\ step = "allocating"
  BY DEF KMemInv, MarkFound, StepInv
<1>2. /\ usedPages' = usedPages \union Pages(Found)
      /\ g_allocatedMemory' = (g_allocatedMemory + pageCount) % CounterLimit
      /\ live' = live \union {Found}
      /\ pc' = "idle"
      /\ UNCHANGED <<mmap, g_totalMemory, g_pageBitmap, pageCount, hintAddress, foundAddress>>
  BY DEF MarkFound, globals, call, scan
<1>3. UNCHANGED <<machine, step, ptr, numPages>>
  BY DEF locals
<1>4. TypeOK'
  BY <1>1, CallStepType DEF CallStep
<1>5. StepInv'
  BY <1>1, <1>2, <1>3 DEF StepInv, Early
<1>6. SearchInv'
  BY <1>1, <1>2, <1>4, OutOfSearch DEF StepInv
<1>7. /\ Fresh /\ pageCount = numPages /\ pageCount \in Nat /\ foundAddress \in Nat /\ foundAddress # 0
      /\ FoundRun
  BY <1>1 DEF MemoryInv, StepInv, SearchInv, ResultInv, TypeOK
<1>8. Block0(foundAddress)' = Found /\ Reserved' = Reserved /\ EndPage' = EndPage
      /\ OneTooFar(numPages, Reserved)' = OneTooFar(numPages, Reserved)
  BY <1>2, <1>3, <1>7 DEF Block0, Found, Reserved, EndPage, EndWord, OneTooFar, Searchable
<1>9. ASSUME g_pageBitmap # 0
      PROVE  \/ foundAddress + numPages <= EndPage /\ Pages(Found) \intersect Reserved = {}
             \/ foundAddress = 1 /\ OneTooFar(numPages, Reserved)
  <2>1. usedPages = Reserved
    BY <1>7, <1>9 DEF Fresh
  <2> QED BY <1>7, <2>1 DEF FoundRun, Pages, Found
<1>10. g_allocatedMemory' = numPages % CounterLimit
  <2>1. 0 + numPages = numPages
    BY <1>7
  <2> QED BY <1>2, <1>7, <2>1 DEF Fresh
<1>11. g_pageBitmap' # 0 => usedPages' = Reserved' \union Pages(Found)
  BY <1>2, <1>7, <1>8 DEF Fresh
<1>12. Pages(Block0(foundAddress))' = Pages(Found)
  BY <1>8 DEF Pages
<1>13. live' = {Found}
  BY <1>2, <1>7 DEF Fresh
<1>14. Held(foundAddress)'
  BY <1>2, <1>3, <1>8, <1>9, <1>10, <1>11, <1>12, <1>13 DEF Held
<1>15. MemoryInv'
  BY <1>1, <1>2, <1>3, <1>7, <1>14 DEF MemoryInv, Early, Outcome, MemoryRestored
<1> QED BY <1>4, <1>5, <1>6, <1>15 DEF KMemInv

LEMMA ReturnNullKStep ==
  ASSUME KMemInv, UNCHANGED <<machine, step, locals>>, ReturnNull
  PROVE  KMemInv'
<1>1. TypeOK /\ StepInv /\ SearchInv /\ MemoryInv /\ pc = "outOfMemory" /\ step = "allocating"
  BY DEF KMemInv, ReturnNull, StepInv
<1>2. /\ pc' = "idle"
      /\ UNCHANGED <<mmap, g_totalMemory, g_pageBitmap, g_allocatedMemory, usedPages, live,
                     pageCount, hintAddress, foundAddress>>
  BY DEF ReturnNull, globals, call, scan
<1>3. UNCHANGED <<machine, step, ptr, numPages>>
  BY DEF locals
<1>4. TypeOK'
  BY <1>1, CallStepType DEF CallStep
<1>5. StepInv'
  BY <1>1, <1>2, <1>3 DEF StepInv, Early
<1>6. SearchInv'
  BY <1>1, <1>2, <1>4, OutOfSearch DEF StepInv
<1>7. Fresh /\ foundAddress = 0
  BY <1>1 DEF MemoryInv, SearchInv, ResultInv
<1>8. Fresh'
  BY <1>2, <1>7 DEF Fresh, Reserved
<1>9. MemoryInv'
  BY <1>1, <1>2, <1>3, <1>7, <1>8 DEF MemoryInv, Early, Outcome, MemoryRestored
<1> QED BY <1>4, <1>5, <1>6, <1>9 DEF KMemInv

LEMMA AllocateReturnsStep ==
  ASSUME KMemInv, AllocateReturns
  PROVE  KMemInv'
<1>1. TypeOK /\ StepInv /\ SearchInv /\ MemoryInv
  BY DEF KMemInv
<1>2. /\ pc = "idle" /\ step = "allocating" /\ step' = "free" /\ ptr' = foundAddress
      /\ UNCHANGED <<machine, numPages>>
      /\ UNCHANGED <<mmap, g_totalMemory, g_pageBitmap, g_allocatedMemory, usedPages, pc, pageCount,
                     hintAddress, bitmap, bitmapEnd, bit, wordAddress, baseAddress, foundAddress,
                     remainingPages, live>>
  BY DEF AllocateReturns, Goto, memory, vars, globals, call, scan
<1>3. TypeOK'
  BY <1>1, <1>2 DEF TypeOK
<1>4. StepInv'
  BY <1>1, <1>2 DEF StepInv, Early, TypeOK
<1>5. SearchInv'
  BY <1>1, <1>2, <1>3, OutOfSearch DEF StepInv
<1>6. Outcome(foundAddress)
  BY <1>1, <1>2 DEF MemoryInv
<1>7. EndPage' = EndPage /\ Reserved' = Reserved /\ OneTooFar(numPages, Reserved)' = OneTooFar(numPages, Reserved)
  BY <1>2 DEF EndPage, EndWord, Reserved, OneTooFar, Searchable
<1>8. Outcome(ptr)'
  BY <1>2, <1>6, <1>7 DEF Outcome, Fresh, Held, Block0, Pages
<1>9. MemoryInv'
  BY <1>2, <1>8 DEF MemoryInv, Early, MemoryRestored
<1> QED BY <1>3, <1>4, <1>5, <1>9 DEF KMemInv

\* What was counted in is counted out, however wide the counter is.
LEMMA CountedOut ==
  ASSUME NEW n \in Nat
  PROVE  ((n % CounterLimit) - n) % CounterLimit = 0
<1> DEFINE d == CounterLimit
           q == n \div d
           r == n % d
<1>1. d \in Nat \ {0}
  BY CallAssumption
<1>2. q \in Int /\ r \in Int /\ n = q * d + r
  BY <1>1
<1> HIDE DEF q, r, d
<1>3. r - n = (-q) * d
  BY <1>1, <1>2
<1>4. ((-q) * d) % d = 0
  BY <1>1, <1>2
<1> QED BY <1>3, <1>4 DEF r, d

(***************************************************************************)
(* The page one too far is memory all the same: the bitmap lies somewhere  *)
(* above the free pages.                                                   *)
(***************************************************************************)
LEMMA TooFarIsMemory ==
  ASSUME NEW m \in Maps, BitmapAddr(m) # 0, NEW n \in Nat, n > 0,
         0 .. n - 1 \intersect InitialUsed(m) = {}
  PROVE  n * PageSize < TotalMemory(m)
<1> DEFINE total == TotalMemory(m)
           addr  == BitmapAddr(m)
           size  == BitmapSize(total)
<1>1. PICK e \in UsableIn(m), q \in Nat :
           addr = q * PageSize /\ e.base < addr /\ addr + size <= UsableTop(e)
  BY BitmapPlace
<1>2. /\ UsableTop(e) \in Nat /\ UsableTop(e) <= total /\ total \in Nat
      /\ size \in Nat /\ addr \in Nat /\ e.base \in Nat
  BY UsableRegion, TotalMemoryType, SizeType, BitmapAddrType
<1>3. size > 0
  <2>1. total > 0 /\ BitmapWordSize \in Nat \ {0} /\ WordBytes \in Nat \ {0}
    <3> HIDE DEF size, total, addr
    <3> QED BY <1>1, <1>2, Widths
  <2>2. NumBitmapWords(total) \in Nat /\ total <= NumBitmapWords(total) * BitmapWordSize
    BY <1>2, <2>1, RoundedUp DEF NumBitmapWords
  <2>3. NumBitmapWords(total) # 0
    <3> SUFFICES ASSUME NumBitmapWords(total) = 0 PROVE FALSE
      OBVIOUS
    <3>1. 0 * BitmapWordSize = 0
      BY <2>1
    <3> HIDE DEF total
    <3> QED BY <1>2, <2>1, <2>2, <3>1
  <2> QED BY <2>1, <2>2, <2>3 DEF BitmapSize
<1>4. q \in InitialUsed(m)
  <2>1. addr <= q * PageSize /\ q * PageSize < addr + size
    <3> HIDE DEF size, addr
    <3> QED BY <1>1, <1>2, <1>3
  <2>2. q \in BitmapPages(addr, size, total)
    BY <2>1, BitmapPagesTouchIt
  <2> QED BY <2>2 DEF InitialUsed
<1>5. n <= q
  <2>1. q \notin 0 .. n - 1
    BY <1>4
  <2> QED BY <2>1
<1>6. n * PageSize <= q * PageSize /\ n * PageSize \in Nat
  BY <1>5, Widths, Multiples
<1> HIDE DEF size, addr, total
<1>7. n * PageSize < total
  BY <1>1, <1>2, <1>3, <1>6
<1> QED BY <1>7 DEF total

(***************************************************************************)
(* The free at the end: after a null, of the block that was free before,   *)
(* or of the one too far.                                                  *)
(***************************************************************************)
LEMMA FreedAgain ==
  ASSUME KMemInv, g_pageBitmap # 0, step = "free", step' = "end",
         UNCHANGED <<mmap, g_totalMemory, ptr, numPages>>,
         usedPages' = usedPages \ {p \in Pages(Block0(ptr)) : p * PageSize < g_totalMemory},
         g_allocatedMemory' = (g_allocatedMemory - numPages) % CounterLimit
  PROVE  /\ usedPages' = Reserved \ Lost'
         /\ g_allocatedMemory' = (IF ptr = 0 THEN -numPages ELSE 0) % CounterLimit
<1>1. TypeOK /\ StepInv /\ Outcome(ptr) /\ ptr \in Nat /\ numPages \in Nat
  BY DEF KMemInv, MemoryInv, StepInv
<1>2. /\ mmap \in Maps /\ g_totalMemory = TotalMemory(mmap) /\ BitmapAddr(mmap) # 0
      /\ g_totalMemory \in Nat
  <2>1. machine \in Machines /\ mmap = machine.map /\ g_totalMemory = TotalMemory(mmap)
        /\ g_pageBitmap = BitmapAddr(mmap)
    BY <1>1 DEF StepInv, Early
  <2>2. mmap \in Maps
    BY <2>1, MachinesAssumption
  <2> QED BY <2>1, <2>2, TotalMemoryType
<1>3. Lost' = {p \in Reserved :
                  /\ p * PageSize < g_totalMemory
                  /\ \/ ptr = 0 /\ p \in 0 .. numPages - 1
                     \/ ptr = 1 /\ p = numPages /\ OneTooFar(numPages, Reserved)}
  BY DEF Lost, Reserved, OneTooFar, Searchable, EndWord
<1>4. Pages(Block0(ptr)) = ptr .. (ptr + numPages - 1)
  BY DEF Pages, Block0
<1>5. EndPage \in Nat /\ \A p \in Nat : p < EndPage => p * PageSize < g_totalMemory
  BY <1>1, EndPageFacts
<1>6. EndPage = EndWord * WordBits /\ Searchable = 0 .. EndPage - 1
  BY DEF EndPage, Searchable
<1>7. CASE ptr = 0
  <2>1. usedPages = Reserved /\ g_allocatedMemory = 0
    BY <1>1, <1>7 DEF Outcome, Fresh
  <2>2. ptr .. (ptr + numPages - 1) = 0 .. numPages - 1 /\ 0 - numPages = -numPages
    BY <1>1, <1>7
  <2>3. usedPages' = Reserved \ {p \in 0 .. numPages - 1 : p * PageSize < g_totalMemory}
    BY <1>4, <2>1, <2>2
  <2>4. Lost' = {p \in Reserved : p * PageSize < g_totalMemory /\ p \in 0 .. numPages - 1}
    BY <1>3, <1>7
  <2>5. usedPages' = Reserved \ Lost'
    BY <2>3, <2>4
  <2>6. g_allocatedMemory' = (IF ptr = 0 THEN -numPages ELSE 0) % CounterLimit
    BY <1>7, <2>1, <2>2
  <2> QED BY <2>5, <2>6
<1>8. CASE ptr # 0
  <2>1. /\ usedPages = Reserved \union Pages(Block0(ptr))
        /\ g_allocatedMemory = numPages % CounterLimit
        /\ \/ ptr + numPages <= EndPage /\ Pages(Block0(ptr)) \intersect Reserved = {}
           \/ ptr = 1 /\ OneTooFar(numPages, Reserved)
    BY <1>1, <1>8 DEF Outcome, Held
  <2>2. g_allocatedMemory' = 0 /\ 0 % CounterLimit = 0
    <3>1. g_allocatedMemory' = 0
      BY <1>1, <2>1, CountedOut
    <3>2. CounterLimit \in Nat \ {0}
      BY CallAssumption
    <3> QED BY <3>1, <3>2
  <2>3. CASE ptr + numPages <= EndPage /\ Pages(Block0(ptr)) \intersect Reserved = {}
    <3>1. \A p \in Pages(Block0(ptr)) : p \in Nat /\ p < EndPage
      BY <1>1, <1>4, <1>5, <2>3
    <3>2. \A p \in Pages(Block0(ptr)) : p * PageSize < g_totalMemory
      BY <1>5, <3>1
    <3>3. usedPages' = Reserved
      BY <2>1, <2>3, <3>2
    <3>4. Lost' = {}
      <4> SUFFICES ASSUME ptr = 1, OneTooFar(numPages, Reserved) PROVE FALSE
        BY <1>3, <1>8
      <4>1. numPages > 1 /\ numPages \notin Searchable \ Reserved
        BY DEF OneTooFar
      <4>2. numPages \in Pages(Block0(ptr))
        BY <1>1, <1>4, <4>1
      <4>3. numPages \in Searchable
        BY <1>1, <1>6, <3>1, <4>2
      <4> QED BY <2>3, <4>1, <4>2, <4>3
    <3> QED BY <1>8, <2>2, <3>3, <3>4
  <2>4. CASE ptr = 1 /\ OneTooFar(numPages, Reserved)
    <3>1. /\ numPages > 1 /\ 0 .. numPages - 1 \subseteq Searchable
          /\ 0 .. numPages - 1 \intersect Reserved = {}
      BY <2>4 DEF OneTooFar
    <3>2. numPages * PageSize < g_totalMemory
      BY <1>1, <1>2, <3>1, TooFarIsMemory DEF Reserved
    <3>3. 1 .. numPages - 1 \subseteq 0 .. numPages - 1
      OBVIOUS
    <3>4. \A p \in 0 .. numPages - 1 : p * PageSize < g_totalMemory
      BY <1>5, <1>6, <3>1
    <3>5. Pages(Block0(ptr)) = 1 .. numPages
      BY <1>1, <1>4, <2>4
    <3>6. \A p \in 1 .. numPages : p = numPages \/ p \in 0 .. numPages - 1
      BY <1>1
    <3>7. \A p \in Pages(Block0(ptr)) : p * PageSize < g_totalMemory
      BY <3>2, <3>4, <3>5, <3>6
    <3>8. usedPages' = Reserved \ Pages(Block0(ptr))
      BY <2>1, <3>7
    <3>9. Lost' = {p \in Reserved : p = numPages}
      BY <1>3, <1>8, <2>4, <3>2
    <3>10. numPages \in 1 .. numPages
      BY <1>1, <3>1
    <3>11. \A p \in Reserved : p \in Pages(Block0(ptr)) <=> p = numPages
      BY <3>1, <3>5, <3>6, <3>10
    <3>12. usedPages' = Reserved \ Lost'
      BY <3>8, <3>9, <3>11
    <3> QED BY <1>8, <2>2, <3>12
  <2> QED BY <2>1, <2>3, <2>4
<1> QED BY <1>7, <1>8

LEMMA FreeKStep ==
  ASSUME KMemInv, Free
  PROVE  KMemInv'
<1> DEFINE block == Block0(ptr)
<1>1. TypeOK /\ StepInv /\ SearchInv /\ MemoryInv
  BY DEF KMemInv
<1>2. /\ step = "free" /\ step' = "end" /\ UNCHANGED <<machine, ptr, numPages>> /\ pmFree(block)
  BY DEF Free, Goto, locals, Block0
<1>3. /\ pc = "idle" /\ pc' = "idle"
      /\ usedPages' = usedPages \ {p \in Pages(block) : p * PageSize < g_totalMemory}
      /\ g_allocatedMemory' = (g_allocatedMemory - numPages) % CounterLimit
      /\ live' = live \ {block}
      /\ UNCHANGED <<mmap, g_totalMemory, g_pageBitmap, pageCount, hintAddress>>
  BY <1>2 DEF pmFree, globals, call, scan, Block0
<1>4. ptr \in Nat /\ numPages \in Nat /\ block \in Block
  BY <1>1 DEF StepInv, Block0, Block
<1>5. TypeOK'
  BY <1>1, <1>2, <1>4, FreeType
<1>6. StepInv'
  BY <1>1, <1>2, <1>3 DEF StepInv, Early
<1>7. SearchInv'
  BY <1>1, <1>3, <1>5, OutOfSearch DEF StepInv
<1>8. Outcome(ptr)
  BY <1>1, <1>2 DEF MemoryInv
<1>9. live' = {}
  BY <1>3, <1>8 DEF Outcome, Fresh, Held
<1>10. ASSUME g_pageBitmap' # 0
       PROVE  /\ usedPages' = Reserved \ Lost'
              /\ g_allocatedMemory' = (IF ptr = 0 THEN -numPages ELSE 0) % CounterLimit
  BY <1>2, <1>3, <1>10, FreedAgain
<1>11. Reserved = InitialUsed(mmap')
  BY <1>3 DEF Reserved
<1>12. MemoryRestored'
  BY <1>2, <1>9, <1>10, <1>11 DEF MemoryRestored
<1>13. MemoryInv'
  BY <1>2, <1>12 DEF MemoryInv, Early
<1> QED BY <1>5, <1>6, <1>7, <1>13 DEF KMemInv

LEMMA KMemInit == KInit => KMemInv
<1> SUFFICES ASSUME KInit PROVE KMemInv
  OBVIOUS
<1>1. TypeOK
  BY TypeInit DEF KInit
<1>2. StepInv /\ MemoryInv
  BY DEF KInit, Init, StepInv, MemoryInv, Early, Fresh, MemoryRestored
<1>3. SearchInv
  <2>1. EndPage \in Nat /\ 0 = (0 \div WordBits) * WordBits
    BY <1>1, EndPageFacts, Widths
  <2> QED BY <2>1 DEF KInit, Init, SearchInv, HintInv, ScanInv, ResultInv, Searching
<1> QED BY <1>1, <1>2, <1>3 DEF KMemInv

LEMMA KMemNext == KMemInv /\ [KNext]_kvars => KMemInv'
<1> SUFFICES ASSUME KMemInv, [KNext]_kvars PROVE KMemInv'
  OBVIOUS
<1>1. CASE mask_all_irqs \/ RuntimeStarted \/ InitializeScreen \/ ClearScreen \/ EnableCursor \/ PrintMap
  <2>1. /\ UNCHANGED <<machine, locals, memory>>
        /\ step \in Early /\ step' \in Early
    BY <1>1 DEF mask_all_irqs, RuntimeStarted, InitializeScreen, ClearScreen, EnableCursor, PrintMap, Goto, Early
  <2> QED BY <2>1, MemoryUntouched
<1>2. CASE StartRuntime \/ UNCHANGED kvars
  BY <1>2, MemoryUntouched DEF StartRuntime, kvars
<1>3. CASE AllocateRuns
  <2>1. CallStep /\ UNCHANGED <<machine, step, locals>>
    BY <1>3 DEF AllocateRuns
  <2>2. ~SearchFromStart
    BY DEF SearchFromStart, KMemInv, StepInv
  <2> QED BY <2>1, <2>2, SearchKStep, MarkKStep, ReturnNullKStep DEF CallStep
<1> QED BY <1>1, <1>2, <1>3, InitializeMemoryStep, AllocateKStep, AllocateReturnsStep, FreeKStep DEF KNext
-----------------------------------------------------------------------------
LEMMA KMemAlways == KSpec => []KMemInv
  BY KMemInit, KMemNext, PTL DEF KSpec

\* Once memory is initialised: the map and its totals are the machine's.
LEMMA MapRead ==
  ASSUME KMemInv, g_pageBitmap # 0
  PROVE  /\ mmap \in Maps /\ Addressable(mmap)
         /\ g_totalMemory = TotalMemory(mmap)
         /\ g_pageBitmap = BitmapAddr(mmap)
<1>1. StepInv
  BY DEF KMemInv
<1>2. pc # "boot" /\ machine \in Machines /\ mmap = machine.map
  BY <1>1 DEF StepInv
<1>3. machine.map \in Maps /\ Addressable(machine.map)
  BY <1>2, MachinesAssumption, MemoryAddressable
<1> QED BY <1>1, <1>2, <1>3 DEF StepInv

\* What pmInitialize marked stays marked, up to the last step without memory.
LEMMA ReservedStayUsed ==
  ASSUME KMemInv, g_pageBitmap # 0, NothingLost
  PROVE  InitialUsed(mmap) \subseteq usedPages
<1>1. StepInv /\ MemoryInv
  BY DEF KMemInv
<1>2. pc # "boot"
  BY <1>1 DEF StepInv
<1>3. CASE step = "end"
  BY <1>1, <1>3 DEF MemoryInv, MemoryRestored, NothingLost
<1>4. CASE step # "end"
  <2>1. Fresh \/ (\E base \in Nat : Held(base))
    BY <1>1, <1>2, <1>4 DEF MemoryInv, Outcome, StepInv, KMemInv, TypeOK
  <2> QED BY <2>1 DEF Fresh, Held, Reserved
<1> QED BY <1>3, <1>4

(***************************************************************************)
(* A page kmain's bitmap shows free is usable memory, whatever map the     *)
(* boot loader left.                                                       *)
(***************************************************************************)
THEOREM KMainMapRespected == KSpec => []MapRespected
<1>1. KMemInv => MapRespected
  <2> SUFFICES ASSUME KMemInv, NothingLost, g_pageBitmap # 0,
                      NEW p \in BitmapBits(g_totalMemory) \ usedPages
               PROVE  UsableBytes(p * PageSize, (p + 1) * PageSize)
    BY DEF MapRespected, OnlyUsableFree
  <2>1. p \in BitmapBits(TotalMemory(mmap)) \ InitialUsed(mmap)
    BY MapRead, ReservedStayUsed
  <2>2. \E e \in UsableIn(mmap) : e.base <= p * PageSize /\ (p + 1) * PageSize <= Top(e)
    BY <2>1, MapRead, FreeIsUsable
  <2> QED BY <2>2 DEF UsableBytes
<1> QED BY <1>1, KMemAlways, PTL

(***************************************************************************)
(* The bitmap lies in usable memory, keeps the pages it touches and has a  *)
(* bit for every page, while kmain runs.                                   *)
(***************************************************************************)
THEOREM KMainBitmapKept == KSpec => []BitmapKept
<1>1. KMemInv => BitmapKept
  <2> SUFFICES ASSUME KMemInv, NothingLost, g_pageBitmap # 0
               PROVE  LET size == BitmapSize(g_totalMemory)
                      IN  /\ UsableBytes(g_pageBitmap, g_pageBitmap + size)
                          /\ PagesIn(g_pageBitmap, g_pageBitmap + size) \subseteq usedPages
                          /\ PagesIn(0, g_totalMemory) \subseteq BitmapBits(g_totalMemory)
                          /\ g_pageBitmap + size <= PtrLimit - PageSize
    BY DEF BitmapKept, BitmapProtected
  <2> DEFINE size == BitmapSize(g_totalMemory)
  <2>1. mmap \in Maps /\ g_totalMemory = TotalMemory(mmap) /\ g_pageBitmap = BitmapAddr(mmap)
    BY MapRead
  <2>2. size \in Nat /\ g_pageBitmap \in Nat
    BY <2>1, SizeType, BitmapAddrType
  <2>3. UsableBytes(g_pageBitmap, g_pageBitmap + size)
    <3>1. PICK e \in UsableIn(mmap) : e.base < g_pageBitmap /\ g_pageBitmap + size <= UsableTop(e)
      BY <2>1, BitmapPlace
    <3>2. e.base \in Nat /\ UsableTop(e) \in Nat /\ Top(e) \in Nat /\ UsableTop(e) <= Top(e)
      BY <2>1, UsableRegion
    <3>3. e.base <= g_pageBitmap /\ g_pageBitmap + size <= Top(e)
      <4> HIDE DEF size
      <4> QED BY <2>2, <3>1, <3>2
    <3> QED BY <3>3 DEF UsableBytes
  <2>4. PagesIn(g_pageBitmap, g_pageBitmap + size) \subseteq usedPages
    BY <2>1, BitmapIsMarked, ReservedStayUsed
  <2>5. PagesIn(0, g_totalMemory) \subseteq BitmapBits(g_totalMemory)
    BY <2>1, BitmapCoversMemory, TotalMemoryType
  <2>6. g_pageBitmap + size <= PtrLimit - PageSize
    BY <2>1, BitmapEnds
  <2> QED BY <2>3, <2>4, <2>5, <2>6
<1> QED BY <1>1, KMemAlways, PTL

(***************************************************************************)
(* No usable memory is lost: between calls every whole page of a usable    *)
(* region is free, or part of the block kmain holds, unless it is the      *)
(* bitmap's.                                                               *)
(***************************************************************************)
THEOREM KMainUsableAllFree == KSpec => []UsableAllFree
<1>1. KMemInv => UsableAllFree
  <2> SUFFICES ASSUME KMemInv, g_pageBitmap # 0, pc = "idle",
                      NEW e \in UsableIn(mmap), Top(e) < PtrLimit,
                      NEW p \in 0 .. (PtrLimit \div PageSize),
                      e.base <= p * PageSize, (p + 1) * PageSize <= Top(e),
                      \/ (p + 1) * PageSize <= g_pageBitmap
                      \/ p * PageSize >= g_pageBitmap + BitmapSize(g_totalMemory),
                      p \in usedPages
               PROVE  p \in LivePages
    BY DEF UsableAllFree
  <2>1. mmap \in Maps /\ g_totalMemory = TotalMemory(mmap) /\ g_pageBitmap = BitmapAddr(mmap)
    BY MapRead
  <2>2. p \in Nat
    OBVIOUS
  <2>3. p \notin InitialUsed(mmap)
    BY <2>1, <2>2, UsableIsFree
  <2>4. StepInv /\ MemoryInv /\ TypeOK
    BY DEF KMemInv
  <2>6. step # "end"
    BY <2>3, <2>4 DEF MemoryInv, MemoryRestored
  <2>7. PICK base \in Nat : Fresh \/ Held(base)
    BY <2>4, <2>6 DEF MemoryInv, Outcome, StepInv, TypeOK
  <2>8. ~Fresh
    BY <2>3 DEF Fresh, Reserved
  <2>9. live = {Block0(base)} /\ p \in Pages(Block0(base))
    BY <2>3, <2>7, <2>8 DEF Held, Reserved
  <2> QED BY <2>9 DEF LivePages
<1> QED BY <1>1, KMemAlways, PTL

(***************************************************************************)
(* The bitmap is as high as its rule allows, and pmInitialize fails only   *)
(* when no place has room for it.                                          *)
(***************************************************************************)
THEOREM KMainBitmapHighest == KSpec => []BitmapHighest
<1>1. KMemInv => BitmapHighest
  <2> SUFFICES ASSUME KMemInv, pc = "idle", \A e \in UsableIn(mmap) : 2 * e.length < PtrLimit
               PROVE  g_pageBitmap = Max({0} \union
                        {a \in {p * PageSize : p \in 0 .. (PtrLimit \div PageSize)} :
                            \E e \in UsableIn(mmap) :
                                e.base < a /\ a + BitmapSize(g_totalMemory) <= UsableTop(e)})
    BY DEF BitmapHighest
  <2>1. /\ mmap = machine.map /\ machine \in Machines
        /\ g_totalMemory = TotalMemory(mmap) /\ g_pageBitmap = BitmapAddr(mmap)
    BY DEF KMemInv, StepInv
  <2>2. mmap \in Maps
    BY <2>1, MachinesAssumption
  <2> QED BY <2>1, <2>2, BitmapIsHighest DEF Room
<1> QED BY <1>1, KMemAlways, PTL

(***************************************************************************)
(* kmain is refused only where no free run is long enough, but for a       *)
(* single page of the run from page 0 on.                                  *)
(***************************************************************************)
THEOREM KMainNullIsJustified == KSpec => []RefusalJustified
<1>1. KMemInv => RefusalJustified
  BY SearchIsComplete DEF KMemInv
<1> QED BY <1>1, KMemAlways, PTL

(***************************************************************************)
(* kmain leaves memory as pmInitialize built it, but for the pages that    *)
(* its last step loses, on every map that has a bitmap.                    *)
(***************************************************************************)
THEOREM KMainMemoryRestored == KSpec => []MemoryRestored
<1>1. KMemInv => MemoryRestored
  BY DEF KMemInv, MemoryInv
<1> QED BY <1>1, KMemAlways, PTL
=============================================================================
