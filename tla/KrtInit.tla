------------------------------ MODULE KrtInit ------------------------------
(***************************************************************************)
(* The start of the C run time (KernelBase/src/krtinit.c): two tables of   *)
(* functions that the linker has put together, with gaps, and the          *)
(* instruction sets of the processor.                                      *)
(***************************************************************************)
EXTENDS FiniteSetsExt, Sequences

CONSTANTS
    NULL,           \* a gap in a table
    Tables,         \* pairs of tables: C initializers, given by what they
                    \*   return, and C++ initializers
    FloatSupport,   \* NOS_FLOAT_SUPPORT
    Processors      \* sets of features that cpuid reports

ASSUME TablesAssumption ==
    /\ Tables \subseteq [c : Seq(Int \union {NULL}), cpp : Seq({"constructor", NULL})]
    /\ NULL \notin Int
    /\ FloatSupport \in BOOLEAN

VARIABLES
    table,
    phase,          \* the table being run, "isa" after both, then "ready"; "failed",
                    \*   or "fault" for good
    init,           \* entries of that table passed
    result,         \* what the last C initializer returned
    ran,            \* the functions called so far: <<table, index>>
    isa             \* __isa_available, __isa_enabled (a set of levels), __favor

runtime == <<table, phase, init, result, ran, isa>>

RuntimeInit ==
    /\ table \in Tables
    /\ phase = "c"
    /\ init = 0
    /\ result = 0
    /\ ran = <<>>
    /\ isa = [available |-> 0, enabled |-> {}, favor |-> {}]

\* Wrong: a failure neither breaks nor ends the loop; the next result replaces it.
RunInitializer_GoesOn ==
    /\ phase = "c"
    /\ init < Len(table.c)
    /\ init' = init + 1
    /\ IF table.c[init'] = NULL
       THEN UNCHANGED <<result, ran>>
       ELSE result' = table.c[init'] /\ ran' = Append(ran, <<"c", init'>>)
    /\ UNCHANGED <<table, phase, isa>>

(***************************************************************************)
(* The __debugbreak() after a failing initializer is meant for debug       *)
(* builds, but the name tested is misspelt (NDBEUG), so every build has    *)
(* it.  The kernel loads no interrupt table: the processor faults there.   *)
(***************************************************************************)
RunInitializer ==
    /\ phase = "c"
    /\ init < Len(table.c)
    /\ result = 0
    /\ init' = init + 1
    /\ IF table.c[init'] = NULL
       THEN UNCHANGED <<result, ran>>
       ELSE result' = table.c[init'] /\ ran' = Append(ran, <<"c", init'>>)
    /\ phase' = IF result' = 0 THEN phase ELSE "fault"
    /\ UNCHANGED <<table, isa>>

InitializersDone ==
    /\ phase = "c"
    /\ init = Len(table.c) \/ result # 0
    /\ init' = 0
    /\ phase' = IF result = 0 THEN "cpp" ELSE "failed"
    /\ UNCHANGED <<table, result, ran, isa>>

RunConstructor ==
    /\ phase = "cpp"
    /\ init < Len(table.cpp)
    /\ init' = init + 1
    /\ ran' = IF table.cpp[init'] = NULL THEN ran ELSE Append(ran, <<"cpp", init'>>)
    /\ UNCHANGED <<table, phase, result, isa>>

ConstructorsDone ==
    /\ phase = "cpp"
    /\ init = Len(table.cpp)
    /\ phase' = "isa"
    /\ UNCHANGED <<table, init, result, ran, isa>>

(***************************************************************************)
(* init_isa_descriptors: the level of the last feature that is present in  *)
(* the order of the tests is available, and every present one is enabled.  *)
(***************************************************************************)
Levels == [sse2 |-> 1, sse42 |-> 2, avx |-> 3, ermsb |-> 4, avx2 |-> 5]

Tested(cpu) == IF FloatSupport THEN cpu ELSE cpu \intersect {"ermsb"}

IsaOf(cpu) ==
    LET present == {Levels[f] : f \in Tested(cpu)}
    IN  [available |-> Max({0} \union present),
         enabled   |-> {0} \union present,
         favor     |-> Tested(cpu) \intersect {"ermsb"}]

InitIsa ==
    /\ phase = "isa"
    /\ \E cpu \in Processors : isa' = IsaOf(cpu)
    /\ phase' = "ready"
    /\ UNCHANGED <<table, init, result, ran>>

nos_krt_init ==
    \/ RunInitializer
    \/ InitializersDone
    \/ RunConstructor
    \/ ConstructorsDone
    \/ InitIsa

-----------------------------------------------------------------------------
(***************************************************************************)
(* Each function of the tables is called once, in the order of its table,  *)
(* and a constructor only after every C initializer has succeeded: none is *)
(* called after a failure, and when the run time is ready none is missing. *)
(***************************************************************************)
Entries(name) == IF name = "c" THEN table.c ELSE table.cpp

Before(f, g) == IF f[1] = g[1] THEN f[2] < g[2] ELSE f[1] = "c"

CalledInOrder ==
    /\ \A i, j \in DOMAIN ran : i < j => Before(ran[i], ran[j])
    /\ \A i \in DOMAIN ran : ran[i][1] = "c" /\ table.c[ran[i][2]] # 0 => i = Len(ran)
    /\ phase = "ready" =>
           \A name \in {"c", "cpp"} : \A k \in DOMAIN Entries(name) :
               Entries(name)[k] # NULL => \E i \in DOMAIN ran : ran[i] = <<name, k>>
=============================================================================
