-------------------------- MODULE PhysMemMapProofs --------------------------
(***************************************************************************)
(* What pmInitialize makes of a memory map, proved for every map and every *)
(* width of the machine: the pages it frees are usable memory, the usable  *)
(* ones are all freed, and where the bitmap goes.  And the facts about the *)
(* steps of the allocator that need no more: types, and how a search       *)
(* advances.                                                               *)
(***************************************************************************)
EXTENDS PhysMemInv, FiniteSetTheorems, WellFoundedInduction, TLAPS

(***************************************************************************)
(* The relation "less than" on the naturals has no infinite descent.       *)
(***************************************************************************)
LEMMA LessThanWF == IsWellFoundedOn({ss \in Nat \X Nat : ss[1] < ss[2]}, Nat)
  BY NatLessThanWellFounded DEF OpToRel

(***************************************************************************)
(* Every nonempty set of naturals has a least element: the form of         *)
(* induction the proofs use, applied to the set of counterexamples.        *)
(***************************************************************************)
LEMMA LeastNat ==
  ASSUME NEW T \in SUBSET Nat, T # {}
  PROVE  \E x \in T : \A y \in T : x <= y
<1> DEFINE R == {ss \in Nat \X Nat : ss[1] < ss[2]}
<1>1. PICK x \in T : \A y \in T : <<y, x>> \notin R
  BY LessThanWF, WFMin
<1>2. \A y \in T : ~(y < x)
  BY <1>1
<1> QED BY <1>2

(***************************************************************************)
(* Max of a nonempty set of naturals with an upper bound is its largest    *)
(* element.                                                                *)
(***************************************************************************)
LEMMA MaxNat ==
  ASSUME NEW S \in SUBSET Nat, S # {}, NEW b \in Nat, \A x \in S : x <= b
  PROVE  Max(S) \in S /\ \A y \in S : y <= Max(S)
<1> DEFINE T == {b - x : x \in S}
<1>1. \A x \in S : b - x \in Nat
  OBVIOUS
<1>2. T \in SUBSET Nat /\ T # {}
  BY <1>1
<1>3. PICK t \in T : \A u \in T : t <= u
  BY <1>2, LeastNat
<1>4. PICK x \in S : t = b - x
  OBVIOUS
<1>5. \A y \in S : x >= y
  <2> TAKE y \in S
  <2>1. b - x <= b - y
    BY <1>3, <1>4
  <2> QED BY <2>1
<1> QED BY <1>5 DEF Max

(***************************************************************************)
(* A finite set of naturals has an upper bound: of the sets without one,   *)
(* take one of least cardinality and remove an element.                    *)
(***************************************************************************)
LEMMA FiniteBounded ==
  ASSUME NEW S \in SUBSET Nat, IsFiniteSet(S)
  PROVE  \E b \in Nat : \A x \in S : x <= b
<1> DEFINE Bounded(U) == \E b \in Nat : \A x \in U : x <= b
           Bad == {n \in Nat : \E U \in SUBSET Nat :
                        IsFiniteSet(U) /\ Cardinality(U) = n /\ ~Bounded(U)}
<1>1. SUFFICES ASSUME ~Bounded(S) PROVE FALSE
  OBVIOUS
<1>2. Bad \in SUBSET Nat /\ Bad # {}
  BY <1>1, FS_CardinalityType
<1>3. PICK n \in Bad : \A m \in Bad : n <= m
  BY <1>2, LeastNat
<1>4. PICK U \in SUBSET Nat : IsFiniteSet(U) /\ Cardinality(U) = n /\ ~Bounded(U)
  OBVIOUS
<1>5. PICK u \in U : TRUE
  BY <1>4
<1>6. /\ IsFiniteSet(U \ {u})
      /\ Cardinality(U \ {u}) = n - 1
      /\ n - 1 \in Nat
  <2>1. IsFiniteSet(U \ {u}) /\ Cardinality(U \ {u}) = Cardinality(U) - 1
    BY <1>4, <1>5, FS_RemoveElement
  <2>2. Cardinality(U \ {u}) \in Nat
    BY <2>1, FS_CardinalityType
  <2> QED BY <1>4, <2>1, <2>2
<1>7. Bounded(U \ {u})
  BY <1>3, <1>6
<1>8. PICK b \in Nat : \A x \in U \ {u} : x <= b
  BY <1>7
<1>9. \A x \in U : x <= b + u
  BY <1>8
<1>10. b + u \in Nat
  OBVIOUS
<1> QED BY <1>4, <1>9, <1>10

(***************************************************************************)
(* Min of two naturals is one of them and at most each.                    *)
(***************************************************************************)
LEMMA MinOfTwo ==
  ASSUME NEW a \in Nat, NEW b \in Nat
  PROVE  Min({a, b}) \in {a, b} /\ Min({a, b}) <= a /\ Min({a, b}) <= b
<1>1. \E x \in {a, b} : \A y \in {a, b} : x <= y
  OBVIOUS
<1>2. Min({a, b}) \in {a, b} /\ \A y \in {a, b} : Min({a, b}) <= y
  BY <1>1 DEF Min
<1> QED BY <1>2

(***************************************************************************)
(* Division by a positive divisor, and the multiples of the divisor.       *)
(***************************************************************************)
LEMMA Division ==
  ASSUME NEW a \in Nat, NEW d \in Nat \ {0}
  PROVE  /\ a \div d \in Nat
         /\ (a \div d) * d <= a
         /\ a < (a \div d) * d + d
         /\ a % d = 0 => a = (a \div d) * d
  OBVIOUS

LEMMA Multiples ==
  ASSUME NEW a \in Nat, NEW b \in Nat, NEW d \in Nat \ {0}
  PROVE  /\ a * d \in Nat
         /\ (a + 1) * d = a * d + d
         /\ a <= b => a * d <= b * d
         /\ a < b => a * d + d <= b * d
         /\ a * d <= b => a <= b \div d
  OBVIOUS

LEMMA EmptyRange ==
  ASSUME NEW a \in Nat, NEW n \in Nat, n > 0
  PROVE  \A p \in a .. a - n : FALSE
  OBVIOUS

LEMMA NoneBetween == \A a \in Nat : \A q \in a .. a - 1 : FALSE
  OBVIOUS

LEMMA Remainder ==
  ASSUME NEW a \in Nat, NEW d \in Nat \ {0}, a < d
  PROVE  a % d = a
  OBVIOUS

-----------------------------------------------------------------------------
LEMMA Widths ==
  /\ PageSize \in Nat \ {0}
  /\ WordBits \in Nat \ {0}
  /\ BitmapWordSize \in Nat \ {0}
  /\ BitmapWordSize = PageSize * WordBits
  /\ WordBytes \in Nat \ {0}
  /\ PtrLimit \in Nat \ {0}
<1>1. WordBits \in Nat \ {0}
  BY WidthAssumption DEF WordBits
<1>2. PageSize * WordBits \in Nat \ {0}
  BY <1>1, WidthAssumption
<1> QED BY <1>1, <1>2, WidthAssumption DEF BitmapWordSize

(***************************************************************************)
(* TotalMemory is a pointer value, for every map the kernel may get: the   *)
(* tops of its regions are finitely many, so they have a maximum.          *)
(***************************************************************************)
Tops(m) == {Top(e) : e \in {x \in m : x.regionType \in {"Usable", "AcpiReclaimable"}}}

LEMMA HighestTop ==
  ASSUME NEW m \in Maps
  PROVE  /\ Max(Tops(m) \union {0}) \in Nat
         /\ \A t \in Tops(m) : t <= Max(Tops(m) \union {0})
<1> DEFINE known == {x \in m : x.regionType \in {"Usable", "AcpiReclaimable"}}
           tops  == Tops(m)
           f     == [e \in known |-> Top(e)]
<1>1. IsFiniteSet(m) /\ m \subseteq MemMapEntry
  BY CallAssumption
<1>2. \A e \in m : Top(e) \in Nat
  BY <1>1 DEF Top, MemMapEntry
<1>3. IsFiniteSet(known)
  BY <1>1, FS_Subset
<1>4. f \in Surjection(known, tops)
  BY DEF Surjection, Tops
<1>5. IsFiniteSet(tops \union {0})
  BY <1>3, <1>4, FS_Surjection, FS_AddElement
<1>6. tops \union {0} \in SUBSET Nat
  BY <1>2 DEF Tops
<1>7. PICK b \in Nat : \A x \in tops \union {0} : x <= b
  BY <1>5, <1>6, FiniteBounded
<1> HIDE DEF tops
<1>8. Max(tops \union {0}) \in tops \union {0} /\ \A y \in tops \union {0} : y <= Max(tops \union {0})
  BY <1>6, <1>7, MaxNat
<1> QED BY <1>6, <1>8 DEF tops

LEMMA TotalMemoryIs ==
  ASSUME NEW m \in Maps
  PROVE  /\ TotalMemory(m) \in {Max(Tops(m) \union {0}), UINTPTR_MAX}
         /\ TotalMemory(m) <= Max(Tops(m) \union {0})
         /\ TotalMemory(m) <= UINTPTR_MAX
         /\ UINTPTR_MAX \in Nat
<1>1. UINTPTR_MAX \in Nat
  BY Widths DEF UINTPTR_MAX
<1>2. TotalMemory(m) = Min({Max(Tops(m) \union {0}), UINTPTR_MAX})
  BY DEF TotalMemory, Tops
<1> QED BY <1>1, <1>2, HighestTop, MinOfTwo

LEMMA TotalMemoryType ==
  ASSUME NEW m \in Maps
  PROVE  TotalMemory(m) \in Nat /\ TotalMemory(m) < PtrLimit
<1>1. /\ TotalMemory(m) \in {Max(Tops(m) \union {0}), UINTPTR_MAX}
      /\ TotalMemory(m) <= UINTPTR_MAX
      /\ UINTPTR_MAX \in Nat
  BY TotalMemoryIs
<1>2. TotalMemory(m) \in Nat
  BY <1>1, HighestTop
<1>3. UINTPTR_MAX < PtrLimit /\ PtrLimit \in Nat
  BY Widths DEF UINTPTR_MAX
<1> QED BY <1>1, <1>2, <1>3

-----------------------------------------------------------------------------
(***************************************************************************)
(* Rounding down and up, and the pages of a range of bytes.                *)
(***************************************************************************)
LEMMA RoundedUp ==
  ASSUME NEW a \in Nat, NEW d \in Nat \ {0}
  PROVE  /\ CeilDiv(a, d) \in Nat
         /\ a <= CeilDiv(a, d) * d
         /\ CeilDiv(a, d) * d < a + d
<1>1. a + d - 1 \in Nat
  OBVIOUS
<1> DEFINE q == (a + d - 1) \div d
<1>2. q \in Nat /\ q * d <= a + d - 1 /\ a + d - 1 < q * d + d
  BY <1>1, Division
<1> HIDE DEF q
<1>3. q * d \in Nat
  BY <1>2
<1>4. a <= q * d /\ q * d < a + d
  BY <1>2, <1>3
<1> QED BY <1>2, <1>4 DEF CeilDiv, q

LEMMA Ordered ==
  ASSUME NEW a \in Nat, NEW b \in Nat, NEW d \in Nat \ {0}
  PROVE  /\ a * d < b * d + d => a <= b
         /\ a * d = b * d => a = b
         /\ a * d <= b * d => a <= b
<1>1. a * d \in Nat /\ b * d \in Nat
  OBVIOUS
<1>2. b < a => b * d + d <= a * d
  BY Multiples
<1>3. a < b => a * d + d <= b * d
  BY Multiples
<1> QED BY <1>1, <1>2, <1>3

LEMMA MultipleDivides ==
  ASSUME NEW q \in Nat, NEW d \in Nat \ {0}
  PROVE  (q * d) \div d = q /\ CeilDiv(q * d, d) = q
<1>1. q * d \in Nat
  OBVIOUS
<1> DEFINE a == q * d
           f == a \div d
           c == CeilDiv(a, d)
<1>2. f \in Nat /\ f * d <= a /\ a < f * d + d
  BY <1>1, Division
<1>3. c \in Nat /\ a <= c * d /\ c * d < a + d
  BY <1>1, RoundedUp
<1>4. f = q
  <2> HIDE DEF f
  <2>1. f <= q /\ q <= f
    BY <1>2, Ordered
  <2> QED BY <1>2, <2>1
<1>5. c = q
  <2> HIDE DEF c
  <2>1. c <= q /\ q <= c
    BY <1>3, Ordered
  <2> QED BY <1>3, <2>1
<1> QED BY <1>4, <1>5

\* A range that begins with a page visits the pages that begin before its end.
LEMMA PagesInIs ==
  ASSUME NEW q \in Nat, NEW end \in Nat, NEW p \in Int
  PROVE  p \in PagesIn(q * PageSize, end) <=> q <= p /\ p * PageSize < end
<1> DEFINE d == PageSize
           c == CeilDiv(end, d)
<1>1. d \in Nat \ {0}
  BY Widths
<1>2. c \in Nat /\ end <= c * d /\ c * d < end + d
  BY <1>1, RoundedUp
<1>3. (q * d) \div d = q
  BY <1>1, MultipleDivides
<1>4. p \in PagesIn(q * PageSize, end) <=> q <= p /\ p < c
  BY <1>2, <1>3 DEF PagesIn
<1> HIDE DEF c, d
<1>5. ASSUME q <= p PROVE p < c <=> p * d < end
  <2>1. p \in Nat
    BY <1>5
  <2>2. p < c => p * d + d <= c * d
    BY <1>1, <1>2, <2>1, Multiples
  <2>3. c <= p => c * d <= p * d
    BY <1>1, <1>2, <2>1, Multiples
  <2>4. p * d \in Nat /\ c * d \in Nat
    BY <1>1, <1>2, <2>1
  <2> QED BY <1>1, <1>2, <2>1, <2>2, <2>3, <2>4
<1> QED BY <1>4, <1>5 DEF d

LEMMA AlignedDown ==
  ASSUME NEW a \in Nat
  PROVE  \E q \in Nat : /\ PageAlignDown(a) = q * PageSize
                       /\ q * PageSize \in Nat
                       /\ q * PageSize <= a
                       /\ a < q * PageSize + PageSize
<1>1. PageSize \in Nat \ {0}
  BY Widths
<1> DEFINE q == a \div PageSize
<1>2. q \in Nat /\ q * PageSize <= a /\ a < q * PageSize + PageSize
  BY <1>1, Division
<1>3. PageAlignDown(a) = q * PageSize
  BY DEF PageAlignDown
<1> HIDE DEF q
<1>4. q * PageSize \in Nat
  BY <1>1, <1>2
<1> QED BY <1>2, <1>3, <1>4

LEMMA AlignedUp ==
  ASSUME NEW a \in Nat
  PROVE  \E q \in Nat : /\ PageAlignUp(a) = q * PageSize
                       /\ q * PageSize \in Nat
                       /\ a <= q * PageSize
                       /\ q * PageSize < a + PageSize
<1>1. PageSize \in Nat \ {0}
  BY Widths
<1> DEFINE q == CeilDiv(a, PageSize)
<1>2. q \in Nat /\ a <= q * PageSize /\ q * PageSize < a + PageSize
  BY <1>1, RoundedUp
<1>3. PageAlignUp(a) = q * PageSize
  BY DEF PageAlignUp
<1> HIDE DEF q
<1>4. q * PageSize \in Nat
  BY <1>1, <1>2
<1> QED BY <1>2, <1>3, <1>4

\* The pointer range is whole pages, and whole bitmap words.
LEMMA WholePages ==
  /\ \E n \in Nat \ {0} : PtrLimit = n * PageSize
  /\ \E n \in Nat \ {0} : PtrLimit = n * BitmapWordSize /\ \E k \in Nat \ {0} : n * WordBytes = k * PageSize
<1> DEFINE S == PageSize
           B == BitsPerByte
           W == WordBytes
           k == PtrLimit \div (S * S * B)
           j == S \div W
<1>1. S \in Nat \ {0} /\ B \in Nat \ {0} /\ W \in Nat \ {0} /\ PtrLimit \in Nat \ {0}
      /\ PtrLimit % (S * S * B) = 0 /\ S % W = 0
  BY WidthAssumption
<1>2. S * S \in Nat \ {0}
  BY <1>1
<1>3. S * S * B \in Nat \ {0}
  BY <1>1, <1>2
<1>4. k \in Nat /\ PtrLimit = k * (S * S * B)
  BY <1>1, <1>3, Division
<1>5. j \in Nat /\ S = j * W
  BY <1>1, Division
<1>6. BitmapWordSize = S * (B * W)
  BY DEF BitmapWordSize, WordBits
<1> HIDE DEF S, B, W, k, j
<1>7. k # 0 /\ j # 0
  BY <1>1, <1>4, <1>5
<1>8. k * j \in Nat \ {0} /\ k * (S * B) \in Nat \ {0}
  <2>1. S * B \in Nat \ {0}
    BY <1>1
  <2> QED BY <1>1, <1>4, <1>5, <1>7, <2>1
<1>9. PtrLimit = (k * (S * B)) * S
  BY <1>1, <1>4
<1>10. PtrLimit = (k * j) * (S * (B * W))
  <2>1. (k * j) * (S * (B * W)) = k * (S * (B * (j * W)))
    BY <1>1, <1>4, <1>5
  <2>2. k * (S * (B * S)) = k * (S * S * B)
    BY <1>1, <1>4
  <2> QED BY <1>4, <1>5, <2>1, <2>2
<1>11. (k * j) * W = k * S
  BY <1>1, <1>4, <1>5
<1> QED BY <1>4, <1>6, <1>7, <1>8, <1>9, <1>10, <1>11 DEF S, W

-----------------------------------------------------------------------------
(***************************************************************************)
(* The regions of a map, and the places they have for the bitmap.          *)
(***************************************************************************)
LEMMA UsableRegion ==
  ASSUME NEW m \in Maps, NEW e \in UsableIn(m)
  PROVE  /\ e.base \in Nat /\ e.length \in Nat /\ Top(e) \in Nat /\ Top(e) = e.base + e.length
         /\ UsableTop(e) \in Nat /\ UsableTop(e) <= Top(e) /\ UsableTop(e) < PtrLimit
         /\ UsableTop(e) <= TotalMemory(m)
         /\ Top(e) < PtrLimit => Top(e) <= TotalMemory(m)
<1>1. e \in m /\ e.regionType = "Usable" /\ e \in MemMapEntry
  BY CallAssumption DEF UsableIn
<1>2. e.base \in Nat /\ e.length \in Nat /\ Top(e) \in Nat /\ Top(e) = e.base + e.length
  BY <1>1 DEF MemMapEntry, Top
<1>3. Top(e) \in Tops(m)
  BY <1>1 DEF Tops
<1>4. Top(e) <= Max(Tops(m) \union {0}) /\ Max(Tops(m) \union {0}) \in Nat
  BY <1>3, HighestTop
<1>5. UINTPTR_MAX \in Nat /\ UINTPTR_MAX = PtrLimit - 1 /\ PtrLimit \in Nat
  BY Widths DEF UINTPTR_MAX
<1>6. /\ UsableTop(e) \in {Top(e), UINTPTR_MAX}
      /\ UsableTop(e) <= Top(e) /\ UsableTop(e) <= UINTPTR_MAX
  BY <1>2, <1>5, MinOfTwo DEF UsableTop
<1>7. /\ TotalMemory(m) \in {Max(Tops(m) \union {0}), UINTPTR_MAX}
      /\ TotalMemory(m) \in Nat
  BY TotalMemoryIs, TotalMemoryType
<1> QED BY <1>2, <1>4, <1>5, <1>6, <1>7

LEMMA SizeType ==
  ASSUME NEW m \in Maps
  PROVE  BitmapSize(TotalMemory(m)) \in Nat
<1>1. TotalMemory(m) \in Nat /\ BitmapWordSize \in Nat \ {0} /\ WordBytes \in Nat
  BY TotalMemoryType, Widths
<1>2. CeilDiv(TotalMemory(m), BitmapWordSize) \in Nat
  BY <1>1, RoundedUp
<1> QED BY <1>1, <1>2 DEF BitmapSize, NumBitmapWords

\* Max of the places the code accepts, or 0.
Accepted(m) ==
  {BitmapAddrTest(e, BitmapSize(TotalMemory(m))) :
      e \in {x \in UsableIn(m) : HoldsBitmap(x, BitmapSize(TotalMemory(m)))}}

LEMMA HighestAccepted ==
  ASSUME NEW m \in Maps
  PROVE  /\ BitmapAddr(m) \in Nat
         /\ BitmapAddr(m) # 0 => BitmapAddr(m) \in Accepted(m)
         /\ \A a \in Accepted(m) : a \in Nat /\ a <= BitmapAddr(m)
<1> DEFINE size   == BitmapSize(TotalMemory(m))
           places == {x \in UsableIn(m) : HoldsBitmap(x, size)}
           addrs  == Accepted(m)
           f      == [e \in places |-> BitmapAddrTest(e, size)]
<1>1. IsFiniteSet(m)
  BY CallAssumption
<1>2. size \in Nat
  BY SizeType
<1>3. IsFiniteSet(places)
  BY <1>1, FS_Subset DEF UsableIn
<1>4. f \in Surjection(places, addrs)
  BY DEF Surjection, Accepted
<1>5. IsFiniteSet({0} \union addrs)
  <2>1. IsFiniteSet(addrs)
    BY <1>3, <1>4, FS_Surjection
  <2>2. IsFiniteSet(addrs \union {0}) /\ addrs \union {0} = {0} \union addrs
    BY <2>1, FS_AddElement
  <2> QED BY <2>2
<1>6. ASSUME NEW e \in places PROVE BitmapAddrTest(e, size) \in Nat
  <2>1. e.base \in Nat /\ UsableTop(e) \in Nat
    BY UsableRegion
  <2>2. BitmapAddrTest(e, size) \in Int
    BY <2>1, <1>2, Widths DEF BitmapAddrTest, PageAlignDown
  <2>3. BitmapAddrTest(e, size) > e.base
    BY DEF HoldsBitmap
  <2> QED BY <2>1, <2>2, <2>3
<1>7. {0} \union addrs \in SUBSET Nat
  BY <1>6 DEF Accepted
<1>8. PICK b \in Nat : \A x \in {0} \union addrs : x <= b
  BY <1>5, <1>7, FiniteBounded
<1>9. BitmapAddr(m) = Max({0} \union addrs)
  BY DEF BitmapAddr, Accepted
<1> HIDE DEF addrs
<1>10. {0} \union addrs # {}
  OBVIOUS
<1>11. Max({0} \union addrs) \in {0} \union addrs /\ \A y \in {0} \union addrs : y <= Max({0} \union addrs)
  BY <1>7, <1>8, <1>10, MaxNat
<1> QED BY <1>7, <1>9, <1>11 DEF addrs

LEMMA BitmapAddrType ==
  ASSUME NEW m \in Maps
  PROVE  BitmapAddr(m) \in Nat
BY HighestAccepted

(***************************************************************************)
(* The place for the bitmap at the top of a region: on a page, with room   *)
(* for it below the end of the region, and the highest such.               *)
(***************************************************************************)
LEMMA PlaceInRegion ==
  ASSUME NEW m \in Maps, NEW e \in UsableIn(m), NEW size \in Nat, size <= UsableTop(e)
  PROVE  \E q \in Nat :
           /\ BitmapAddrTest(e, size) = q * PageSize
           /\ q * PageSize \in Nat
           /\ q * PageSize + size <= UsableTop(e)
           /\ \A r \in Nat : r * PageSize + size <= UsableTop(e) => r * PageSize <= q * PageSize
<1>1. UsableTop(e) \in Nat /\ UsableTop(e) - size \in Nat
  BY UsableRegion
<1>2. PICK q \in Nat : /\ PageAlignDown(UsableTop(e) - size) = q * PageSize
                      /\ q * PageSize \in Nat
                      /\ q * PageSize <= UsableTop(e) - size
                      /\ UsableTop(e) - size < q * PageSize + PageSize
  BY <1>1, AlignedDown
<1>3. ASSUME NEW r \in Nat, r * PageSize + size <= UsableTop(e) PROVE r * PageSize <= q * PageSize
  <2>1. r * PageSize \in Nat
    BY Widths, Multiples
  <2>2. r * PageSize < q * PageSize + PageSize
    BY <1>1, <1>2, <1>3, <2>1, Widths
  <2>3. r <= q
    BY <2>2, Ordered, Widths
  <2> QED BY <2>3, Widths, Multiples
<1>4. q * PageSize + size <= UsableTop(e)
  BY <1>1, <1>2
<1> QED BY <1>2, <1>3, <1>4 DEF BitmapAddrTest

LEMMA AcceptedFits ==
  ASSUME NEW size \in Nat, NEW m \in Maps, NEW e \in UsableIn(m), HoldsBitmap(e, size)
  PROVE  size <= UsableTop(e)
<1>1. e.base \in Nat /\ UsableTop(e) \in Nat /\ PtrLimit \in Nat /\ UsableTop(e) > e.base
  BY UsableRegion, Widths DEF HoldsBitmap
<1>2. ToPtrdiff(UsableTop(e) - e.base) > size
  BY DEF HoldsBitmap
<1>3. ToPtrdiff(UsableTop(e) - e.base) <= UsableTop(e) - e.base
  BY <1>1 DEF ToPtrdiff
<1>4. ToPtrdiff(UsableTop(e) - e.base) \in Int
  BY <1>1 DEF ToPtrdiff
<1> QED BY <1>1, <1>2, <1>3, <1>4

\* Where the bitmap is, when there is one.
LEMMA BitmapPlace ==
  ASSUME NEW m \in Maps, BitmapAddr(m) # 0
  PROVE  \E e \in UsableIn(m), q \in Nat :
           /\ BitmapAddr(m) = q * PageSize
           /\ e.base < BitmapAddr(m)
           /\ BitmapAddr(m) + BitmapSize(TotalMemory(m)) <= UsableTop(e)
<1> DEFINE size == BitmapSize(TotalMemory(m))
<1>1. size \in Nat
  BY SizeType
<1>2. PICK e \in UsableIn(m) : HoldsBitmap(e, size) /\ BitmapAddr(m) = BitmapAddrTest(e, size)
  BY HighestAccepted DEF Accepted
<1>3. size <= UsableTop(e)
  BY <1>1, <1>2, AcceptedFits
<1>4. PICK q \in Nat : /\ BitmapAddrTest(e, size) = q * PageSize
                      /\ q * PageSize + size <= UsableTop(e)
  BY <1>1, <1>3, PlaceInRegion
<1>5. e.base < BitmapAddr(m)
  BY <1>2 DEF HoldsBitmap
<1> QED BY <1>2, <1>4, <1>5

LEMMA InitialUsedType ==
  ASSUME NEW m \in Maps
  PROVE  InitialUsed(m) \subseteq Nat
<1>1. PageAlignDown(BitmapAddr(m)) \in Nat
  BY BitmapAddrType, Widths, Division, Multiples DEF PageAlignDown
<1>2. \A end : PagesIn(PageAlignDown(BitmapAddr(m)), end) \subseteq Nat
  BY <1>1, Widths, Division DEF PagesIn
<1>3. BitmapPages(BitmapAddr(m), BitmapSize(TotalMemory(m)), TotalMemory(m)) \subseteq Nat
  BY <1>2 DEF BitmapPages
<1>4. BitmapBits(TotalMemory(m)) \subseteq Nat
  BY DEF BitmapBits
<1> QED BY <1>3, <1>4 DEF InitialUsed

-----------------------------------------------------------------------------
(***************************************************************************)
(* What ConstructBitmap clears and sets.                                   *)
(***************************************************************************)
LEMMA FreedPageIsUsable ==
  ASSUME NEW m \in Maps, Addressable(m), NEW e \in UsableIn(m), NEW p \in UnusedIn(e)
  PROVE  p \in Nat /\ e.base <= p * PageSize /\ (p + 1) * PageSize <= Top(e)
<1>1. PageSize \in Nat \ {0} /\ PtrLimit \in Nat \ {0}
  BY Widths
<1>2. e.base \in Nat /\ Top(e) \in Nat /\ Top(e) = e.base + e.length /\ e.length \in Nat
  BY UsableRegion
<1>3. PICK b \in Nat : /\ PageAlignUp(e.base) = b * PageSize
                      /\ b * PageSize \in Nat
                      /\ e.base <= b * PageSize
                      /\ b * PageSize < e.base + PageSize
  BY <1>2, AlignedUp
<1>4. PICK t \in Nat : /\ PageAlignDown(Top(e)) = t * PageSize
                      /\ t * PageSize \in Nat
                      /\ t * PageSize <= Top(e)
                      /\ Top(e) < t * PageSize + PageSize
  BY <1>2, AlignedDown
<1>5. PICK n \in Nat \ {0} : PtrLimit = n * PageSize
  BY WholePages
<1>6. /\ Top(e) <= PtrLimit
      /\ e.base <= PtrLimit - PageSize \/ Top(e) = PtrLimit
  BY DEF Addressable
<1>7. p \in Int /\ UnusedIn(e) = PagesIn((b * PageSize) % PtrLimit, (t * PageSize) % PtrLimit)
  <2>1. UnusedIn(e) = PagesIn((b * PageSize) % PtrLimit, (t * PageSize) % PtrLimit)
    BY <1>3, <1>4 DEF UnusedIn
  <2> QED BY <2>1 DEF PagesIn
<1>8. CASE Top(e) = PtrLimit
  <2>1. n * PageSize < t * PageSize + PageSize /\ t * PageSize <= n * PageSize
    BY <1>4, <1>5, <1>8
  <2>2. t * PageSize = PtrLimit
    BY <2>1, <1>1, <1>5, Ordered
  <2>3. (t * PageSize) % PtrLimit = 0
    BY <2>2, <1>1
  <2>4. (b * PageSize) % PtrLimit \in Nat
    BY <1>1, <1>3
  <2>5. ((b * PageSize) % PtrLimit) \div PageSize \in Nat
    BY <2>4, <1>1, Division
  <2>6. CeilDiv(0, PageSize) = 0
    <3>1. 0 * PageSize = 0
      BY <1>1
    <3> QED BY <3>1, <1>1, MultipleDivides
  <2>7. PagesIn((b * PageSize) % PtrLimit, 0) = {}
    BY <2>5, <2>6 DEF PagesIn
  <2> QED BY <2>3, <2>7, <1>7
<1>9. CASE Top(e) < PtrLimit
  <2>1. (t * PageSize) % PtrLimit = t * PageSize
    <3>1. t * PageSize < PtrLimit
      BY <1>1, <1>2, <1>4, <1>9
    <3> QED BY <3>1, <1>1, <1>4, Remainder
  <2>2. b * PageSize < n * PageSize
    <3>1. e.base <= n * PageSize - PageSize
      BY <1>1, <1>2, <1>5, <1>6, <1>9
    <3>2. b * PageSize < n * PageSize
      BY <3>1, <1>1, <1>2, <1>3, <1>5
    <3> QED BY <3>2
  <2>3. (b * PageSize) % PtrLimit = b * PageSize
    BY <2>2, <1>1, <1>3, <1>5, Remainder
  <2>4. b <= p /\ p * PageSize < t * PageSize
    BY <2>1, <2>3, <1>4, <1>7, PagesInIs
  <2>5. p \in Nat
    BY <2>4, <1>7
  <2>6. b * PageSize <= p * PageSize
    BY <2>4, <2>5, <1>1, Multiples
  <2>7. p * PageSize \in Nat /\ (p + 1) * PageSize = p * PageSize + PageSize
    BY <2>5, <1>1, Multiples
  <2>8. p < t
    <3>1. t <= p => t * PageSize <= p * PageSize
      BY <2>5, <1>1, Multiples
    <3> QED BY <3>1, <2>4, <2>5, <2>7, <1>4
  <2>9. p * PageSize + PageSize <= t * PageSize
    BY <2>5, <2>8, <1>1, Multiples
  <2> QED BY <2>5, <2>6, <2>7, <2>9, <1>1, <1>2, <1>3, <1>4
<1> QED BY <1>1, <1>2, <1>6, <1>8, <1>9

LEMMA UsablePageIsFreed ==
  ASSUME NEW m \in Maps, NEW e \in UsableIn(m), Top(e) < PtrLimit, NEW p \in Nat,
         e.base <= p * PageSize, (p + 1) * PageSize <= Top(e)
  PROVE  p \in UnusedIn(e)
<1>1. PageSize \in Nat \ {0} /\ PtrLimit \in Nat \ {0}
  BY Widths
<1>2. e.base \in Nat /\ Top(e) \in Nat
  BY UsableRegion
<1>3. PICK b \in Nat : /\ PageAlignUp(e.base) = b * PageSize
                      /\ b * PageSize \in Nat
                      /\ b * PageSize < e.base + PageSize
  BY <1>2, AlignedUp
<1>4. PICK t \in Nat : /\ PageAlignDown(Top(e)) = t * PageSize
                      /\ t * PageSize \in Nat
                      /\ t * PageSize <= Top(e)
                      /\ Top(e) < t * PageSize + PageSize
  BY <1>2, AlignedDown
<1>5. p * PageSize \in Nat /\ (p + 1) * PageSize = p * PageSize + PageSize
  BY <1>1, Multiples
<1>6. b <= p
  <2>1. b * PageSize < p * PageSize + PageSize
    BY <1>1, <1>2, <1>3, <1>5
  <2> QED BY <2>1, <1>1, Ordered
<1>7. p + 1 <= t
  <2>1. (p + 1) * PageSize < t * PageSize + PageSize
    BY <1>1, <1>2, <1>4, <1>5
  <2> QED BY <2>1, <1>1, Ordered
<1>8. p * PageSize + PageSize <= t * PageSize
  BY <1>1, <1>7, Multiples
<1>9. b * PageSize <= p * PageSize
  BY <1>1, <1>6, Multiples
<1>10. b * PageSize < PtrLimit /\ t * PageSize < PtrLimit
  BY <1>1, <1>2, <1>3, <1>4, <1>5, <1>8, <1>9
<1>11. (b * PageSize) % PtrLimit = b * PageSize /\ (t * PageSize) % PtrLimit = t * PageSize
  BY <1>1, <1>3, <1>4, <1>10, Remainder
<1>12. p * PageSize < t * PageSize
  BY <1>1, <1>4, <1>5, <1>8
<1>13. p \in PagesIn(b * PageSize, t * PageSize)
  BY <1>4, <1>6, <1>12, PagesInIs
<1> QED BY <1>3, <1>4, <1>11, <1>13 DEF UnusedIn

\* The bitmap ends below the last page, whether its size is whole pages or not.
LEMMA BitmapEnds ==
  ASSUME NEW m \in Maps, BitmapAddr(m) # 0
  PROVE  BitmapAddr(m) + BitmapSize(TotalMemory(m)) <= PtrLimit - PageSize
<1> DEFINE total == TotalMemory(m)
           words == NumBitmapWords(total)
           size  == BitmapSize(total)
<1>1. PageSize \in Nat \ {0} /\ BitmapWordSize \in Nat \ {0} /\ WordBytes \in Nat \ {0} /\ PtrLimit \in Nat \ {0}
      /\ WordBits \in Nat \ {0} /\ BitmapWordSize = PageSize * WordBits
  BY Widths
<1>2. PICK e \in UsableIn(m), q \in Nat :
           /\ BitmapAddr(m) = q * PageSize
           /\ BitmapAddr(m) + size <= UsableTop(e)
  BY BitmapPlace
<1>3. /\ UsableTop(e) \in Nat /\ UsableTop(e) < PtrLimit /\ UsableTop(e) <= total
      /\ total \in Nat /\ total < PtrLimit
      /\ size \in Nat /\ BitmapAddr(m) \in Nat
  BY UsableRegion, TotalMemoryType, SizeType, BitmapAddrType
<1>4. words \in Nat /\ total <= words * BitmapWordSize /\ words * BitmapWordSize < total + BitmapWordSize
  BY <1>1, <1>3, RoundedUp DEF NumBitmapWords
<1>5. PICK n \in Nat \ {0} : /\ PtrLimit = n * BitmapWordSize
                             /\ \E k \in Nat \ {0} : n * WordBytes = k * PageSize
  BY WholePages
<1>6. PICK k \in Nat \ {0} : n * WordBytes = k * PageSize
  BY <1>5
<1>7. size = words * WordBytes
  BY DEF BitmapSize
<1>8. PICK l \in Nat \ {0} : PtrLimit = l * PageSize
  BY WholePages
<1> HIDE DEF words, size, total
<1>9. words * BitmapWordSize \in Nat
  BY <1>1, <1>4
<1>10. words <= n
  <2>1. words * BitmapWordSize < n * BitmapWordSize + BitmapWordSize
    BY <1>1, <1>3, <1>4, <1>5, <1>9
  <2> QED BY <2>1, <1>1, <1>4, Ordered
<1>11. CASE words = n
  <2>1. BitmapAddr(m) + size = (q + k) * PageSize
    <3>1. (q + k) * PageSize = q * PageSize + k * PageSize
      BY <1>1
    <3> QED BY <3>1, <1>2, <1>6, <1>7, <1>11
  <2>2. (q + k) * PageSize < l * PageSize
    BY <2>1, <1>2, <1>3, <1>8
  <2>3. q + k < l
    <3>1. l <= q + k => l * PageSize <= (q + k) * PageSize
      BY <1>1, Multiples
    <3>2. (q + k) * PageSize \in Nat /\ l * PageSize \in Nat
      BY <1>1, Multiples
    <3> QED BY <2>2, <3>1, <3>2
  <2>4. (q + k) * PageSize + PageSize <= l * PageSize
    BY <2>3, <1>1, Multiples
  <2> QED BY <2>1, <2>4, <1>1, <1>3, <1>8 DEF size, total
<1>12. CASE words < n
  <2>1. words * BitmapWordSize + BitmapWordSize <= n * BitmapWordSize
    BY <1>1, <1>4, <1>12, Multiples
  <2>2. total <= PtrLimit - BitmapWordSize
    BY <2>1, <1>1, <1>3, <1>4, <1>5, <1>9
  <2>3. PageSize <= BitmapWordSize
    BY <1>1
  <2> QED BY <2>2, <2>3, <1>1, <1>2, <1>3 DEF size, total
<1> QED BY <1>4, <1>10, <1>11, <1>12

\* The pages of the bitmap are those the marking loop visits.
LEMMA BitmapPagesAre ==
  ASSUME NEW m \in Maps, BitmapAddr(m) # 0
  PROVE  BitmapPages(BitmapAddr(m), BitmapSize(TotalMemory(m)), TotalMemory(m))
            = PagesIn(BitmapAddr(m), PageAlignUp(BitmapAddr(m) + BitmapSize(TotalMemory(m))))
<1> DEFINE addr == BitmapAddr(m)
           size == BitmapSize(TotalMemory(m))
<1>1. PageSize \in Nat \ {0} /\ PtrLimit \in Nat \ {0} /\ addr \in Nat /\ size \in Nat
  BY Widths, SizeType, BitmapAddrType
<1>2. addr + size <= PtrLimit - PageSize
  BY BitmapEnds
<1>3. PICK q \in Nat : addr = q * PageSize
  BY BitmapPlace
<1>4. PageAlignDown(addr) = addr
  BY <1>1, <1>3, MultipleDivides DEF PageAlignDown
<1> HIDE DEF addr, size
<1>5. addr + size \in Nat
  BY <1>1
<1>6. PICK r \in Nat : /\ PageAlignUp(addr + size) = r * PageSize
                      /\ r * PageSize \in Nat
                      /\ addr + size <= r * PageSize
                      /\ r * PageSize < addr + size + PageSize
  BY <1>5, AlignedUp
<1>7. PageAlignUp(addr + size) % PtrLimit = PageAlignUp(addr + size)
  BY <1>1, <1>2, <1>6, Remainder
<1>8. ~(PageAlignUp(addr + size) < addr)
  BY <1>1, <1>6
<1>9. BitmapPages(addr, size, TotalMemory(m)) = PagesIn(addr, PageAlignUp(addr + size))
  BY <1>4, <1>7, <1>8 DEF BitmapPages
<1> QED BY <1>9 DEF addr, size

\* As the range of bytes of the bitmap.
LEMMA BitmapPagesTouchIt ==
  ASSUME NEW m \in Maps, BitmapAddr(m) # 0, NEW p \in Int
  PROVE  p \in BitmapPages(BitmapAddr(m), BitmapSize(TotalMemory(m)), TotalMemory(m))
            <=> BitmapAddr(m) <= p * PageSize /\ p * PageSize < BitmapAddr(m) + BitmapSize(TotalMemory(m))
<1> DEFINE addr == BitmapAddr(m)
           size == BitmapSize(TotalMemory(m))
<1>1. PageSize \in Nat \ {0} /\ addr \in Nat /\ size \in Nat
  BY Widths, SizeType, BitmapAddrType
<1>2. PICK q \in Nat : addr = q * PageSize
  BY BitmapPlace
<1>3. BitmapPages(addr, size, TotalMemory(m)) = PagesIn(addr, PageAlignUp(addr + size))
  BY BitmapPagesAre
<1> HIDE DEF addr, size
<1>4. addr + size \in Nat
  BY <1>1
<1>5. PICK r \in Nat : /\ PageAlignUp(addr + size) = r * PageSize
                      /\ r * PageSize \in Nat
                      /\ addr + size <= r * PageSize
                      /\ r * PageSize < addr + size + PageSize
  BY <1>4, AlignedUp
<1>6. p \in BitmapPages(addr, size, TotalMemory(m)) <=> q <= p /\ p * PageSize < r * PageSize
  BY <1>2, <1>3, <1>5, PagesInIs
<1>7. q <= p <=> addr <= p * PageSize
  <2>1. CASE p \in Nat
    <3>1. q <= p => q * PageSize <= p * PageSize
      BY <2>1, <1>1, Multiples
    <3>2. q * PageSize <= p * PageSize => q <= p
      BY <2>1, <1>1, Ordered
    <3> QED BY <3>1, <3>2, <1>2
  <2>2. CASE p < 0
    <3>1. (-p) \in Nat \ {0}
      BY <2>2
    <3>2. (-p) * PageSize > 0
      BY <3>1, <1>1
    <3>3. p * PageSize < 0
      BY <3>1, <3>2, <1>1
    <3> QED BY <2>2, <3>3, <1>1
  <2> QED BY <2>1, <2>2
<1>8. ASSUME q <= p PROVE p * PageSize < r * PageSize <=> p * PageSize < addr + size
  <2>1. p \in Nat
    BY <1>8
  <2>2. p * PageSize \in Nat
    BY <2>1, <1>1
  <2>3. p * PageSize < r * PageSize => p * PageSize + PageSize <= r * PageSize
    <3>1. r <= p => r * PageSize <= p * PageSize
      BY <2>1, <1>1, Multiples
    <3>2. p < r => p * PageSize + PageSize <= r * PageSize
      BY <2>1, <1>1, Multiples
    <3> QED BY <3>1, <3>2, <2>1, <2>2, <1>5
  <2> QED BY <2>2, <2>3, <1>1, <1>4, <1>5
<1>9. p \in BitmapPages(addr, size, TotalMemory(m)) <=> addr <= p * PageSize /\ p * PageSize < addr + size
  BY <1>6, <1>7, <1>8
<1> QED BY <1>9 DEF addr, size

-----------------------------------------------------------------------------
(***************************************************************************)
(* What holds once pmInitialize has read a map.                            *)
(***************************************************************************)
LEMMA FreeIsUsable ==
  ASSUME NEW m \in Maps, Addressable(m), NEW p \in BitmapBits(TotalMemory(m)) \ InitialUsed(m)
  PROVE  \E e \in UsableIn(m) : e.base <= p * PageSize /\ (p + 1) * PageSize <= Top(e)
<1>1. p \in UNION {UnusedIn(e) : e \in UsableIn(m)}
  BY DEF InitialUsed
<1>2. PICK e \in UsableIn(m) : p \in UnusedIn(e)
  BY <1>1
<1> QED BY <1>2, FreedPageIsUsable

LEMMA UsableIsFree ==
  ASSUME NEW m \in Maps, BitmapAddr(m) # 0, NEW e \in UsableIn(m), Top(e) < PtrLimit, NEW p \in Nat,
         e.base <= p * PageSize, (p + 1) * PageSize <= Top(e),
         \/ (p + 1) * PageSize <= BitmapAddr(m)
         \/ p * PageSize >= BitmapAddr(m) + BitmapSize(TotalMemory(m))
  PROVE  p \notin InitialUsed(m)
<1>1. PageSize \in Nat \ {0} /\ p * PageSize \in Nat /\ (p + 1) * PageSize = p * PageSize + PageSize
      /\ BitmapAddr(m) \in Nat /\ BitmapSize(TotalMemory(m)) \in Nat
  BY Widths, Multiples, BitmapAddrType, SizeType
<1>2. p \in UNION {UnusedIn(x) : x \in UsableIn(m)}
  BY UsablePageIsFreed
<1>3. p \notin BitmapPages(BitmapAddr(m), BitmapSize(TotalMemory(m)), TotalMemory(m))
  BY <1>1, BitmapPagesTouchIt
<1> QED BY <1>2, <1>3 DEF InitialUsed

LEMMA BitmapIsMarked ==
  ASSUME NEW m \in Maps, BitmapAddr(m) # 0
  PROVE  PagesIn(BitmapAddr(m), BitmapAddr(m) + BitmapSize(TotalMemory(m))) \subseteq InitialUsed(m)
<1> DEFINE addr == BitmapAddr(m)
           size == BitmapSize(TotalMemory(m))
<1>1. addr \in Nat /\ size \in Nat
  BY SizeType, BitmapAddrType
<1>2. PICK q \in Nat : addr = q * PageSize
  BY BitmapPlace
<1>3. ASSUME NEW p \in PagesIn(addr, addr + size) PROVE p \in BitmapPages(addr, size, TotalMemory(m))
  <2>1. p \in Int
    BY DEF PagesIn
  <2>2. addr + size \in Nat
    BY <1>1
  <2>3. q <= p /\ p * PageSize < addr + size
    <3> HIDE DEF addr, size
    <3> QED BY <1>2, <1>3, <2>1, <2>2, PagesInIs
  <2>4. p \in Nat
    BY <2>1, <2>3
  <2>5. q * PageSize <= p * PageSize
    BY <2>3, <2>4, Widths, Multiples
  <2> QED BY <1>2, <2>1, <2>3, <2>5, BitmapPagesTouchIt
<1> QED BY <1>3 DEF InitialUsed

LEMMA BitmapCoversMemory ==
  ASSUME NEW total \in Nat
  PROVE  PagesIn(0, total) \subseteq BitmapBits(total)
<1> DEFINE words == NumBitmapWords(total)
<1>1. PageSize \in Nat \ {0} /\ WordBits \in Nat \ {0} /\ BitmapWordSize \in Nat \ {0}
      /\ BitmapWordSize = PageSize * WordBits
  BY Widths
<1>2. words \in Nat /\ total <= words * BitmapWordSize
  BY <1>1, RoundedUp DEF NumBitmapWords
<1> HIDE DEF words
<1>3. words * WordBits \in Nat /\ words * BitmapWordSize = (words * WordBits) * PageSize
  BY <1>1, <1>2
<1>4. ASSUME NEW p \in PagesIn(0, total) PROVE p \in 0 .. words * WordBits - 1
  <2>1. p \in Int
    BY DEF PagesIn
  <2>2. 0 * PageSize = 0
    BY <1>1
  <2>3. 0 <= p /\ p * PageSize < total
    BY <1>4, <2>1, <2>2, PagesInIs
  <2>4. p \in Nat
    BY <2>1, <2>3
  <2> DEFINE bits == words * WordBits
  <2>5. bits <= p => bits * PageSize <= p * PageSize
    BY <1>1, <1>3, <2>4, Multiples
  <2>6. total <= bits * PageSize /\ bits \in Nat /\ p * PageSize \in Nat /\ bits * PageSize \in Nat
    BY <1>1, <1>2, <1>3, <2>4
  <2> HIDE DEF bits
  <2>7. p < bits
    BY <2>3, <2>4, <2>5, <2>6
  <2> QED BY <2>4, <2>6, <2>7 DEF bits
<1> QED BY <1>4 DEF BitmapBits, words

\* A place with room for the bitmap past the start of a usable region.
Room(m, a) ==
  \E e \in UsableIn(m) : e.base < a /\ a + BitmapSize(TotalMemory(m)) <= UsableTop(e)

LEMMA BitmapIsHighest ==
  ASSUME NEW m \in Maps, \A e \in UsableIn(m) : 2 * e.length < PtrLimit
  PROVE  BitmapAddr(m) = Max({0} \union
             {a \in {p * PageSize : p \in 0 .. (PtrLimit \div PageSize)} : Room(m, a)})
<1> DEFINE size   == BitmapSize(TotalMemory(m))
           places == {a \in {p * PageSize : p \in 0 .. (PtrLimit \div PageSize)} : Room(m, a)}
           addr   == BitmapAddr(m)
<1>1. PageSize \in Nat \ {0} /\ PtrLimit \in Nat /\ size \in Nat /\ addr \in Nat
  BY Widths, SizeType, BitmapAddrType
<1>2. addr \in {0} \union places
  <2>1. SUFFICES ASSUME addr # 0 PROVE addr \in places
    OBVIOUS
  <2>2. PICK e \in UsableIn(m), q \in Nat :
           addr = q * PageSize /\ e.base < addr /\ addr + size <= UsableTop(e)
    BY <2>1, BitmapPlace
  <2>3. UsableTop(e) \in Nat /\ UsableTop(e) < PtrLimit
    BY UsableRegion
  <2> HIDE DEF addr, size
  <2>4. q * PageSize <= PtrLimit
    BY <1>1, <2>2, <2>3
  <2>5. q <= PtrLimit \div PageSize
    BY <1>1, <2>4, Multiples
  <2>6. q \in 0 .. (PtrLimit \div PageSize)
    BY <1>1, <2>5, Division
  <2> QED BY <2>2, <2>6 DEF Room, size
<1>3. ASSUME NEW a \in places PROVE a \in Nat /\ a <= addr
  <2>1. PICK p \in 0 .. (PtrLimit \div PageSize) : a = p * PageSize
    OBVIOUS
  <2>2. PICK e \in UsableIn(m) : e.base < a /\ a + size <= UsableTop(e)
    BY DEF Room
  <2>3. p \in Nat /\ a \in Nat
    BY <1>1, <2>1
  <2>4. /\ e.base \in Nat /\ e.length \in Nat /\ UsableTop(e) \in Nat
        /\ UsableTop(e) <= e.base + e.length /\ 2 * e.length < PtrLimit
    BY UsableRegion
  <2> HIDE DEF size, addr, places
  <2>5. size <= UsableTop(e) /\ UsableTop(e) > e.base /\ UsableTop(e) - e.base > size
    BY <1>1, <2>2, <2>3, <2>4
  <2>6. ~(2 * (UsableTop(e) - e.base) >= PtrLimit)
    BY <1>1, <2>4, <2>5
  <2>7. ToPtrdiff(UsableTop(e) - e.base) > size
    BY <2>5, <2>6 DEF ToPtrdiff
  <2>8. PICK q \in Nat :
           /\ BitmapAddrTest(e, size) = q * PageSize
           /\ q * PageSize \in Nat
           /\ \A r \in Nat : r * PageSize + size <= UsableTop(e) => r * PageSize <= q * PageSize
    BY <1>1, <2>5, PlaceInRegion
  <2>9. a <= q * PageSize
    BY <2>1, <2>2, <2>3, <2>8
  <2>10. BitmapAddrTest(e, size) > e.base
    BY <2>2, <2>3, <2>4, <2>8, <2>9
  <2>11. HoldsBitmap(e, size)
    BY <2>5, <2>7, <2>10 DEF HoldsBitmap
  <2>12. BitmapAddrTest(e, size) \in Accepted(m)
    BY <2>11 DEF Accepted, size
  <2>13. BitmapAddrTest(e, size) <= addr
    BY <2>12, HighestAccepted DEF addr
  <2> QED BY <1>1, <2>3, <2>8, <2>9, <2>13
<1> HIDE DEF places, addr
<1>4. \A y \in {0} \union places : y \in Nat /\ addr >= y
  BY <1>1, <1>3
<1>5. \A x \in {0} \union places : (\A y \in {0} \union places : x >= y) => x = addr
  BY <1>1, <1>2, <1>4
<1>6. Max({0} \union places) = addr
  BY <1>2, <1>4, <1>5 DEF Max
<1> QED BY <1>6 DEF places, addr

-----------------------------------------------------------------------------
(***************************************************************************)
(* Every step of the allocator keeps the types of its variables: the bit   *)
(* index stays inside a word and no page number becomes negative.          *)
(***************************************************************************)
LEMMA EndWordType == TypeOK => EndWord \in Nat
  BY Widths, Division DEF TypeOK, EndWord

LEMMA TypeInit == Init => TypeOK
  BY Widths DEF Init, TypeOK

LEMMA InitializeType ==
  ASSUME TypeOK, NEW m \in Maps, pmInitialize(m)
  PROVE  TypeOK'
<1>1. usedPages' = InitialUsed(m) \/ usedPages' \in LowMemory
  BY DEF pmInitialize
<1>2. \A S \in LowMemory : S \subseteq Nat
  BY CallAssumption
<1>3. usedPages' \subseteq Nat
  BY <1>1, <1>2, InitialUsedType
<1> QED BY <1>3, TotalMemoryType, BitmapAddrType, Widths DEF TypeOK, pmInitialize, call, scan

LEMMA AllocateType ==
  ASSUME TypeOK, NEW count \in Nat, NEW hint \in Nat, pmAllocatePages(count, hint)
  PROVE  TypeOK'
<1> USE Widths DEF TypeOK
<1>1. /\ hintAddress' \in Nat
      /\ wordAddress' \in Nat
      /\ bitmap' \in Nat
  BY Division DEF pmAllocatePages, FindUnused
<1>2. bitmapEnd' \in Nat
  BY EndWordType DEF pmAllocatePages, FindUnused
<1> QED BY <1>1, <1>2 DEF pmAllocatePages, FindUnused, globals

LEMMA AllocateNothingType == TypeOK /\ pmAllocateNothing => TypeOK'
  BY DEF TypeOK, pmAllocateNothing, globals, call

LEMMA FreeType ==
  ASSUME TypeOK, NEW block \in Block, pmFree(block)
  PROVE  TypeOK'
<1>1. block.count \in Nat
  BY DEF Block
<1>2. g_allocatedMemory' \in Nat
  BY <1>1, CallAssumption DEF pmFree, TypeOK
<1> QED BY <1>2 DEF pmFree, globals, call, scan, TypeOK

LEMMA CallStepType ==
  ASSUME TypeOK, CallStep
  PROVE  TypeOK'
<1> USE Widths DEF TypeOK
<1>5. CASE SkipFullWord
  BY <1>5 DEF SkipFullWord, NextWord, globals, call
<1>6. CASE FreePage
  BY <1>6 DEF FreePage, NextBit, NextWord, globals, call
<1>7. CASE TakenPage
  BY <1>7 DEF TakenPage, NextBit, NextWord, globals, call
<1>8. CASE SearchFromStart
  BY <1>8, Division DEF SearchFromStart, FindUnused, globals, call
<1>9. CASE SearchResult
  BY <1>9 DEF SearchResult, globals, call, scan
<1>10. CASE MarkFound
  <2>1. g_allocatedMemory' \in Nat
    BY <1>10, CallAssumption DEF MarkFound
  <2>2. Found \in Block
    BY DEF Found, Block
  <2>3. Pages(Found) \subseteq Nat
    BY DEF Found, Pages
  <2> QED BY <1>10, <2>1, <2>2, <2>3 DEF MarkFound, globals, call, scan
<1>11. CASE ReturnNull
  BY <1>11 DEF ReturnNull, globals, call, scan
<1> QED BY <1>5, <1>6, <1>7, <1>8, <1>9, <1>10, <1>11 DEF CallStep

-----------------------------------------------------------------------------
(***************************************************************************)
(* The arithmetic of the search: where it starts, how it advances, and     *)
(* that every page below EndPage lies below g_totalMemory.                 *)
(***************************************************************************)
LEMMA EndPageFacts ==
  ASSUME TypeOK
  PROVE  /\ EndPage \in Nat
         /\ \A p \in Nat : p < EndPage => p * PageSize < g_totalMemory
<1>1. EndWord \in Nat /\ EndWord * BitmapWordSize <= g_totalMemory
  BY Widths, Division DEF TypeOK, EndWord
<1>2. EndPage \in Nat /\ EndPage * PageSize = EndWord * BitmapWordSize
  BY <1>1, Widths DEF EndPage
<1>3. ASSUME NEW p \in Nat, p < EndPage PROVE p * PageSize < g_totalMemory
  <2>1. p * PageSize + PageSize <= EndPage * PageSize
    BY <1>2, <1>3, Widths, Multiples
  <2>2. p * PageSize \in Nat
    BY Widths, Multiples
  <2> QED BY <1>1, <1>2, <2>1, <2>2, Widths DEF TypeOK
<1> QED BY <1>2, <1>3

LEMMA PageType == TypeOK => CurrentPage \in Nat
  BY Widths DEF TypeOK, CurrentPage

LEMMA NextBitAdvances ==
  ASSUME TypeOK, NextBit
  PROVE  /\ CurrentPage' = CurrentPage + 1
         /\ wordAddress = bitmap * WordBits => wordAddress' = bitmap' * WordBits
<1>1. (bitmap + 1) * WordBits = bitmap * WordBits + WordBits
  BY Widths, Multiples DEF TypeOK
<1>2. CASE bit = WordBits - 1
  <2>1. bitmap' = bitmap + 1 /\ wordAddress' = wordAddress + WordBits /\ bit' = 0
    BY <1>2 DEF NextBit, NextWord
  <2>2. bitmap' * WordBits = bitmap * WordBits + WordBits
    BY <1>1, <2>1
  <2>3. CurrentPage' = bitmap' * WordBits + bit' /\ CurrentPage = bitmap * WordBits + bit
    BY DEF CurrentPage
  <2>4. bitmap * WordBits \in Nat
    BY Widths, Multiples DEF TypeOK
  <2> QED BY <1>2, <2>1, <2>2, <2>3, <2>4, Widths
<1>3. CASE bit # WordBits - 1
  <2>1. bit' = bit + 1 /\ bitmap' = bitmap /\ wordAddress' = wordAddress
    BY <1>3 DEF NextBit
  <2>2. bitmap * WordBits \in Nat /\ bit \in Nat
    BY Widths, Multiples DEF TypeOK
  <2> QED BY <2>1, <2>2 DEF CurrentPage
<1> QED BY <1>2, <1>3

LEMMA NextWordAdvances ==
  ASSUME TypeOK, NextWord, bit = 0
  PROVE  /\ CurrentPage' = CurrentPage + WordBits
         /\ wordAddress = bitmap * WordBits => wordAddress' = bitmap' * WordBits
<1>1. (bitmap + 1) * WordBits = bitmap * WordBits + WordBits
  BY Widths, Multiples DEF TypeOK
<1> QED BY <1>1, Widths DEF TypeOK, CurrentPage, NextWord

(***************************************************************************)
(* Visiting a bit stays inside the words the search may read.              *)
(***************************************************************************)
LEMMA WordInvStep ==
  ASSUME TypeOK, WordInv, VisitBit, NextBit, UNCHANGED <<pc, call, bitmapEnd, globals>>
  PROVE  WordInv'
<1>1. bitmap < bitmapEnd
  BY DEF VisitBit, LoopContinues, WordInv
<1>2. bitmap' <= bitmapEnd /\ (bit' # 0 => bitmap' < bitmapEnd)
  BY <1>1 DEF NextBit, NextWord, TypeOK
<1>3. SearchStart' = SearchStart /\ EndWord' = EndWord
  BY DEF SearchStart, EndWord, call, globals
<1> QED BY <1>1, <1>2, <1>3, NextBitAdvances, PageType
        DEF WordInv, call, globals, SearchStart, TypeOK

-----------------------------------------------------------------------------
(***************************************************************************)
(* The search, whatever the request: a free page, a page in use and a full *)
(* word keep the loop invariant.                                           *)
(***************************************************************************)
\* What a step of the loop leaves alone.
LoopFrame == UNCHANGED <<pc, pageCount, hintAddress, usedPages, bitmapEnd, globals>>

LEMMA FrameStays ==
  ASSUME LoopFrame
  PROVE  /\ SearchStart' = SearchStart /\ EndWord' = EndWord /\ EndPage' = EndPage
         /\ HintInv' = HintInv
         /\ Searching' = Searching
         /\ NoRun(hintAddress, EndPage)' = NoRun(hintAddress, EndPage)
         /\ OneTooFar(pageCount, usedPages)' = OneTooFar(pageCount, usedPages)
  BY DEF LoopFrame, SearchStart, EndWord, EndPage, globals, HintInv, Searching, NoRun,
         PassedOver, OneTooFar, Searchable

LEMMA SearchBounds ==
  ASSUME TypeOK, SearchInv, Searching
  PROVE  /\ CurrentPage \in Nat /\ pageCount \in Nat /\ pageCount > 0
         /\ SearchStart \in Nat /\ EndPage \in Nat /\ EndWord \in Nat
         /\ foundAddress \in Nat /\ remainingPages \in Int
         /\ Counted \in Int /\ Counted >= 0 /\ RunStart \in Int
         /\ SearchStart <= RunStart /\ RunStart = CurrentPage - Counted
         /\ WordInv /\ RunInv /\ HintInv
<1>1. WordInv /\ RunInv /\ HintInv
  BY DEF SearchInv, ScanInv
<1>2. /\ CurrentPage \in Nat /\ pageCount \in Nat /\ pageCount > 0 /\ foundAddress \in Nat
      /\ remainingPages \in Int /\ SearchStart \in Nat
  BY <1>1, PageType DEF WordInv, TypeOK, SearchStart
<1>3. EndPage \in Nat /\ EndWord \in Nat
  BY EndPageFacts, EndWordType
<1>4. Counted \in Int /\ RunStart \in Int
  BY <1>2 DEF Counted, RunStart
<1> QED BY <1>1, <1>2, <1>3, <1>4 DEF RunInv, RunStart

\* A bit is visited in a word before EndWord.
LEMMA VisitedBelowEnd ==
  ASSUME TypeOK, SearchInv, VisitBit
  PROVE  CurrentPage + 1 <= EndPage
<1>1. WordInv /\ HintInv /\ EndWord \in Nat /\ Searching
  BY SearchBounds DEF VisitBit
<1>2. bitmap < bitmapEnd
  BY <1>1 DEF VisitBit, LoopContinues, WordInv
<1>3. hintAddress \div WordBits <= EndWord /\ hintAddress \div WordBits \in Nat
  <2>1. hintAddress \div WordBits \in Nat /\ hintAddress \in Nat
    BY Widths, Division DEF TypeOK
  <2> DEFINE h == hintAddress \div WordBits
  <2>2. h * WordBits <= EndWord * WordBits
    BY <1>1 DEF HintInv, EndPage
  <2> QED BY <1>1, <2>1, <2>2, Widths, Ordered
<1>4. bitmap < EndWord
  BY <1>1, <1>2, <1>3 DEF WordInv, TypeOK
<1>5. bitmap \in Nat /\ bit \in 0 .. WordBits - 1
  BY DEF TypeOK
<1>6. bitmap * WordBits + WordBits <= EndWord * WordBits
  BY <1>1, <1>4, <1>5, Widths, Multiples
<1>7. bitmap * WordBits \in Nat /\ EndWord * WordBits \in Nat
  BY <1>1, <1>5, Widths
<1> QED BY <1>5, <1>6, <1>7, Widths DEF EndPage, CurrentPage

LEMMA FreePageScan ==
  ASSUME TypeOK, SearchInv, FreePage
  PROVE  SearchInv'
<1> DEFINE c == CurrentPage
           n == pageCount
           k == Counted
           s == RunStart
           lo == SearchStart
<1>1. Searching /\ VisitBit /\ NextBit /\ LoopFrame
  BY DEF FreePage, VisitBit, LoopFrame, call
<1>2. /\ c \in Nat /\ n \in Nat /\ n > 0 /\ k \in Int /\ k >= 0 /\ s \in Int /\ s = c - k
      /\ lo \in Nat /\ lo <= s
      /\ remainingPages \in Int /\ k = n - remainingPages
      /\ foundAddress \in Nat /\ baseAddress \in Nat
      /\ EndPage \in Nat /\ WordInv /\ RunInv
  BY <1>1, SearchBounds DEF Counted, TypeOK
<1>3. c \notin usedPages /\ wordAddress + bit = c
  BY <1>2 DEF FreePage, WordInv, CurrentPage
<1>4. CurrentPage' = c + 1 /\ c + 1 <= EndPage
  BY <1>1, NextBitAdvances, VisitedBelowEnd
<1>5. WordInv'
  BY <1>1, <1>2, WordInvStep DEF LoopFrame, call
<1>6. /\ baseAddress' = (IF baseAddress = 0 THEN c ELSE baseAddress)
      /\ remainingPages' = remainingPages - 1
      /\ foundAddress' = (IF remainingPages' = 0 THEN baseAddress' ELSE foundAddress)
  BY <1>3 DEF FreePage
<1>7. /\ pageCount' = n /\ usedPages' = usedPages /\ pc' = pc /\ hintAddress' = hintAddress
      /\ SearchStart' = lo /\ EndPage' = EndPage
  BY <1>1, FrameStays DEF LoopFrame
<1>8. Counted' = k + 1 /\ RunStart' = s
  BY <1>2, <1>4, <1>6, <1>7 DEF Counted, RunStart
<1>9. /\ \A q \in s .. c - 1 : q \notin usedPages
      /\ s = lo \/ s - 1 \in usedPages
      /\ baseAddress = IF k = 0 THEN 0 ELSE IF s > 0 THEN s ELSE IF k = 1 THEN 0 ELSE 1
  BY <1>2 DEF RunInv
<1>10. lo = 0 /\ s = 0 => \A q \in 0 .. c : q \notin usedPages
  BY <1>2, <1>3, <1>9
<1>11. foundAddress # 0 => lo <= foundAddress /\ FoundRun
  BY <1>1 DEF SearchInv, ScanInv
<1>12. foundAddress = 0 => (k < n \/ (n = 1 /\ s = 0)) /\ NoRun(lo, c)
  BY <1>1 DEF SearchInv, ScanInv, NotFoundInv
<1>13. Searchable = 0 .. EndPage - 1
  BY DEF Searchable, EndPage
<1> HIDE DEF c, n, k, s, lo
<1>14. baseAddress' = IF s > 0 THEN s ELSE IF k + 1 = 1 THEN 0 ELSE 1
  BY <1>2, <1>6, <1>9
<1>15. \A q \in s .. c : q \notin usedPages
  BY <1>2, <1>3, <1>9
<1>16. RunInv'
  <2>1. k + 1 >= 0 /\ (c + 1) - 1 = c /\ k + 1 # 0
    BY <1>2
  <2> QED BY <1>2, <1>4, <1>7, <1>8, <1>9, <1>14, <1>15, <2>1 DEF RunInv
<1>17. ASSUME foundAddress' # 0 PROVE lo <= foundAddress' /\ FoundRun'
  <2>1. CASE remainingPages' = 0
    <3>1. foundAddress' = baseAddress' /\ k + 1 = n
      BY <1>2, <1>6, <2>1
    <3>2. CASE s > 0
      <4>1. foundAddress' = s /\ s + n = c + 1
        BY <1>2, <1>14, <3>1, <3>2
      <4>2. \A q \in s .. s + n - 1 : q \notin usedPages
        BY <1>2, <1>15, <4>1
      <4> QED BY <1>2, <1>4, <1>7, <4>1, <4>2 DEF FoundRun
    <3>3. CASE s = 0
      <4>1. foundAddress' = 1 /\ n > 1 /\ n = c + 1 /\ lo = 0
        BY <1>2, <1>14, <1>17, <3>1, <3>3
      <4>2. 0 .. n - 1 \subseteq Searchable \ usedPages
        BY <1>2, <1>4, <1>13, <1>15, <3>3, <4>1
      <4>3. CASE n \in Searchable \ usedPages
        <5>1. 1 + n <= EndPage
          BY <1>2, <1>13, <4>3
        <5>2. \A q \in 1 .. 1 + n - 1 : q \notin usedPages
          BY <1>2, <4>2, <4>3
        <5> QED BY <1>7, <4>1, <5>1, <5>2 DEF FoundRun
      <4>4. CASE n \notin Searchable \ usedPages
        <5>1. OneTooFar(n, usedPages)
          BY <4>1, <4>2, <4>4 DEF OneTooFar
        <5>2. OneTooFar(pageCount, usedPages)'
          BY <1>1, <5>1, FrameStays DEF n
        <5> QED BY <4>1, <5>2 DEF FoundRun
      <4> QED BY <4>3, <4>4
    <3> QED BY <1>2, <3>2, <3>3
  <2>2. CASE remainingPages' # 0
    <3>1. foundAddress' = foundAddress
      BY <1>6, <2>2
    <3>2. lo <= foundAddress /\ FoundRun
      BY <1>11, <1>17, <3>1
    <3>3. OneTooFar(pageCount, usedPages)' = OneTooFar(pageCount, usedPages)
      BY <1>1, FrameStays
    <3> QED BY <1>7, <3>1, <3>2, <3>3 DEF FoundRun, n
  <2> QED BY <2>1, <2>2
<1>18. ASSUME foundAddress' = 0 PROVE NotFoundInv'
  <2>1. \/ foundAddress = 0 /\ (k + 1 < n \/ (n = 1 /\ s = 0))
        \/ n = 1 /\ s = 0 /\ c = 0 /\ lo = 0
    <3>1. CASE remainingPages' = 0
      BY <1>2, <1>6, <1>14, <1>18, <3>1
    <3>2. CASE remainingPages' # 0
      BY <1>2, <1>6, <1>12, <1>18, <3>2
    <3> QED BY <3>1, <3>2
  <2>2. k + 1 < n \/ (n = 1 /\ s = 0)
    BY <2>1
  <2>3. ASSUME NEW p \in lo .. c + 1 - n
        PROVE  \/ \E q \in p .. p + n - 1 : q \in usedPages
               \/ lo = 0 /\ PassedOver(p)
    <3>1. CASE p \in lo .. c - n
      <4>1. foundAddress = 0
        BY <1>2, <2>1, <3>1
      <4> QED BY <1>12, <3>1, <4>1 DEF NoRun, n
    <3>2. CASE p = c + 1 - n /\ k + 1 < n
      <4>1. s # lo
        BY <1>2, <2>3, <3>2
      <4>2. s - 1 \in p .. p + n - 1
        BY <1>2, <2>3, <3>2
      <4> QED BY <1>9, <4>1, <4>2
    <3>3. CASE p = c + 1 - n /\ n = 1 /\ s = 0
      <4>1. lo = 0 /\ p = c
        BY <1>2, <3>3
      <4>2. 0 .. p \intersect usedPages = {}
        BY <1>10, <3>3, <4>1
      <4> QED BY <3>3, <4>1, <4>2 DEF PassedOver, n
    <3> QED BY <1>2, <2>2, <2>3, <3>1, <3>2, <3>3
  <2>4. NoRun(SearchStart, CurrentPage)'
    <3>1. ASSUME NEW p \in SearchStart' .. CurrentPage' - pageCount'
          PROVE  \/ \E q \in p .. p + pageCount' - 1 : q \in usedPages'
                 \/ SearchStart' = 0 /\ PassedOver(p)'
      <4>1. PassedOver(p)' <=> PassedOver(p)
        BY <1>7 DEF PassedOver, n
      <4> QED BY <1>2, <1>4, <1>7, <2>3, <3>1, <4>1
    <3> QED BY <3>1 DEF NoRun
  <2>5. (Counted < pageCount \/ (pageCount = 1 /\ RunStart = 0))'
    BY <1>7, <1>8, <2>2
  <2> QED BY <2>4, <2>5 DEF NotFoundInv
<1>19. (pc = "searchStart" => hintAddress # 0 /\ NoRun(hintAddress, EndPage))'
  BY <1>1, <1>7, FrameStays DEF SearchInv, ScanInv
<1>20. HintInv' /\ ResultInv'
  BY <1>1, <1>7, FrameStays DEF SearchInv, ResultInv, Searching
<1>21. ScanInv'
  BY <1>5, <1>7, <1>16, <1>17, <1>18, <1>19 DEF ScanInv
<1> QED BY <1>20, <1>21 DEF SearchInv

LEMMA TakenPageScan ==
  ASSUME TypeOK, SearchInv, TakenPage
  PROVE  SearchInv'
<1> DEFINE c == CurrentPage
           n == pageCount
           lo == SearchStart
<1>1. Searching /\ VisitBit /\ NextBit /\ LoopFrame
  BY DEF TakenPage, VisitBit, LoopFrame, call
<1>2. /\ c \in Nat /\ n \in Nat /\ n > 0 /\ lo \in Nat /\ lo <= c
      /\ foundAddress \in Nat /\ EndPage \in Nat /\ WordInv
  BY <1>1, SearchBounds DEF WordInv
<1>3. c \in usedPages /\ baseAddress' = 0 /\ remainingPages' = n /\ foundAddress' = foundAddress
  BY DEF TakenPage
<1>4. CurrentPage' = c + 1
  BY <1>1, NextBitAdvances
<1>5. WordInv'
  BY <1>1, <1>2, WordInvStep DEF LoopFrame, call
<1>6. /\ pageCount' = n /\ usedPages' = usedPages /\ pc' = pc /\ hintAddress' = hintAddress
      /\ SearchStart' = lo /\ EndPage' = EndPage
  BY <1>1, FrameStays DEF LoopFrame
<1>7. foundAddress # 0 => lo <= foundAddress /\ FoundRun
  BY <1>1 DEF SearchInv, ScanInv
<1>8. foundAddress = 0 => NoRun(lo, c)
  BY <1>1 DEF SearchInv, ScanInv, NotFoundInv
<1> HIDE DEF c, n, lo
<1>9. Counted' = 0 /\ RunStart' = c + 1
  BY <1>2, <1>3, <1>4, <1>6 DEF Counted, RunStart
<1>10. RunInv'
  <2>1. (c + 1) - 1 = c /\ lo <= c + 1 /\ \A q \in c + 1 .. c : FALSE
    BY <1>2
  <2> QED BY <1>2, <1>3, <1>4, <1>6, <1>9, <2>1 DEF RunInv
<1>11. ASSUME foundAddress' # 0 PROVE lo <= foundAddress' /\ FoundRun'
  <2>1. OneTooFar(pageCount, usedPages)' = OneTooFar(pageCount, usedPages)
    BY <1>1, FrameStays
  <2> QED BY <1>3, <1>6, <1>7, <1>11, <2>1 DEF FoundRun, n
<1>12. ASSUME foundAddress' = 0 PROVE NotFoundInv'
  <2>1. ASSUME NEW p \in lo .. c + 1 - n
        PROVE  \/ \E q \in p .. p + n - 1 : q \in usedPages
               \/ lo = 0 /\ PassedOver(p)
    <3>1. CASE p \in lo .. c - n
      BY <1>3, <1>8, <1>12, <3>1 DEF NoRun, n
    <3>2. CASE p = c + 1 - n
      <4>1. c \in p .. p + n - 1
        BY <1>2, <2>1, <3>2
      <4> QED BY <1>3, <4>1 DEF c
    <3> QED BY <1>2, <2>1, <3>1, <3>2
  <2>2. NoRun(SearchStart, CurrentPage)'
    <3>1. ASSUME NEW p \in SearchStart' .. CurrentPage' - pageCount'
          PROVE  \/ \E q \in p .. p + pageCount' - 1 : q \in usedPages'
                 \/ SearchStart' = 0 /\ PassedOver(p)'
      <4>1. PassedOver(p)' <=> PassedOver(p)
        BY <1>6 DEF PassedOver, n
      <4> QED BY <1>2, <1>4, <1>6, <2>1, <3>1, <4>1
    <3> QED BY <3>1 DEF NoRun
  <2> QED BY <1>2, <1>6, <1>9, <2>2 DEF NotFoundInv
<1>13. (pc = "searchStart" => hintAddress # 0 /\ NoRun(hintAddress, EndPage))'
  BY <1>1, <1>6, FrameStays DEF SearchInv, ScanInv
<1>14. HintInv' /\ ResultInv'
  BY <1>1, <1>6, FrameStays DEF SearchInv, ResultInv, Searching
<1>15. ScanInv'
  BY <1>5, <1>6, <1>10, <1>11, <1>12, <1>13 DEF ScanInv
<1> QED BY <1>14, <1>15 DEF SearchInv

LEMMA SkipFullWordScan ==
  ASSUME TypeOK, SearchInv, SkipFullWord
  PROVE  SearchInv'
<1> DEFINE c == CurrentPage
           n == pageCount
           w == WordBits
           lo == SearchStart
<1>1. Searching /\ LoopFrame
  BY DEF SkipFullWord, LoopFrame, call
<1>2. /\ c \in Nat /\ n \in Nat /\ n > 0 /\ lo \in Nat /\ lo <= c
      /\ w \in Nat \ {0} /\ bitmap \in Nat /\ bitmapEnd \in Nat /\ WordInv
  BY <1>1, SearchBounds, Widths DEF WordInv, TypeOK
<1>3. /\ bit = 0 /\ bit' = 0 /\ NextWord
      /\ foundAddress = 0 /\ foundAddress' = 0 /\ bitmap < bitmapEnd /\ bitmap' = bitmap + 1
      /\ baseAddress' = 0 /\ remainingPages' = n
      /\ WordIsFull
  BY DEF SkipFullWord, NextWord, LoopContinues
<1>4. CurrentPage' = c + w /\ wordAddress' = bitmap' * WordBits
  BY <1>2, <1>3, NextWordAdvances DEF WordInv
<1>5. /\ pageCount' = n /\ usedPages' = usedPages /\ pc' = pc /\ hintAddress' = hintAddress
      /\ SearchStart' = lo /\ EndWord' = EndWord /\ bitmapEnd' = bitmapEnd
  BY <1>1, FrameStays DEF LoopFrame
<1>6. \A q \in c .. c + w - 1 : q \in usedPages
  <2>1. c = bitmap * WordBits
    BY <1>2, <1>3, Widths DEF CurrentPage
  <2>2. \A b \in 0 .. w - 1 : c + b \in usedPages
    BY <1>3, <2>1 DEF WordIsFull
  <2> HIDE DEF c, w
  <2>3. ASSUME NEW q \in c .. c + w - 1 PROVE q \in usedPages
    <3>1. q - c \in 0 .. w - 1 /\ c + (q - c) = q
      BY <1>2
    <3> QED BY <2>2, <3>1
  <2> QED BY <2>3
<1>7. NoRun(lo, c)
  BY <1>1, <1>3 DEF SearchInv, ScanInv, NotFoundInv
<1>8. WordInv'
  <2>1. SearchStart' <= CurrentPage'
    <3> HIDE DEF c, w, lo
    <3> QED BY <1>2, <1>4, <1>5
  <2>2. bitmap' <= bitmapEnd
    BY <1>2, <1>3
  <2> QED BY <1>2, <1>3, <1>4, <1>5, <2>1, <2>2 DEF WordInv
<1> HIDE DEF c, n, w, lo
<1>9. Counted' = 0 /\ RunStart' = c + w
  BY <1>2, <1>3, <1>4, <1>5 DEF Counted, RunStart
<1>10. RunInv'
  <2>1. c + w - 1 \in c .. c + w - 1 /\ (\A q \in c + w .. c + w - 1 : FALSE) /\ lo <= c + w
    BY <1>2
  <2>2. RunStart' - 1 \in usedPages'
    BY <1>2, <1>5, <1>6, <1>9, <2>1
  <2> QED BY <1>2, <1>3, <1>4, <1>5, <1>9, <2>1, <2>2 DEF RunInv
<1>11. NotFoundInv'
  <2>1. ASSUME NEW p \in lo .. c + w - n
        PROVE  \/ \E q \in p .. p + n - 1 : q \in usedPages
               \/ lo = 0 /\ PassedOver(p)
    <3>1. CASE p \in lo .. c - n
      BY <1>7, <3>1 DEF NoRun, n
    <3>2. CASE p > c - n
      <4>1. p + n - 1 \in p .. p + n - 1 /\ p + n - 1 \in c .. c + w - 1
        BY <1>2, <2>1, <3>2
      <4> QED BY <1>6, <4>1
    <3> QED BY <1>2, <2>1, <3>1, <3>2
  <2>2. NoRun(SearchStart, CurrentPage)'
    <3>1. ASSUME NEW p \in SearchStart' .. CurrentPage' - pageCount'
          PROVE  \/ \E q \in p .. p + pageCount' - 1 : q \in usedPages'
                 \/ SearchStart' = 0 /\ PassedOver(p)'
      <4>1. PassedOver(p)' <=> PassedOver(p)
        BY <1>5 DEF PassedOver, n
      <4> QED BY <1>2, <1>4, <1>5, <2>1, <3>1, <4>1
    <3> QED BY <3>1 DEF NoRun
  <2> QED BY <1>2, <1>5, <1>9, <2>2 DEF NotFoundInv
<1>12. (pc = "searchStart" => hintAddress # 0 /\ NoRun(hintAddress, EndPage))'
  BY <1>1, <1>5, FrameStays DEF SearchInv, ScanInv
<1>13. HintInv' /\ ResultInv'
  BY <1>1, <1>5, FrameStays DEF SearchInv, ResultInv, Searching
<1>14. ScanInv'
  BY <1>3, <1>5, <1>8, <1>10, <1>11, <1>12 DEF ScanInv
<1> QED BY <1>13, <1>14 DEF SearchInv

(***************************************************************************)
(* A search begins with nothing measured and nothing found, at the first   *)
(* bit of a word.                                                          *)
(***************************************************************************)
LEMMA SearchBegins ==
  ASSUME TypeOK, NEW start \in Nat, NEW last \in Nat,
         FindUnused(start, last, pageCount'), pageCount' \in Nat, pageCount' > 0,
         start = (start \div WordBits) * WordBits,
         start \div WordBits <= last,
         last = (IF pc' = "searchHint" THEN EndWord' ELSE hintAddress' \div WordBits),
         start = SearchStart'
  PROVE  /\ WordInv' /\ RunInv' /\ NotFoundInv'
         /\ foundAddress' = 0
<1>1. start \div WordBits \in Nat
  BY Widths, Division
<1>2. CurrentPage' = start
  <2>1. CurrentPage' = bitmap' * WordBits + bit'
    BY DEF CurrentPage
  <2>2. bitmap' * WordBits = start /\ bit' = 0
    BY DEF FindUnused
  <2> QED BY <2>1, <2>2
<1>3. WordInv'
  BY <1>2 DEF WordInv, FindUnused
<1>4. Counted' = 0 /\ RunStart' = start
  <2>1. Counted' = pageCount' - remainingPages' /\ RunStart' = CurrentPage' - Counted'
    BY DEF Counted, RunStart
  <2>2. remainingPages' = pageCount'
    BY DEF FindUnused
  <2>3. \A n \in Nat : n - n = 0 /\ n - 0 = n
    OBVIOUS
  <2> QED BY <1>2, <2>1, <2>2, <2>3
<1>5. RunInv'
  <2>1. \A q \in start .. start - 1 : FALSE
    BY NoneBetween, Zenon
  <2>2. Counted' = 0 /\ RunStart' = SearchStart' /\ CurrentPage' = RunStart' /\ start \in Nat
    BY <1>2, <1>4
  <2>3. baseAddress' = 0
    BY DEF FindUnused
  <2>4. \A q \in RunStart' .. CurrentPage' - 1 : q \notin usedPages'
    BY <1>2, <1>4, <2>1
  <2>5. Counted' >= 0 /\ RunStart' >= SearchStart'
    <3>1. \A n \in Nat : n >= n
      OBVIOUS
    <3> QED BY <2>2, <1>4, <3>1
  <2> QED BY <2>2, <2>3, <2>4, <2>5 DEF RunInv
<1>6. NotFoundInv'
  <2>1. \A p \in start .. start - pageCount' : FALSE
    BY EmptyRange
  <2>2. \A p \in SearchStart' .. CurrentPage' - pageCount' : FALSE
    BY <2>1, <1>2
  <2> QED BY <1>4, <2>2 DEF NotFoundInv, NoRun
<1> QED BY <1>3, <1>5, <1>6 DEF FindUnused

\* A hint below g_totalMemory is a page that a search may start at.
LEMMA HintFits ==
  ASSUME TypeOK, NEW hint \in Nat, hint = (hint \div WordBits) * WordBits,
         hint * PageSize <= g_totalMemory
  PROVE  hint \div WordBits <= EndWord /\ hint <= EndPage
<1> DEFINE w == hint \div WordBits
<1>1. w \in Nat
  BY Widths, Division
<1>2. w * BitmapWordSize = hint * PageSize
  BY <1>1, Widths
<1>3. w <= EndWord
  BY <1>1, <1>2, Widths, Multiples DEF TypeOK, EndWord
<1>4. w * WordBits <= EndPage
  BY <1>1, <1>3, EndWordType, Widths, Multiples DEF EndPage
<1> QED BY <1>3, <1>4

LEMMA AllocateSearches ==
  ASSUME TypeOK, NEW count \in Nat \ {0}, NEW hint \in Nat,
         hint % WordBits = 0 \/ hint * PageSize > g_totalMemory,
         pmAllocatePages(count, hint)
  PROVE  SearchInv'
<1> DEFINE start == IF hint * PageSize > g_totalMemory THEN 0 ELSE hint
<1>1. EndPage \in Nat /\ EndWord \in Nat /\ g_totalMemory \in Nat
  BY EndPageFacts, EndWordType DEF TypeOK
<1>2. /\ start \in Nat
      /\ start = (start \div WordBits) * WordBits
      /\ start \div WordBits <= EndWord
      /\ start <= EndPage
  <2>1. CASE hint * PageSize > g_totalMemory
    <3>1. 0 \div WordBits = 0 /\ 0 * WordBits = 0
      BY Widths
    <3> QED BY <2>1, <3>1, <1>1
  <2>2. CASE ~(hint * PageSize > g_totalMemory)
    <3>1. hint * PageSize \in Nat /\ hint = (hint \div WordBits) * WordBits
      BY <2>2, Widths, Multiples, Division
    <3>2. hint * PageSize <= g_totalMemory
      BY <3>1, <2>2, <1>1
    <3> QED BY <2>2, <3>1, <3>2, HintFits
  <2> QED BY <2>1, <2>2
<1>3. /\ pc' = "searchHint" /\ pageCount' = count /\ hintAddress' = start
      /\ FindUnused(start, EndWord, count)
      /\ UNCHANGED <<globals, usedPages>>
  BY DEF pmAllocatePages
<1> HIDE DEF start
<1>4. EndWord' = EndWord /\ EndPage' = EndPage /\ SearchStart' = start
  BY <1>3 DEF EndWord, EndPage, SearchStart, globals
<1>5. WordInv' /\ RunInv' /\ NotFoundInv' /\ foundAddress' = 0
  BY <1>1, <1>2, <1>3, <1>4, SearchBegins
<1>6. ScanInv' /\ ResultInv'
  BY <1>3, <1>5 DEF ScanInv, ResultInv
<1>7. HintInv'
  BY <1>2, <1>3, <1>4 DEF HintInv
<1> QED BY <1>6, <1>7 DEF SearchInv

LEMMA SecondSearch ==
  ASSUME TypeOK, SearchInv, SearchFromStart
  PROVE  SearchInv'
<1>1. /\ pc = "searchHint" /\ pc' = "searchStart"
      /\ hintAddress # 0 /\ foundAddress = 0 /\ bit = 0 /\ ~(bitmap < bitmapEnd)
      /\ UNCHANGED <<globals, usedPages, pageCount, hintAddress>>
      /\ FindUnused(0, hintAddress \div WordBits, pageCount)
      /\ Searching
  BY DEF SearchFromStart, SearchOver, LoopContinues, call
<1>2. WordInv /\ NotFoundInv /\ HintInv /\ EndWord \in Nat
  BY <1>1, EndWordType DEF SearchInv, ScanInv
<1>3. hintAddress \div WordBits \in Nat /\ pageCount \in Nat /\ pageCount > 0
  BY <1>2, Widths, Division DEF TypeOK, WordInv
<1>4. 0 \div WordBits = 0 /\ 0 * WordBits = 0
  BY Widths
<1>5. WordInv' /\ RunInv' /\ NotFoundInv' /\ foundAddress' = 0
  <2>1. SearchStart' = 0
    BY <1>1 DEF SearchStart
  <2> QED BY <2>1, <1>1, <1>3, <1>4, SearchBegins
<1>6. CurrentPage = EndPage
  <2>1. bitmap = EndWord
    BY <1>1, <1>2 DEF WordInv, TypeOK
  <2> QED BY <2>1, <1>1, EndPageFacts DEF CurrentPage, EndPage
<1>7. NoRun(hintAddress, EndPage)
  BY <1>1, <1>2, <1>6 DEF NotFoundInv, SearchStart
<1>8. EndPage' = EndPage
  BY <1>1 DEF EndPage, EndWord, globals
<1>9. (hintAddress # 0 /\ NoRun(hintAddress, EndPage))'
  BY <1>1, <1>7, <1>8 DEF NoRun, PassedOver
<1>10. ScanInv' /\ ResultInv'
  BY <1>1, <1>5, <1>9 DEF ScanInv, ResultInv
<1>11. HintInv'
  BY <1>1, <1>2, <1>8 DEF HintInv
<1> QED BY <1>10, <1>11 DEF SearchInv

(***************************************************************************)
(* When a search is over, what it found is a free run below EndPage, or    *)
(* one page too far; and if it found nothing there is nothing in the words *)
(* it went through, but what it passes over.                               *)
(***************************************************************************)
LEMMA ResultScan ==
  ASSUME TypeOK, SearchInv, SearchResult
  PROVE  SearchInv'
<1>1. /\ Searching /\ bit = 0 /\ ~LoopContinues
      /\ foundAddress = 0 => (pc = "searchStart" \/ hintAddress = 0)
      /\ pc' = IF foundAddress # 0 THEN "mark" ELSE "outOfMemory"
      /\ UNCHANGED <<globals, usedPages, pageCount, hintAddress, foundAddress>>
  BY DEF SearchResult, SearchOver, call, scan
<1>2. /\ WordInv /\ HintInv
      /\ pageCount \in Nat /\ pageCount > 0 /\ hintAddress \in Nat /\ foundAddress \in Nat
      /\ EndPage \in Nat /\ EndWord \in Nat /\ bitmap \in Nat /\ bitmapEnd \in Nat
  BY <1>1, SearchBounds DEF TypeOK
<1>3. pc = "searchStart" => hintAddress # 0 /\ NoRun(hintAddress, EndPage)
  BY <1>1 DEF SearchInv, ScanInv
<1>4. EndPage' = EndPage /\ Searchable' = Searchable
  BY <1>1 DEF EndPage, EndWord, Searchable, globals
<1>5. ASSUME foundAddress # 0 PROVE ResultInv'
  <2>1. SearchStart <= foundAddress /\ FoundRun
    BY <1>1, <1>5 DEF SearchInv, ScanInv
  <2>2. foundAddress < hintAddress => NoRun(hintAddress, EndPage)
    <3>1. pc = "searchHint" => hintAddress <= foundAddress
      BY <2>1 DEF SearchStart
    <3> QED BY <3>1, <1>1, <1>2, <1>3 DEF Searching
  <2>3. (foundAddress < hintAddress => NoRun(hintAddress, EndPage))'
    BY <2>2, <1>1, <1>4 DEF NoRun, PassedOver
  <2>4. FoundRun'
    BY <2>1, <1>1, <1>4 DEF FoundRun, OneTooFar
  <2> QED BY <2>3, <2>4, <1>1, <1>2, <1>5 DEF ResultInv
<1>6. ASSUME foundAddress = 0 PROVE ResultInv'
  <2>1. NotFoundInv
    BY <1>1, <1>6 DEF SearchInv, ScanInv
  <2>2. bitmap = bitmapEnd
    BY <1>1, <1>2, <1>6 DEF WordInv, LoopContinues
  <2>3. bitmapEnd * WordBits = IF pc = "searchHint" THEN EndPage ELSE hintAddress
    BY <1>2 DEF WordInv, HintInv, EndPage
  <2>4. CurrentPage = bitmapEnd * WordBits
    BY <1>1, <1>2, <2>2, Widths, Multiples DEF CurrentPage
  <2>5. NoRun(SearchStart, bitmapEnd * WordBits)
    BY <2>1, <2>4 DEF NotFoundInv
  <2>6. NoRun(hintAddress, EndPage) /\ NoRun(0, hintAddress)
    <3>1. CASE pc = "searchHint"
      <4>1. NoRun(hintAddress, EndPage)
        BY <2>3, <2>5, <3>1 DEF SearchStart
      <4>2. NoRun(0, hintAddress)
        BY <3>1, <1>1, <1>2, <1>6 DEF NoRun
      <4> QED BY <4>1, <4>2
    <3>2. CASE pc = "searchStart"
      BY <2>3, <2>5, <3>2, <1>3 DEF SearchStart
    <3> QED BY <3>1, <3>2, <1>1 DEF Searching
  <2>7. (NoRun(hintAddress, EndPage) /\ NoRun(0, hintAddress))'
    BY <2>6, <1>1, <1>4 DEF NoRun, PassedOver
  <2> QED BY <2>7, <1>1, <1>2, <1>6 DEF ResultInv
<1>7. ScanInv'
  BY <1>1 DEF ScanInv, Searching
<1>8. HintInv'
  BY <1>1, <1>2, <1>4 DEF HintInv
<1> QED BY <1>5, <1>6, <1>7, <1>8 DEF SearchInv

LEMMA SearchStep ==
  ASSUME TypeOK, SearchInv,
         SkipFullWord \/ FreePage \/ TakenPage \/ SearchFromStart \/ SearchResult
  PROVE  SearchInv'
  BY SkipFullWordScan, FreePageScan, TakenPageScan, SecondSearch, ResultScan

(***************************************************************************)
(* A free run of the request in a range contradicts NoRun of it.           *)
(***************************************************************************)
LEMMA NoRunIsNoFreeRun ==
  ASSUME TypeOK, pageCount > 0, NEW lo \in Nat, NEW hi \in Nat, NoRun(lo, hi), NEW p \in Nat,
         FreeRun(p, pageCount, lo, hi)
  PROVE  lo = 0 /\ PassedOver(p)
<1>1. p \in lo .. hi - pageCount
  BY DEF FreeRun, TypeOK
<1>2. ~ \E q \in p .. p + pageCount - 1 : q \in usedPages
  BY DEF FreeRun
<1> QED BY <1>1, <1>2 DEF NoRun

LEMMA SearchIsComplete ==
  ASSUME TypeOK, SearchInv
  PROVE  RefusalJustified /\ HintFirst
<1>1. ResultInv /\ EndPage \in Nat /\ hintAddress \in Nat
  BY EndPageFacts DEF SearchInv, TypeOK
<1>2. FreePages \subseteq Nat /\ EndPage = EndWord * WordBits
  BY <1>1 DEF FreePages, Searchable, EndPage
<1>3. RefusalJustified
  <2> SUFFICES ASSUME pc = "outOfMemory", NEW p \in FreePages
               PROVE  /\ FreeRun(p, pageCount, hintAddress, EndPage) =>
                             hintAddress = 0 /\ PassedOver(p)
                      /\ FreeRun(p, pageCount, 0, hintAddress) => PassedOver(p)
    BY <1>2 DEF RefusalJustified
  <2> QED BY <1>1, <1>2, NoRunIsNoFreeRun DEF ResultInv
<1>4. HintFirst
  <2> SUFFICES ASSUME pc = "mark", foundAddress < hintAddress, NEW p \in FreePages,
                      FreeRun(p, pageCount, hintAddress, EndPage)
               PROVE  FALSE
    BY <1>2 DEF HintFirst
  <2>1. hintAddress # 0
    BY <1>1 DEF TypeOK
  <2> QED BY <1>1, <1>2, <2>1, NoRunIsNoFreeRun DEF ResultInv
<1> QED BY <1>3, <1>4
=============================================================================
