--------------------------- MODULE Inference_proofs ---------------------------
(***************************************************************************)
(* Windows are padded, centred and stamped back correctly whatever the     *)
(* sizes of raster and window and the place of the ignition; the items of  *)
(* a dataset show the cells they claim to show; and the loops of run and   *)
(* evaluate keep what they promise for every dataset, number of workers    *)
(* and order of the pool.                                                  *)
(***************************************************************************)
EXTENDS Inference, SequenceTheorems, FiniteSetTheorems, TLAPS

\* A window is its half, twice, and the middle cell of an odd one.
LEMMA Halves ==
    ASSUME NEW ws \in Nat \ {0}
    PROVE  /\ Half(ws) \in Nat /\ Odd(ws) \in {0, 1}
           /\ ws = 2 * Half(ws) + Odd(ws)
  BY SMT DEF Half, Odd

\* The bounds of the window of a cell are around the cell, and on the raster.
LEMMA Bounds ==
    ASSUME NEW ws \in Nat \ {0}, NEW n \in Nat \ {0}, NEW y \in 0 .. n - 1
    PROVE  /\ Lo(y, ws) \in Int /\ Hi(y, n, ws) \in Int
           /\ 0 <= Lo(y, ws) /\ Lo(y, ws) <= y
           /\ y <= Hi(y, n, ws) /\ Hi(y, n, ws) <= n
           /\ Hi(y, n, ws) - Lo(y, ws) <= ws
<1>1. /\ Half(ws) \in Nat /\ Odd(ws) \in {0, 1}
      /\ ws = 2 * Half(ws) + Odd(ws)
  BY Halves
<1>2. /\ Lo(y, ws) \in Int /\ 0 <= Lo(y, ws) /\ Lo(y, ws) <= y
      /\ Lo(y, ws) >= y - Half(ws)
  BY <1>1 DEF Lo, AtLeast
<1>3. /\ Hi(y, n, ws) \in Int /\ y <= Hi(y, n, ws) /\ Hi(y, n, ws) <= n
      /\ Hi(y, n, ws) <= y + Half(ws) + Odd(ws)
  BY <1>1 DEF Hi, AtMost
<1> QED
  BY <1>1, <1>2, <1>3

\* datasets/utils.py: the crop is the inverse of clamping and padding.
THEOREM CropInvertsPadding ==
    ASSUME NEW ws \in Nat \ {0}, NEW n \in Nat \ {0}, NEW y \in 0 .. n - 1
    PROVE  StampsBack(y, n, ws)
<1>0. /\ Lo(y, ws) \in Int /\ Hi(y, n, ws) \in Int
      /\ 0 <= Lo(y, ws) /\ Hi(y, n, ws) - Lo(y, ws) <= ws
  BY Bounds
<1>1. PaddedSize(y, n, ws) = ws
  BY <1>0 DEF PaddedSize, PadBelow, PadAbove, Diff, AtLeast
<1>2. ASSUME NEW r \in 0 .. n - 1, InWindow(r, y, n, ws)
      PROVE  /\ StampedFrom(r, y, n, ws) = PositionOf(r, y, n, ws)
             /\ PositionOf(r, y, n, ws) \in 0 .. ws - 1
  BY <1>0, <1>2
     DEF InWindow, StampedFrom, CropSource, PositionOf, PadBelow, Diff, AtLeast
<1> QED
  BY <1>1, <1>2 DEF StampsBack

\* datasets/utils.py: the ignition is the centre of its padded window.
THEOREM IgnitionIsCentred ==
    ASSUME NEW ws \in Nat \ {0}, NEW n \in Nat \ {0}, NEW y \in 0 .. n - 1
    PROVE  Centred(y, n, ws)
<1>0. /\ Half(ws) \in Nat /\ Odd(ws) \in {0, 1}
      /\ ws = 2 * Half(ws) + Odd(ws)
  BY Halves
<1>1. ASSUME y > Half(ws) \/ y + Half(ws) + Odd(ws) <= n
      PROVE  PositionOf(y, y, n, ws) = Half(ws)
  BY <1>0, <1>1 DEF PositionOf, PadBelow, Diff, Lo, Hi, AtLeast, AtMost
<1> QED
  BY <1>1 DEF Centred

\* On a raster that is no smaller than the window a position is counted from
\* the ignition in the middle, wherever the ignition is.
LEMMA CountedFromMiddle ==
    ASSUME NEW ws \in Nat \ {0}, NEW n \in Nat, ws <= n, NEW y \in Int, NEW q \in Int,
           NEW r, r = q - PadBelow(y, n, ws) + Lo(y, ws), InWindow(r, y, n, ws)
    PROVE  r = y + q - Half(ws)
<1>0. /\ Half(ws) \in Nat /\ Odd(ws) \in {0, 1}
      /\ ws = 2 * Half(ws) + Odd(ws)
  BY Halves
<1>1. CASE y <= Half(ws)
  <2>1. Lo(y, ws) = 0 /\ Hi(y, n, ws) = y + Half(ws) + Odd(ws)
    BY <1>0, <1>1 DEF Lo, Hi, AtLeast, AtMost
  <2>2. Diff(y, n, ws) = Half(ws) - y
    BY <1>0, <2>1 DEF Diff
  <2>3. PadBelow(y, n, ws) = Half(ws) - y
    BY <1>0, <1>1, <2>1, <2>2 DEF PadBelow, AtLeast
  <2> QED
    BY <1>0, <2>1, <2>3
<1>2. CASE y > Half(ws)
  <2>1. Lo(y, ws) = y - Half(ws) /\ Lo(y, ws) # 0
    BY <1>0, <1>2 DEF Lo, AtLeast
  <2>2. PadBelow(y, n, ws) = 0
    BY <2>1 DEF PadBelow
  <2> QED
    BY <1>0, <2>1, <2>2
<1> QED
  BY <1>0, <1>1, <1>2

\* The same for the two axes.
LEMMA CellFromMiddle ==
    ASSUME NEW ws \in Nat \ {0}, NEW h \in Nat, ws <= h, NEW w \in Nat, ws <= w,
           NEW i \in Int \X Int, NEW p \in Square(ws), NEW c,
           c = <<p[1] - PadBelow(i[1], h, ws) + Lo(i[1], ws),
                 p[2] - PadBelow(i[2], w, ws) + Lo(i[2], ws)>>,
           InWindow(c[1], i[1], h, ws), InWindow(c[2], i[2], w, ws)
    PROVE  c = <<i[1] + p[1] - Half(ws), i[2] + p[2] - Half(ws)>>
<1>1. i[1] \in Int /\ i[2] \in Int /\ p[1] \in Int /\ p[2] \in Int
  BY DEF Square
<1>2. /\ c[1] = p[1] - PadBelow(i[1], h, ws) + Lo(i[1], ws)
      /\ c[2] = p[2] - PadBelow(i[2], w, ws) + Lo(i[2], ws)
  OBVIOUS
<1>3. c[1] = i[1] + p[1] - Half(ws)
  BY <1>1, <1>2, CountedFromMiddle, ZenonT(60)
<1>4. c[2] = i[2] + p[2] - Half(ws)
  BY <1>1, <1>2, CountedFromMiddle, ZenonT(60)
<1> QED
  BY <1>3, <1>4

-----------------------------------------------------------------------------
\* What is known of the dataset that was read

LEMMA AcceptedTypes ==
    ASSUME ds \in Datasets
    PROVE  /\ ds.h \in Nat \ {0} /\ ds.w \in Nat \ {0} /\ ds.ws \in Nat \ {0}
           /\ ds.batch \in Nat \ {0} /\ ds.sims \in Nat \ {0} /\ ds.workers \in Nat \ {0}
           /\ ds.target \in Nat /\ MaxResample \in Nat
           /\ ds.roles \in Seq({"baseline", "treatment"}) /\ ds.roles # <<>>
           /\ \A r \in Roles : ds.raw[r] \in [Cells -> Nat \cup {NoData}]
           /\ ds.points \in Seq(Int \X Int) /\ ds.draws \subseteq Seq(Int \X Int)
           /\ ds.area # NoArea => Roles = {"baseline", "treatment"}
           /\ ds.cmd \in {"run_dl", "run_pt"} => ds.area # NoArea
           /\ ds.burned \in BOOLEAN /\ ds.cache \in BOOLEAN
           /\ ds.cache => ds.burned
           /\ ds.cmd # "train" => ~ds.burned
           /\ ds.cmd \in {"train", "run_dl", "run_pt", "evaluate", "evaluate_pt"}
<1>1. MaxResample \in Nat /\ Accepted(ds)
  BY InferenceAssumption
<1> QED
  BY <1>1 DEF Accepted, Roles, Cells

\* A position of a padded window that holds a cell holds the one counted from
\* the middle.
LEMMA CellIsCounted ==
    ASSUME ds \in Datasets, ds.ws <= ds.h, ds.ws <= ds.w,
           NEW i \in Int \X Int, NEW p \in Square(ds.ws), CellAt(p, i) \in WindowCells(i)
    PROVE  /\ CellAt(p, i) = <<i[1] + p[1] - Half(ds.ws), i[2] + p[2] - Half(ds.ws)>>
           /\ CellAt(p, i) \in Cells
<1>1. /\ ds.h \in Nat /\ ds.w \in Nat /\ ds.ws \in Nat \ {0}
  BY AcceptedTypes
<1>2. /\ CellAt(p, i) \in Cells
      /\ InWindow(CellAt(p, i)[1], i[1], ds.h, ds.ws)
      /\ InWindow(CellAt(p, i)[2], i[2], ds.w, ds.ws)
  BY DEF WindowCells
<1>3. CellAt(p, i) = <<p[1] - PadBelow(i[1], ds.h, ds.ws) + Lo(i[1], ds.ws),
                       p[2] - PadBelow(i[2], ds.w, ds.ws) + Lo(i[2], ds.ws)>>
  BY DEF CellAt
<1> QED
  BY <1>1, <1>2, <1>3, CellFromMiddle, Zenon

-----------------------------------------------------------------------------
\* The ignitions

\* A finite set of numbers has a first, a second, and so on to the last.
LEMMA NthExists ==
    ASSUME NEW S \in SUBSET Nat, IsFiniteSet(S), NEW n \in 1 .. Cardinality(S)
    PROVE  \E k \in S : Cardinality({j \in S : j <= k}) = n
<1> DEFINE Upto(k) == {j \in S : j <= k}
           rank == [k \in S |-> Cardinality(Upto(k))]
           size == Cardinality(S)
<1>0. size \in Nat /\ IsFiniteSet(1 .. size) /\ Cardinality(1 .. size) = size
  <2>1. size \in Nat
    BY FS_CardinalityType
  <2> QED
    BY <2>1, FS_Interval
<1>1. \A k \in S : IsFiniteSet(Upto(k)) /\ Cardinality(Upto(k)) \in 1 .. size
  <2> SUFFICES ASSUME NEW k \in S
               PROVE  IsFiniteSet(Upto(k)) /\ Cardinality(Upto(k)) \in 1 .. size
    OBVIOUS
  <2>1. Upto(k) \in SUBSET S /\ k \in Upto(k)
    OBVIOUS
  <2> HIDE DEF Upto
  <2>2. IsFiniteSet(Upto(k)) /\ Cardinality(Upto(k)) <= size
    BY <2>1, FS_Subset
  <2>3. Cardinality(Upto(k)) \in Nat /\ Cardinality(Upto(k)) # 0
    BY <2>1, <2>2, FS_CardinalityType, FS_EmptySet
  <2> QED
    BY <1>0, <2>2, <2>3
<1>2. \A k, l \in S : k < l => Cardinality(Upto(k)) # Cardinality(Upto(l))
  <2> SUFFICES ASSUME NEW k \in S, NEW l \in S, k < l
               PROVE  Cardinality(Upto(k)) # Cardinality(Upto(l))
    OBVIOUS
  <2>1. Upto(k) \in SUBSET Upto(l) /\ l \in Upto(l) /\ l \notin Upto(k)
    <3>1. k \in Nat /\ l \in Nat /\ \A j \in S : j \in Nat
      OBVIOUS
    <3>2. \A j \in S : j <= k => j <= l
      BY <3>1
    <3>3. ~(l <= k) /\ l <= l
      BY <3>1
    <3> QED
      BY <3>2, <3>3, Zenon
  <2> HIDE DEF Upto
  <2> QED
    BY <1>1, <2>1, FS_Subset
<1>3. rank \in Injection(S, 1 .. size)
  <2>1. rank \in [S -> 1 .. size]
    BY <1>1
  <2>2. \A k, l \in S : k = l \/ k < l \/ l < k
    OBVIOUS
  <2>3. \A k, l \in S : rank[k] = rank[l] => k = l
    BY <1>2, <2>2
  <2> QED
    BY <2>1, <2>3 DEF Injection, IsInjective
<1>4. rank \in Surjection(S, 1 .. size)
  BY <1>0, <1>3, FS_Injection
<1>5. PICK k \in S : rank[k] = n
  BY <1>4 DEF Surjection
<1> QED
  BY <1>5

\* _select_burnable keeps burnable points only.
LEMMA BurnableKept ==
    ASSUME NEW points \in Seq(Int \X Int)
    PROVE  /\ BurnablePoints(points) \in Seq(Int \X Int)
           /\ \A n \in DOMAIN BurnablePoints(points) : Burnable(BurnablePoints(points)[n])
<1> DEFINE some == {k \in DOMAIN points : Burnable(points[k])}
           nth(n) == CHOOSE k \in some : Cardinality({j \in some : j <= k}) = n
<1>0. Len(points) \in Nat /\ DOMAIN points = 1 .. Len(points)
      /\ \A k \in 1 .. Len(points) : points[k] \in Int \X Int
  BY LenProperties, ElementOfSeq
<1>1. some \in SUBSET Nat /\ IsFiniteSet(some)
  <2>1. IsFiniteSet(1 .. Len(points)) /\ some \in SUBSET (1 .. Len(points))
    BY <1>0, FS_Interval
  <2>2. some \in SUBSET Nat
    BY <1>0
  <2> HIDE DEF some
  <2>3. IsFiniteSet(some)
    BY <2>1, FS_Subset
  <2> QED
    BY <2>2, <2>3
<1>2. \A k \in some : points[k] \in Int \X Int /\ Burnable(points[k])
  BY <1>0
<1>3. BurnablePoints(points) = [n \in 1 .. Cardinality(some) |-> points[nth(n)]]
  BY DEF BurnablePoints
<1>4. \A n \in 1 .. Cardinality(some) : nth(n) \in some
  <2> HIDE DEF some
  <2> TAKE n \in 1 .. Cardinality(some)
  <2>1. \E k \in some : Cardinality({j \in some : j <= k}) = n
    BY <1>1, NthExists
  <2> QED
    BY <2>1
<1>5. Cardinality(some) \in Nat
  BY <1>1, FS_CardinalityType
<1> HIDE DEF some, nth
<1>6. BurnablePoints(points) \in [1 .. Cardinality(some) -> Int \X Int]
  BY <1>2, <1>3, <1>4
<1>7. BurnablePoints(points) \in Seq(Int \X Int)
  BY <1>5, <1>6, IsASeq
<1> QED
  BY <1>2, <1>3, <1>4, <1>7

-----------------------------------------------------------------------------
\* What holds of the dataset while its items are served

\* Every raster is at least as large as the window.
RastersHoldWindows == \A d \in Datasets : d.ws <= d.h /\ d.ws <= d.w

DataTypes ==
    /\ ds \in Datasets
    /\ ignitions \in Seq(Int \X Int)
    /\ tries \in Nat

\* Before the loop the fuels are as read, and samples are still drawn.
BeforeLoop ==
    pc = "construct" =>
        /\ items = <<>>
        /\ fuels = [r \in Roles |-> Encoded(ds.raw[r])]
        /\ tries <= MaxResample
        /\ ~Sampled => ignitions = <<>>

BurnsInAllRoles(i) == i \in Cells /\ \A r \in Roles : ds.raw[r][i] > N

SampledOK ==
    Sampled =>
        /\ \A k \in DOMAIN ignitions : BurnsInAllRoles(ignitions[k])
        /\ pc # "construct" =>
             /\ Len(ignitions) <= ds.target
             /\ Len(ignitions) < ds.target => tries = MaxResample + 1

\* Outside the treatment area the two layers are equal, blanked or not.
LayersAgree(layers) ==
    ds.area # NoArea =>
        \A c \in Cells : c \notin ds.area => layers["treatment"][c] = layers["baseline"][c]

\* The burns cached are those of the ignition's own number.
BurnsCached ==
    ds.cache => \A r \in Roles : \A k \in DOMAIN ignitions :
        burns[r][k] = [c \in WindowCells(ignitions[k]) |-> <<r, ds.numbers[k], c>>]

InLoop == pc # "construct" => LayersAgree(fuels) /\ BurnsCached

\* The positions of the window around i that lie on the raster.
OnWindow(i) == {p \in Square(ds.ws) : CellAt(p, i) \in WindowCells(i)}

ItemShape ==
    \A k \in DOMAIN items :
        /\ items[k].sample \in Samples
        /\ items[k].at = ignitions[items[k].sample]
        /\ items[k].mask \in SUBSET OnWindow(items[k].at)
        /\ items[k].role \in Roles /\ (~ds.burned => items[k].role = First)
        /\ DOMAIN items[k].x = IF ds.area # NoArea THEN Roles ELSE {items[k].role}

DataInv == DataTypes /\ BeforeLoop /\ SampledOK /\ InLoop /\ ItemShape

LEMMA Divided ==
    ASSUME NEW m \in Nat, m > 0, NEW n \in Nat, NEW i \in Nat, i < n * m
    PROVE  i \div m \in Nat /\ i % m \in 0 .. m - 1 /\ i \div m < n
<1>1. i \div m \in Nat
  OBVIOUS
<1>2. i % m \in 0 .. m - 1
  OBVIOUS
<1>3. i \div m < n
  OBVIOUS
<1> QED
  BY <1>1, <1>2, <1>3

\* The index of an item names an ignition and a role of the dataset.
LEMMA IndexFacts ==
    ASSUME DataTypes, NEW idx \in 0 .. Length - 1
    PROVE  SampleIndex(idx) \in Samples /\ RoleOf(idx) \in Roles
<1> DEFINE m == Len(ds.roles)
           n == Len(ignitions)
<1>1. /\ m \in Nat /\ m > 0 /\ DOMAIN ds.roles = 1 .. m
      /\ n \in Nat /\ Samples = 1 .. n
  BY AcceptedTypes, LenProperties, EmptySeq DEF DataTypes, Samples
<1>2. \A k \in 1 .. m : ds.roles[k] \in Roles
  BY <1>1 DEF Roles, Range
<1>3. Length = IF ds.burned THEN n * m ELSE n
  BY DEF Length
<1>4. /\ SampleIndex(idx) = (IF ds.burned THEN idx \div m ELSE idx) + 1
      /\ RoleOf(idx) = ds.roles[(IF ds.burned THEN idx % m ELSE 0) + 1]
  BY DEF SampleIndex, RoleOf
<1> HIDE DEF m, n
<1>5. CASE ds.burned
  <2>1. idx \in Nat /\ idx < n * m
    BY <1>1, <1>3, <1>5
  <2>2. idx \div m \in Nat /\ idx % m \in 0 .. m - 1 /\ idx \div m < n
    BY <1>1, <2>1, Divided
  <2> QED
    BY <1>1, <1>2, <1>4, <1>5, <2>2
<1>6. CASE ~ds.burned
  BY <1>1, <1>2, <1>3, <1>4, <1>6
<1> QED
  BY <1>5, <1>6

\* The item of an index.
LEMMA ItemFacts ==
    ASSUME DataTypes, NEW idx \in 0 .. Length - 1, NEW layers
    PROVE  /\ ItemOf(idx, layers).sample \in Samples
           /\ ItemOf(idx, layers).sample = SampleIndex(idx)
           /\ ItemOf(idx, layers).at = ignitions[SampleIndex(idx)]
           /\ ItemOf(idx, layers).mask = MaskOf(RoleOf(idx), ignitions[SampleIndex(idx)])
           /\ ItemOf(idx, layers).mask \in SUBSET OnWindow(ItemOf(idx, layers).at)
           /\ ItemOf(idx, layers).role = RoleOf(idx)
           /\ ItemOf(idx, layers).role \in Roles
           /\ ~ds.burned => ItemOf(idx, layers).role = First
           /\ ItemOf(idx, layers).x = [r \in ServedRoles(idx) |->
                 FuelWindow(layers[r], ignitions[SampleIndex(idx)])]
           /\ DOMAIN ItemOf(idx, layers).x =
                IF ds.area # NoArea THEN Roles ELSE {ItemOf(idx, layers).role}
<1>1. SampleIndex(idx) \in Samples /\ RoleOf(idx) \in Roles
  BY IndexFacts
<1>2. \A r, i : MaskOf(r, i) \in SUBSET OnWindow(i)
  BY DEF MaskOf, Circle, OnWindow
<1>3. /\ ItemOf(idx, layers).sample = SampleIndex(idx)
      /\ ItemOf(idx, layers).at = ignitions[SampleIndex(idx)]
      /\ ItemOf(idx, layers).mask = MaskOf(RoleOf(idx), ignitions[SampleIndex(idx)])
      /\ ItemOf(idx, layers).role = RoleOf(idx)
      /\ ItemOf(idx, layers).x = [r \in ServedRoles(idx) |->
            FuelWindow(layers[r], ignitions[SampleIndex(idx)])]
  BY DEF ItemOf
<1>4. ItemOf(idx, layers).mask \in SUBSET OnWindow(ItemOf(idx, layers).at)
  BY <1>2, <1>3
<1>5. ~ds.burned => RoleOf(idx) = First
  BY DEF RoleOf, First
<1> QED
  BY <1>1, <1>3, <1>4, <1>5 DEF ServedRoles

\* Blanking is the same in both layers of a dataset with a treatment area.
LEMMA BlankedAlike ==
    ASSUME LayersAgree(fuels), DataTypes, NEW indexes, NEW n
    PROVE  LayersAgree(LayersAfter(indexes, n))
<1> SUFFICES ASSUME ds.area # NoArea, NEW c \in Cells, c \notin ds.area
             PROVE  LayersAfter(indexes, n)["treatment"][c] = LayersAfter(indexes, n)["baseline"][c]
  BY DEF LayersAgree
<1>1. "treatment" \in Roles /\ "baseline" \in Roles
  BY AcceptedTypes DEF DataTypes
<1>2. \A k : BlankedBy(indexes[k], "treatment") = BlankedBy(indexes[k], "baseline")
  BY <1>1 DEF BlankedBy, ServedRoles
<1>3. fuels["treatment"][c] = fuels["baseline"][c]
  BY DEF LayersAgree
<1> QED
  BY <1>1, <1>2, <1>3 DEF LayersAfter

\* What ItemAligned says of an item and a position.
Aligned(item, p) ==
    LET c == CellFrom(item, p)
    IN  /\ c \in Cells
        /\ ds.raw[item.role][c] # NoData
        /\ ds.burned => item.y[p] = <<item.role, ds.numbers[item.sample], c>>
        /\ \A r \in DOMAIN item.x : item.x[r][p] # item.x[item.role][p] => c \in ds.area

LEMMA ItemIsAligned ==
    ASSUME RastersHoldWindows, DataTypes, BurnsCached, NEW idx \in 0 .. Length - 1,
           NEW layers, LayersAgree(layers), NEW p \in ItemOf(idx, layers).mask
    PROVE  Aligned(ItemOf(idx, layers), p)
<1> DEFINE k == SampleIndex(idx)
           i == ignitions[k]
           role == RoleOf(idx)
           c == CellAt(p, i)
           item == ItemOf(idx, layers)
<1>1. /\ k \in Samples /\ k \in DOMAIN ignitions /\ i \in Int \X Int /\ role \in Roles
      /\ ds.ws <= ds.h /\ ds.ws <= ds.w
  <2>1. k \in Samples /\ role \in Roles
    BY IndexFacts
  <2>2. \A j \in 1 .. Len(ignitions) : ignitions[j] \in Int \X Int
    BY ElementOfSeq DEF DataTypes
  <2>3. DOMAIN ignitions = 1 .. Len(ignitions)
    BY LenProperties DEF DataTypes
  <2> QED
    BY <2>1, <2>2, <2>3 DEF Samples, RastersHoldWindows, DataTypes
<1>2. p \in MaskOf(role, i) /\ item.at = i /\ item.role = role /\ item.sample = k
      /\ item.x = [r \in ServedRoles(idx) |-> FuelWindow(layers[r], i)]
  BY ItemFacts
<1>3. /\ p \in Circle /\ p \in Square(ds.ws) /\ c \in WindowCells(i) /\ ds.raw[role][c] # NoData
  BY <1>2 DEF MaskOf, Circle
<1>4. c = <<i[1] + p[1] - Half(ds.ws), i[2] + p[2] - Half(ds.ws)>> /\ c \in Cells
  <2> HIDE DEF i
  <2> QED
    BY <1>1, <1>3, CellIsCounted DEF DataTypes
<1>5. c = CellFrom(item, p)
  BY <1>2, <1>4 DEF CellFrom
<1>6. ds.burned => item.y[p] = <<role, ds.numbers[k], c>>
  <2> SUFFICES ASSUME ds.burned PROVE item.y[p] = <<role, ds.numbers[k], c>>
    OBVIOUS
  <2> DEFINE window == IF ds.cache THEN burns[role][k]
                       ELSE [d \in WindowCells(i) |-> <<role, ds.numbers[k], d>>]
  <2>1. item.y = Padded(window, i, <<>>)
    BY DEF ItemOf
  <2>2. window = [d \in WindowCells(i) |-> <<role, ds.numbers[k], d>>]
    BY <1>1 DEF BurnsCached
  <2> HIDE DEF window, item, i, role, k
  <2>3. c \in DOMAIN window /\ window[c] = <<role, ds.numbers[k], c>>
    BY <1>3, <2>2
  <2> QED
    BY <1>3, <2>1, <2>3 DEF Padded
<1>7. ASSUME NEW r \in DOMAIN item.x, item.x[r][p] # item.x[role][p]
      PROVE  c \in ds.area
  <2>1. r \in ServedRoles(idx) /\ role \in ServedRoles(idx)
    BY <1>1, <1>2 DEF ServedRoles
  <2>2. ds.area # NoArea
    BY <1>7, <2>1 DEF ServedRoles
  <2>3. Roles = {"baseline", "treatment"} /\ r \in Roles
    BY <2>1, <2>2, AcceptedTypes DEF DataTypes, ServedRoles
  <2>4. \A q \in ServedRoles(idx) : item.x[q][p] = layers[q][c]
    <3> SUFFICES ASSUME NEW q \in ServedRoles(idx) PROVE item.x[q][p] = layers[q][c]
      OBVIOUS
    <3>1. item.x[q] = FuelWindow(layers[q], i)
      BY <1>2
    <3>2. FuelWindow(layers[q], i)[p] = Padded([d \in WindowCells(i) |-> layers[q][d]], i, None)[p]
      BY <1>3 DEF FuelWindow
    <3>3. Padded([d \in WindowCells(i) |-> layers[q][d]], i, None)[p] = layers[q][c]
      BY <1>3 DEF Padded
    <3> QED
      BY <3>1, <3>2, <3>3
  <2>5. layers[r][c] # layers[role][c]
    BY <1>7, <2>1, <2>4
  <2> QED
    BY <1>1, <1>4, <2>2, <2>3, <2>5 DEF LayersAgree
<1> QED
  BY <1>2, <1>3, <1>4, <1>5, <1>6, <1>7 DEF Aligned

\* Serving a batch: what holds of the dataset still does, and its items are
\* aligned.
LEMMA ServeKeeps ==
    ASSUME DataInv, RastersHoldWindows => ItemAligned, pc # "construct", pc' # "construct",
           NEW indexes \in Seq(0 .. Length - 1), ServeBatch(indexes)
    PROVE  DataInv' /\ (RastersHoldWindows => ItemAligned')
<1>0. /\ DOMAIN indexes = 1 .. Len(indexes)
      /\ \A k \in DOMAIN indexes : indexes[k] \in 0 .. Length - 1
  BY ElementOfSeq, LenProperties
<1>1. /\ ds' = ds /\ ignitions' = ignitions /\ tries' = tries /\ burns' = burns
      /\ fuels' = LayersAfter(indexes, Len(indexes))
      /\ items' = [k \in DOMAIN indexes |-> ItemOf(indexes[k], LayersAfter(indexes, k - 1))]
  BY DEF ServeBatch
<1>2. DataTypes' /\ BeforeLoop' /\ SampledOK'
  BY <1>1 DEF DataInv, DataTypes, BeforeLoop, SampledOK, Sampled, BurnsInAllRoles, Roles, Cells
<1>3. InLoop'
  <2>1. LayersAgree(fuels) /\ BurnsCached
    BY DEF DataInv, InLoop
  <2>2. LayersAgree(LayersAfter(indexes, Len(indexes)))
    BY <2>1, BlankedAlike DEF DataInv
  <2>3. LayersAgree(fuels)'
    <3> DEFINE layers == LayersAfter(indexes, Len(indexes))
    <3>1. ds.area # NoArea => \A c \in Cells : c \notin ds.area =>
            layers["treatment"][c] = layers["baseline"][c]
      BY <2>2 DEF LayersAgree
    <3> HIDE DEF layers
    <3>2. fuels' = layers
      BY <1>1 DEF layers
    <3> QED
      BY <1>1, <3>1, <3>2 DEF LayersAgree, Cells
  <2>4. BurnsCached'
    <3>1. \A i : WindowCells(i)' = WindowCells(i)
      BY <1>1 DEF WindowCells, Cells
    <3>2. ds.cache => \A r \in Roles : \A k \in DOMAIN ignitions :
            burns'[r][k] = [c \in WindowCells(ignitions[k])' |-> <<r, ds.numbers[k], c>>]
      BY <1>1, <2>1, <3>1 DEF BurnsCached
    <3> QED
      BY <1>1, <3>2 DEF BurnsCached, Roles
  <2> QED
    BY <2>3, <2>4 DEF InLoop
<1>4. ItemShape'
  <2>1. \A k \in DOMAIN indexes :
          LET item == ItemOf(indexes[k], LayersAfter(indexes, k - 1))
          IN  /\ item.sample \in Samples
              /\ item.at = ignitions[item.sample]
              /\ item.mask \in SUBSET OnWindow(item.at)
              /\ item.role \in Roles /\ (~ds.burned => item.role = First)
              /\ DOMAIN item.x = IF ds.area # NoArea THEN Roles ELSE {item.role}
    <3> TAKE k \in DOMAIN indexes
    <3> DEFINE item == ItemOf(indexes[k], LayersAfter(indexes, k - 1))
    <3>1. indexes[k] \in 0 .. Length - 1
      BY <1>0
    <3>2. /\ item.sample \in Samples /\ item.sample = SampleIndex(indexes[k])
          /\ item.at = ignitions[SampleIndex(indexes[k])]
          /\ item.mask \in SUBSET OnWindow(item.at)
          /\ item.role \in Roles /\ (~ds.burned => item.role = First)
          /\ DOMAIN item.x = IF ds.area # NoArea THEN Roles ELSE {item.role}
      BY <3>1, ItemFacts DEF DataInv
    <3> QED
      BY <3>2
  <2>2. \A i : OnWindow(i)' = OnWindow(i)
    BY <1>1 DEF OnWindow, CellAt, WindowCells, Cells
  <2> QED
    BY <1>1, <2>1, <2>2 DEF ItemShape, Samples, Roles, First
<1>5. ASSUME RastersHoldWindows PROVE ItemAligned'
  <2>1. ASSUME NEW k \in DOMAIN items', NEW p \in items'[k].mask
        PROVE  Aligned(items'[k], p)
    <3>1. k \in DOMAIN indexes /\ items'[k] = ItemOf(indexes[k], LayersAfter(indexes, k - 1))
      BY <1>1, <2>1
    <3>2. indexes[k] \in 0 .. Length - 1
      BY <1>0, <3>1
    <3>3. LayersAgree(LayersAfter(indexes, k - 1)) /\ BurnsCached
      BY BlankedAlike DEF DataInv, InLoop
    <3> QED
      BY <1>5, <2>1, <3>1, <3>2, <3>3, ItemIsAligned DEF DataInv
  <2>2. \A k \in DOMAIN items' : \A p \in items'[k].mask : Aligned(items'[k], p)
    BY <2>1
  <2> QED
    <3>1. ds' = ds
      BY <1>1
    <3> QED
      BY <2>2, <3>1, SMTT(30) DEF Aligned, ItemAligned, CellFrom, Cells
<1> QED
  BY <1>2, <1>3, <1>4, <1>5 DEF DataInv

\* The indexes of a batch.
LEMMA BatchArith ==
    ASSUME NEW L \in Nat, NEW b \in Nat, b > 0, NEW p \in Nat, p < (L + b - 1) \div b
    PROVE  p * b < L
  OBVIOUS

LEMMA BatchFacts ==
    ASSUME DataTypes, position \in Nat, position < Batches
    PROVE  /\ Len(BatchIndexes) = AtMost(ds.batch, Length - position * ds.batch)
           /\ Len(BatchIndexes) \in 1 .. ds.batch
           /\ position * ds.batch + Len(BatchIndexes) <= Length
           /\ BatchIndexes \in Seq(0 .. Length - 1)
           /\ \A k \in 1 .. Len(BatchIndexes) :
                BatchIndexes[k] = position * ds.batch + k - 1
           /\ DOMAIN BatchIndexes = 1 .. Len(BatchIndexes)
<1>1. Length \in Nat /\ ds.batch \in Nat /\ ds.batch > 0
  <2>1. Len(ignitions) \in Nat /\ Len(ds.roles) \in Nat /\ ds.batch \in Nat \ {0}
    BY AcceptedTypes, LenProperties DEF DataTypes
  <2>2. Len(ignitions) * Len(ds.roles) \in Nat
    BY <2>1
  <2> QED
    BY <2>1, <2>2 DEF Length
<1>2. PICK start \in Nat : start = position * ds.batch
  BY <1>1
<1>3. start < Length
  BY <1>1, <1>2, BatchArith DEF Batches
<1>4. PICK size \in Nat : size = AtMost(ds.batch, Length - start)
  BY <1>1, <1>3 DEF AtMost
<1>5. size \in 1 .. ds.batch /\ start + size <= Length
  BY <1>1, <1>3, <1>4 DEF AtMost
<1>6. BatchIndexes = [k \in 1 .. size |-> start + k - 1]
  BY <1>2, <1>4 DEF BatchIndexes
<1>7. \A k \in 1 .. size : start + k - 1 \in 0 .. Length - 1
  BY <1>1, <1>5
<1>8. BatchIndexes \in [1 .. size -> 0 .. Length - 1]
  BY <1>6, <1>7
<1>9. BatchIndexes \in Seq(0 .. Length - 1)
  BY <1>8, SeqDef
<1>10. Len(BatchIndexes) = size /\ DOMAIN BatchIndexes = 1 .. size
  BY <1>6, <1>9, LenProperties
<1> QED
  BY <1>2, <1>4, <1>5, <1>6, <1>9, <1>10

\* The end of the constructor: the layers agree outside the area, and the burns
\* are cached.
LEMMA Constructed ==
    ASSUME DataInv, pc = "construct", Construct, ignitions' \in Seq(Int \X Int)
    PROVE  LayersAgree(fuels)' /\ BurnsCached' /\ ItemShape' /\ ItemAligned'
<1>1. /\ ds' = ds /\ items' = items /\ items = <<>>
      /\ fuels' = Collated /\ burns' = CachedBurns
      /\ fuels = [r \in Roles |-> Encoded(ds.raw[r])]
  BY DEF Construct, DataInv, BeforeLoop
<1>2. LayersAgree(fuels)'
  <2> SUFFICES ASSUME ds.area # NoArea, NEW c \in Cells, c \notin ds.area
               PROVE  fuels'["treatment"][c] = fuels'["baseline"][c]
    BY <1>1 DEF LayersAgree, Cells
  <2>1. "treatment" \in Roles /\ "baseline" \in Roles
    BY AcceptedTypes DEF DataInv, DataTypes
  <2>2. fuels' = [fuels EXCEPT !["treatment"] =
            [d \in Cells |-> IF d \in ds.area THEN fuels["treatment"][d] ELSE fuels["baseline"][d]]]
    BY <1>1 DEF Collated
  <2>3. DOMAIN fuels = Roles
    BY <1>1
  <2>4. /\ fuels'["treatment"] = [d \in Cells |->
             IF d \in ds.area THEN fuels["treatment"][d] ELSE fuels["baseline"][d]]
        /\ fuels'["baseline"] = fuels["baseline"]
    BY <2>1, <2>2, <2>3
  <2> QED
    BY <2>4
<1>3. BurnsCached'
  <2>1. \A i : WindowCells(i)' = WindowCells(i)
    BY <1>1 DEF WindowCells, Cells
  <2>2. ds.cache => \A r \in Roles : \A k \in DOMAIN ignitions' :
          burns'[r][k] = [c \in WindowCells(ignitions'[k]) |-> <<r, ds.numbers[k], c>>]
    BY <1>1 DEF CachedBurns, BurnWindow
  <2> QED
    BY <1>1, <2>1, <2>2 DEF BurnsCached, Roles
<1>4. DOMAIN items' = {}
  BY <1>1, EmptySeq
<1>5. ItemShape' /\ ItemAligned'
  BY <1>4 DEF ItemShape, ItemAligned
<1> QED
  BY <1>2, <1>3, <1>5

\* What is drawn burns.
LEMMA DrawnBurn ==
    ASSUME DataInv, pc = "construct", Sampled, NEW points \in ds.draws
    PROVE  /\ BurnablePoints(points) \in Seq(Int \X Int)
           /\ \A n \in DOMAIN BurnablePoints(points) :
                BurnsInAllRoles(BurnablePoints(points)[n])
<1>1. points \in Seq(Int \X Int)
  BY AcceptedTypes DEF DataInv, DataTypes
<1>2. \A p : Burnable(p) => BurnsInAllRoles(p)
  <2> SUFFICES ASSUME NEW p, Burnable(p), NEW r \in Roles PROVE p \in Cells /\ ds.raw[r][p] > N
    BY DEF Burnable, BurnsInAllRoles
  <2>1. p \in Cells /\ fuels[r][p] \notin {None, N}
    BY DEF Burnable
  <2>2. ds.raw[r] \in [Cells -> Nat \cup {NoData}]
    BY AcceptedTypes DEF DataInv, DataTypes
  <2>3. fuels[r][p] = IF ds.raw[r][p] = NoData THEN None ELSE ds.raw[r][p]
    BY <2>1, <2>2 DEF DataInv, BeforeLoop, Encoded
  <2>4. ds.raw[r][p] \in Nat \cup {NoData}
    BY <2>1, <2>2
  <2> QED
    BY <2>1, <2>3, <2>4 DEF None, N, NoData
<1> QED
  BY <1>1, <1>2, BurnableKept

LEMMA ConstructKeeps ==
    ASSUME DataInv, ConstructDataset
    PROVE  DataInv' /\ ItemAligned'
<1>0. pc = "construct" /\ DataTypes /\ BeforeLoop /\ SampledOK
  BY DEF ConstructDataset, DataInv
<1>1. CASE ReadIgnitions /\ BeginLoop
  <2>1. ~Sampled /\ ignitions' = ds.points /\ tries' = tries /\ Construct
    BY <1>1 DEF ReadIgnitions
  <2>2. ds' = ds /\ pc' # "construct" /\ ~Sampled'
    BY <1>1, <2>1 DEF BeginLoop, Construct, Sampled
  <2>3. ignitions' \in Seq(Int \X Int)
    BY <1>0, <2>1, AcceptedTypes DEF DataTypes
  <2>4. DataTypes' /\ BeforeLoop' /\ SampledOK'
    BY <1>0, <2>1, <2>2, <2>3 DEF DataTypes, BeforeLoop, SampledOK
  <2>5. LayersAgree(fuels)' /\ BurnsCached' /\ ItemShape' /\ ItemAligned'
    BY <1>0, <2>1, <2>3, Constructed
  <2> QED
    BY <2>4, <2>5 DEF DataInv, InLoop
<1>2. ASSUME NEW points \in ds.draws, DrawPoints(points),
             IF EnoughDrawn THEN BeginLoop ELSE UNCHANGED <<pc, task, ds, fuels, burns, items>>
      PROVE  DataInv' /\ ItemAligned'
  <2> DEFINE drawn == ignitions \o BurnablePoints(points)
  <2>0. Sampled /\ tries' = tries + 1
    BY <1>2 DEF DrawPoints
  <2>1. /\ BurnablePoints(points) \in Seq(Int \X Int)
        /\ \A n \in DOMAIN BurnablePoints(points) :
             BurnsInAllRoles(BurnablePoints(points)[n])
    BY <1>0, <1>2, <2>0, DrawnBurn
  <2>2. drawn \in Seq(Int \X Int) /\ \A n \in DOMAIN drawn : BurnsInAllRoles(drawn[n])
    <3>1. ignitions \in Seq(Int \X Int) /\ \A n \in DOMAIN ignitions : BurnsInAllRoles(ignitions[n])
      BY <1>0, <2>0 DEF DataTypes, SampledOK
    <3> HIDE DEF BurnsInAllRoles
    <3> QED
      BY <2>1, <3>1, ConcatProperties, LenProperties
  <2>3. Len(drawn) \in Nat /\ ds.target \in Nat /\ tries \in Nat /\ MaxResample \in Nat
        /\ tries <= MaxResample
    BY <1>0, <2>2, LenProperties, AcceptedTypes DEF DataTypes, BeforeLoop
  <2>4. IF Len(drawn) < ds.target /\ ~ExhaustedAfter(tries + 1)
        THEN ignitions' = drawn
        ELSE ignitions' = SubSeq(drawn, 1, AtMost(Len(drawn), ds.target))
    BY <1>2 DEF DrawPoints
  <2> HIDE DEF drawn
  <2>5. CASE Len(drawn) < ds.target /\ ~ExhaustedAfter(tries + 1)
    <3>1. ignitions' = drawn /\ ~EnoughDrawn
      BY <2>0, <2>3, <2>4, <2>5 DEF EnoughDrawn
    <3>2. pc' = pc /\ ds' = ds /\ fuels' = fuels /\ burns' = burns /\ items' = items
      BY <1>2, <3>1
    <3>3. DataTypes' /\ BeforeLoop' /\ SampledOK'
      <4>1. tries' <= MaxResample /\ tries' \in Nat
        BY <2>0, <2>3, <2>5 DEF ExhaustedAfter
      <4>2. DataTypes' /\ BeforeLoop'
        BY <1>0, <2>0, <2>2, <3>1, <3>2, <4>1 DEF DataTypes, BeforeLoop, Sampled, Roles
      <4>3. SampledOK'
        BY <1>0, <2>2, <3>1, <3>2 DEF SampledOK, BurnsInAllRoles, Roles, Cells
      <4> QED
        BY <4>2, <4>3
    <3>4. items' = <<>> /\ pc' = "construct"
      BY <1>0, <3>2 DEF BeforeLoop
    <3>5. DOMAIN items' = {}
      BY <3>4, EmptySeq
    <3> QED
      BY <3>3, <3>4, <3>5 DEF DataInv, InLoop, ItemShape, ItemAligned
  <2>6. CASE ~(Len(drawn) < ds.target /\ ~ExhaustedAfter(tries + 1))
    <3> DEFINE n == AtMost(Len(drawn), ds.target)
    <3>1. /\ n \in 0 .. Len(drawn) /\ n <= ds.target
          /\ n < ds.target => n = Len(drawn) /\ tries + 1 = MaxResample + 1
      BY <2>3, <2>6 DEF AtMost, ExhaustedAfter
    <3>2. ignitions' = SubSeq(drawn, 1, n)
      BY <2>4, <2>6
    <3> HIDE DEF n
    <3>3. /\ ignitions' \in Seq(Int \X Int) /\ Len(ignitions') = n
          /\ DOMAIN ignitions' = 1 .. n
          /\ \A k \in 1 .. n : ignitions'[k] = drawn[k] /\ k \in DOMAIN drawn
      <4>1. \A k \in 1 .. n : drawn[k] \in Int \X Int /\ k \in DOMAIN drawn
        BY <2>2, <2>3, <3>1, ElementOfSeq, LenProperties
      <4>2. 1 \in 1 .. Len(drawn) + 1 /\ n \in 0 .. Len(drawn)
        BY <2>3, <3>1
      <4> QED
        BY <2>2, <3>1, <3>2, <4>1, <4>2, SubSeqProperties
    <3>4. EnoughDrawn
      BY <2>0, <2>3, <3>1, <3>3 DEF EnoughDrawn, ExhaustedAfter
    <3>5. BeginLoop
      BY <1>2, <3>4
    <3>6. Construct /\ ds' = ds /\ pc' # "construct"
      BY <3>5 DEF BeginLoop, Construct
    <3>7. DataTypes' /\ BeforeLoop'
      BY <1>0, <2>0, <2>3, <3>3, <3>6 DEF DataTypes, BeforeLoop
    <3>8. SampledOK'
      <4>1. \A k \in DOMAIN ignitions' : BurnsInAllRoles(ignitions'[k])
        BY <2>2, <3>3
      <4>2. Len(ignitions') <= ds.target /\ (Len(ignitions') < ds.target => tries' = MaxResample + 1)
        BY <2>0, <3>1, <3>3
      <4> QED
        BY <3>6, <4>1, <4>2 DEF SampledOK, BurnsInAllRoles, Roles, Cells
    <3>9. LayersAgree(fuels)' /\ BurnsCached' /\ ItemShape' /\ ItemAligned'
      BY <1>0, <3>3, <3>6, Constructed
    <3> QED
      BY <3>7, <3>8, <3>9 DEF DataInv, InLoop
  <2> QED
    BY <2>5, <2>6
<1> QED
  BY <1>1, <1>2 DEF ConstructDataset

-----------------------------------------------------------------------------
\* Where the command is

Statuses == {"pending", "queued", "running", "done", "failed", "taken", "cancelled"}

Phase ==
    /\ pc \in {"construct", "load", "forward", "drain", "drain_all", "collect", "leave",
               "leave_failed", "leave_cancelled", "done", "failed", "cancelled"}
    /\ pc = "load" => ds.cmd \in {"train", "run_dl", "evaluate"}
    /\ pc = "forward" => ds.cmd \in {"run_dl", "evaluate"} /\ position > 0
    /\ pc = "drain" => ds.cmd = "evaluate" /\ position > 0
    /\ pc = "drain_all" => ds.cmd = "evaluate"
    /\ pc = "collect" => Pooled
    /\ pc = "leave_cancelled" => ds.cmd = "run_pt"
    /\ pc \in {"leave", "leave_failed"} => ds.cmd = "evaluate" \/ Pooled

\* Nothing has happened before the loop.
Untouched ==
    pc = "construct" =>
        /\ position = 0 /\ sim = 0 /\ task = <<>> /\ pending = <<>> /\ writes = <<>>
        /\ fires = NoFiles /\ agg = NoFires(ds) /\ kept = {}
        /\ output = NoOutput /\ files = NoFiles /\ row = FALSE

Loop ==
    /\ task \in Seq(Statuses)
    /\ position \in 0 .. Batches

\* The number of batches does not depend on the loop.
LEMMA BatchCount ==
    ASSUME NEW d \in Datasets, NEW n \in Nat
    PROVE  /\ (IF d.burned THEN n * Len(d.roles) ELSE n) \in Nat
           /\ ((IF d.burned THEN n * Len(d.roles) ELSE n) + d.batch - 1) \div d.batch \in Nat
<1>1. Len(d.roles) \in Nat /\ d.batch \in Nat /\ d.batch > 0
  BY InferenceAssumption, LenProperties DEF Accepted
<1>2. n * Len(d.roles) \in Nat
  BY <1>1
<1>3. PICK L \in Nat : L = IF d.burned THEN n * Len(d.roles) ELSE n
  BY <1>2
<1>4. PICK b \in Nat : b = d.batch /\ b > 0
  BY <1>1
<1>5. (L + b - 1) \div b \in Nat
  BY <1>4
<1> QED
  BY <1>3, <1>4, <1>5

LEMMA BatchesNat ==
    ASSUME DataTypes
    PROVE  Batches \in Nat /\ Length \in Nat
<1>1. ds \in Datasets /\ Len(ignitions) \in Nat
  BY LenProperties DEF DataTypes
<1> QED
  BY <1>1, BatchCount DEF Batches, Length

\* The constructor changes nothing of the loop but where it begins.
LEMMA ConstructFacts ==
    ASSUME ConstructDataset
    PROVE  /\ pc = "construct"
           /\ pc' \in {"construct", "load", "collect"}
           /\ pc' = "collect" => Pooled
           /\ pc' = "load" => ~Pooled
           /\ ds' = ds /\ items' = items
           /\ position' = position /\ sim' = sim /\ fires' = fires /\ agg' = agg /\ kept' = kept
           /\ pending' = pending /\ writes' = writes /\ cancel' = cancel /\ output' = output
           /\ files' = files /\ row' = row
           /\ task' = IF pc' = "collect" THEN [k \in DOMAIN ignitions' |-> "pending"] ELSE task
<1>1. /\ pc = "construct" /\ position' = position /\ sim' = sim /\ fires' = fires /\ agg' = agg
      /\ kept' = kept /\ pending' = pending /\ writes' = writes /\ cancel' = cancel
      /\ output' = output /\ files' = files /\ row' = row
  BY DEF ConstructDataset, loopVars
<1>2. BeginLoop \/ UNCHANGED <<pc, task, ds, fuels, burns, items>>
  BY DEF ConstructDataset
<1>3. CASE BeginLoop
  BY <1>1, <1>3 DEF BeginLoop, Construct
<1> QED
  BY <1>1, <1>2, <1>3

LEMMA PhaseStep ==
    ASSUME DataTypes, Phase, Loop, [Next]_vars
    PROVE  Phase'
<1> USE DEF Phase, Pooled
<1>0. ds.cmd \in {"train", "run_dl", "run_pt", "evaluate", "evaluate_pt"}
  BY AcceptedTypes DEF DataTypes
<1>1. CASE ConstructDataset
  BY <1>0, <1>1, ConstructFacts
<1>2. CASE SetCancel
  BY <1>2 DEF SetCancel, dataVars, loopVars
<1>3. CASE TrainItem
  BY <1>3 DEF TrainItem, ServeBatch, loopVars
<1>4. CASE LoadBatch
  BY <1>4 DEF LoadBatch, ServeBatch, Loop
<1>5. CASE ForwardRun
  BY <1>5 DEF ForwardRun, dataVars
<1>6. CASE WriteRun
  BY <1>6 DEF WriteRun, dataVars, loopVars
<1>7. CASE ForwardEvaluate
  BY <1>7 DEF ForwardEvaluate, dataVars
<1>8. CASE Drain
  BY <1>8 DEF Drain, DrainOldest, dataVars, loopVars
<1>9. CASE SubmitWrite
  BY <1>9 DEF SubmitWrite, dataVars, loopVars
<1>10. CASE EndPass
  BY <1>10 DEF EndPass, dataVars
<1>11. CASE LastDrained
  BY <1>11 DEF LastDrained, dataVars, loopVars
<1>12. CASE AllTaken
  BY <1>12 DEF AllTaken, dataVars, loopVars
<1>13. CASE Leave
  BY <1>13 DEF Leave, dataVars, loopVars
<1>14. ASSUME NEW t \in DOMAIN task, Collect(t) PROVE Phase'
  BY <1>14 DEF Collect, dataVars
<1>15. ASSUME NEW t \in DOMAIN task, QueueTask(t) \/ StartTask(t) \/ EndWrite(t) \/ EndSimulation(t)
       PROVE  Phase'
  BY <1>15 DEF QueueTask, StartTask, FirstOf, EndWrite, EndSimulation, dataVars, loopVars
<1>16. CASE UNCHANGED vars
  BY <1>16 DEF vars, dataVars, loopVars
<1> QED
  BY <1>1, <1>2, <1>3, <1>4, <1>5, <1>6, <1>7, <1>8, <1>9, <1>10, <1>11, <1>12, <1>13,
     <1>14, <1>15, <1>16 DEF Next, Command, Pool

LEMMA UntouchedStep ==
    ASSUME Phase, Untouched, [Next]_vars
    PROVE  Untouched'
<1>1. CASE ConstructDataset
  BY <1>1, ConstructFacts DEF Untouched
<1>2. CASE SetCancel
  BY <1>2 DEF SetCancel, dataVars, loopVars, poolVars, Untouched
<1>3. ASSUME pc = "construct", ~ConstructDataset, ~SetCancel, Next PROVE FALSE
  <2>1. task = <<>> /\ DOMAIN task = {}
    BY <1>3, EmptySeq DEF Untouched
  <2> QED
    BY <1>3, <2>1 DEF Next, Command, Pool, TrainItem, LoadBatch, ForwardRun, WriteRun,
       ForwardEvaluate, Drain, SubmitWrite, EndPass, LastDrained, AllTaken, Leave
<1>4. ASSUME pc # "construct", Next PROVE pc' # "construct"
  BY <1>4 DEF Phase, Next, Command, Pool, ConstructDataset, TrainItem, LoadBatch, ForwardRun,
     WriteRun, ForwardEvaluate, Drain, DrainOldest, SubmitWrite, EndPass, LastDrained, AllTaken,
     Leave, Collect, QueueTask, StartTask, FirstOf, EndWrite, EndSimulation, SetCancel
<1>5. CASE UNCHANGED vars
  BY <1>5 DEF vars, dataVars, loopVars, poolVars, Untouched
<1> QED
  BY <1>1, <1>2, <1>3, <1>4, <1>5 DEF Untouched

\* All other steps but those that serve items leave the dataset alone.
LEMMA DataFrame ==
    ASSUME Phase, [Next]_vars
    PROVE  \/ ConstructDataset \/ TrainItem \/ LoadBatch
           \/ /\ UNCHANGED dataVars
              /\ pc' = pc \/ (pc # "construct" /\ pc' # "construct")
<1>1. CASE SetCancel
  BY <1>1 DEF SetCancel
<1>2. CASE ForwardRun \/ WriteRun \/ ForwardEvaluate
  BY <1>2 DEF ForwardRun, WriteRun, ForwardEvaluate
<1>3. CASE Drain \/ SubmitWrite \/ EndPass \/ LastDrained
  BY <1>3 DEF Drain, DrainOldest, SubmitWrite, EndPass, LastDrained
<1>4. CASE AllTaken \/ Leave
  BY <1>4 DEF AllTaken, Leave
<1>5. ASSUME NEW t \in DOMAIN task,
             Collect(t) \/ QueueTask(t) \/ StartTask(t) \/ EndWrite(t) \/ EndSimulation(t)
      PROVE  UNCHANGED dataVars /\ (pc' = pc \/ (pc # "construct" /\ pc' # "construct"))
  BY <1>5 DEF Collect, QueueTask, StartTask, FirstOf, EndWrite, EndSimulation
<1>6. CASE UNCHANGED vars
  BY <1>6 DEF vars
<1> QED
  BY <1>1, <1>2, <1>3, <1>4, <1>5, <1>6 DEF Next, Command, Pool

LEMMA DataStep ==
    ASSUME DataInv, Phase, Loop, RastersHoldWindows => ItemAligned, [Next]_vars
    PROVE  DataInv' /\ (RastersHoldWindows => ItemAligned')
<1>1. CASE ConstructDataset
  BY <1>1, ConstructKeeps
<1>2. CASE TrainItem
  <2>1. PICK idx \in 0 .. Length - 1 : ServeBatch(<<idx>>)
    BY <1>2 DEF TrainItem
  <2>2. <<idx>> \in Seq(0 .. Length - 1) /\ pc # "construct" /\ pc' # "construct"
    BY <1>2 DEF TrainItem
  <2> QED
    BY <2>1, <2>2, ServeKeeps
<1>3. CASE LoadBatch
  <2>1. ServeBatch(BatchIndexes) /\ pc # "construct" /\ pc' # "construct" /\ position < Batches
    BY <1>3 DEF LoadBatch
  <2>2. BatchIndexes \in Seq(0 .. Length - 1)
    BY <2>1, BatchFacts DEF DataInv, Loop
  <2> QED
    BY <2>1, <2>2, ServeKeeps
<1>4. CASE UNCHANGED dataVars /\ (pc' = pc \/ (pc # "construct" /\ pc' # "construct"))
  <2>1. /\ ds' = ds /\ ignitions' = ignitions /\ tries' = tries /\ fuels' = fuels
        /\ burns' = burns /\ items' = items
    BY <1>4 DEF dataVars
  <2>2. (pc' = "construct") <=> (pc = "construct")
    BY <1>4
  <2>3. DataTypes' /\ BeforeLoop'
    BY <2>1, <2>2 DEF DataInv, DataTypes, BeforeLoop, Sampled, Roles
  <2>4. SampledOK' /\ ItemShape'
    <3>1. SampledOK'
      BY <2>1, <2>2 DEF DataInv, SampledOK, Sampled, BurnsInAllRoles, Roles, Cells
    <3>2. \A i : OnWindow(i)' = OnWindow(i)
      BY <2>1 DEF OnWindow, CellAt, WindowCells, Cells
    <3>3. ItemShape'
      BY <2>1, <3>2 DEF DataInv, ItemShape, Roles, Samples, First
    <3> QED
      BY <3>1, <3>3
  <2>5. InLoop'
    <3>1. LayersAgree(fuels)' <=> LayersAgree(fuels)
      BY <2>1 DEF LayersAgree, Cells
    <3>2. BurnsCached' <=> BurnsCached
      <4>1. \A i : WindowCells(i)' = WindowCells(i)
        BY <2>1 DEF WindowCells, Cells
      <4> QED
        BY <2>1, <4>1 DEF BurnsCached, Roles
    <3> QED
      BY <2>2, <3>1, <3>2 DEF DataInv, InLoop
  <2>6. ItemAligned' <=> ItemAligned
    BY <2>1 DEF ItemAligned, CellFrom, Cells
  <2> QED
    BY <2>3, <2>4, <2>5, <2>6 DEF DataInv
<1> QED
  BY <1>1, <1>2, <1>3, <1>4, DataFrame

LEMMA LoopStep ==
    ASSUME DataInv, DataInv', Phase, Untouched, Loop, [Next]_vars
    PROVE  Loop'
<1>1. task' \in Seq(Statuses)
  <2> USE DEF Loop, dataVars, loopVars, poolVars
  <2>0. \A S, t \in DOMAIN task : S \in Statuses => [task EXCEPT ![t] = S] \in Seq(Statuses)
    BY ExceptSeq
  <2>1. CASE ConstructDataset
    <3>1. CASE pc' = "collect"
      <4>1. task' = [k \in 1 .. Len(ignitions') |-> "pending"] /\ Len(ignitions') \in Nat
        BY <2>1, <3>1, ConstructFacts, LenProperties DEF DataInv, DataTypes
      <4>2. task' \in [1 .. Len(ignitions') -> Statuses]
        BY <4>1 DEF Statuses
      <4> QED
        BY <4>1, <4>2, SeqDef
    <3> QED
      BY <2>1, <3>1, ConstructFacts
  <2>2. CASE SubmitWrite
    <3>1. "pending" \in Statuses /\ task' = Append(task, "pending")
      BY <2>2 DEF SubmitWrite, Statuses
    <3> QED
      BY <3>1, AppendProperties
  <2>3. ASSUME NEW t \in DOMAIN task, QueueTask(t) \/ StartTask(t) \/ EndWrite(t) \/ EndSimulation(t)
        PROVE  task' \in Seq(Statuses)
    <3>1. \E S \in Statuses : task' = [task EXCEPT ![t] = S]
      BY <2>3 DEF QueueTask, StartTask, FirstOf, EndWrite, EndSimulation, Statuses
    <3> QED
      BY <2>0, <3>1
  <2>4. ASSUME NEW t \in DOMAIN task, Collect(t)
        PROVE  task' \in Seq(Statuses)
    <3>1. \/ task' = task \/ task' = CancelWaiting \/ task' = [task EXCEPT ![t] = "taken"]
      BY <2>4 DEF Collect
    <3>2. CancelWaiting \in Seq(Statuses)
      <4>1. /\ DOMAIN task = 1 .. Len(task) /\ Len(task) \in Nat
            /\ \A k \in 1 .. Len(task) : task[k] \in Statuses
        BY LenProperties, ElementOfSeq
      <4>2. CancelWaiting \in [1 .. Len(task) -> Statuses]
        BY <4>1 DEF CancelWaiting, Statuses
      <4> QED
        BY <4>1, <4>2, SeqDef
    <3> QED
      BY <2>0, <3>1, <3>2 DEF Statuses
  <2>5. CASE ~(ConstructDataset \/ SubmitWrite \/ \E t \in DOMAIN task : QueueTask(t)
                 \/ StartTask(t) \/ EndWrite(t) \/ EndSimulation(t) \/ Collect(t))
    BY <2>5 DEF Next, Command, Pool, TrainItem, LoadBatch, ForwardRun, WriteRun,
       ForwardEvaluate, Drain, DrainOldest, EndPass, LastDrained, AllTaken, Leave, SetCancel, vars
  <2> QED
    BY <2>1, <2>2, <2>3, <2>4, <2>5
<1>2. position' \in 0 .. Batches'
  <2> USE DEF Loop
  <2>1. Batches \in Nat /\ Batches' \in Nat
    <3>1. ds' \in Datasets /\ Len(ignitions') \in Nat
      BY LenProperties DEF DataInv, DataTypes
    <3>2. Batches' \in Nat
      BY <3>1, BatchCount DEF Batches, Length
    <3> QED
      BY <3>2, BatchesNat DEF DataInv
  <2>2. CASE ConstructDataset
    BY <2>1, <2>2, ConstructFacts DEF Untouched
  <2>3. CASE ~ConstructDataset
    <3>1. ds' = ds /\ ignitions' = ignitions
      BY <2>3, DataFrame DEF TrainItem, LoadBatch, ServeBatch, dataVars
    <3>2. Batches' = Batches
      BY <3>1 DEF Batches, Length
    <3>3. position' \in {position, 0} \/ (position < Batches /\ position' = position + 1)
      BY <2>3 DEF Next, Command, Pool, TrainItem, LoadBatch, ForwardRun, WriteRun,
         ForwardEvaluate, Drain, DrainOldest, SubmitWrite, EndPass, LastDrained, AllTaken, Leave,
         Collect, QueueTask, StartTask, FirstOf, EndWrite, EndSimulation, SetCancel, vars, loopVars
    <3> QED
      BY <2>1, <3>2, <3>3
  <2> QED
    BY <2>2, <2>3
<1> QED
  BY <1>1, <1>2 DEF Loop

Core ==
    /\ DataInv /\ (RastersHoldWindows => ItemAligned)
    /\ Phase /\ Untouched /\ Loop

LEMMA CoreInitially == Init => Core
<1> SUFFICES ASSUME Init PROVE Core
  OBVIOUS
<1> USE DEF Init, DataInit
<1>1. <<>> \in Seq(Int \X Int) /\ <<>> \in Seq(Statuses) /\ DOMAIN items = {}
      /\ DOMAIN ignitions = {}
  BY EmptySeq
<1>2. DataTypes /\ BeforeLoop /\ SampledOK
  BY <1>1, AcceptedTypes DEF DataTypes, BeforeLoop, SampledOK
<1>3. InLoop /\ ItemShape /\ ItemAligned
  BY <1>1 DEF InLoop, ItemShape, ItemAligned
<1>4. Phase /\ Untouched
  BY DEF Phase, Untouched
<1>5. Loop
  BY <1>1, <1>2, BatchesNat DEF Loop
<1> QED
  BY <1>2, <1>3, <1>4, <1>5 DEF Core, DataInv

LEMMA CoreStep == Core /\ [Next]_vars => Core'
<1> SUFFICES ASSUME Core, [Next]_vars PROVE Core'
  OBVIOUS
<1>1. DataInv' /\ (RastersHoldWindows => ItemAligned')
  BY DataStep DEF Core
<1>2. Phase' /\ Untouched'
  BY PhaseStep, UntouchedStep DEF Core, DataInv
<1>3. Loop'
  BY <1>1, LoopStep DEF Core
<1> QED
  BY <1>1, <1>2, <1>3 DEF Core

LEMMA CoreAlways == Spec => []Core
<1>1. Init => Core
  BY CoreInitially
<1>2. Core /\ [Next]_vars => Core'
  BY CoreStep
<1> QED
  BY <1>1, <1>2, PTL DEF Spec

(***************************************************************************)
(* datasets/varloc.py: on rasters that are no smaller than the window,     *)
(* wherever an ignition is and whichever border clamps its window, cached  *)
(* or not, and however many views were blanked before, an item shows the   *)
(* same cell in every channel, its own burn, and layers that differ in the *)
(* treatment area only.                                                    *)
(***************************************************************************)
THEOREM ItemsAligned == RastersHoldWindows => (Spec => []ItemAligned)
<1>1. RastersHoldWindows /\ Core => ItemAligned
  BY DEF Core
<1>2. ASSUME RastersHoldWindows PROVE Spec => []ItemAligned
  <2>1. Core => ItemAligned
    BY <1>1, <1>2
  <2> QED
    BY <2>1, CoreAlways, PTL
<1> QED
  BY <1>2

(***************************************************************************)
(* _sample_ignitions: what is sampled burns in every role, no more than    *)
(* were asked for, and fewer only when every resample was drawn.           *)
(***************************************************************************)
THEOREM SampledIgnitionsFit == Spec => []IgnitionsFit
<1>1. Core => IgnitionsFit
  <2> SUFFICES ASSUME Core, Sampled PROVE IgnitionsFit
    BY DEF IgnitionsFit
  <2>1. \A k \in DOMAIN ignitions : BurnsInAllRoles(ignitions[k])
    BY DEF Core, DataInv, SampledOK
  <2>2. items # <<>> => Len(ignitions) <= ds.target
                        /\ (Len(ignitions) < ds.target => tries = MaxResample + 1)
    BY DEF Core, DataInv, SampledOK, BeforeLoop
  <2> QED
    BY <2>1, <2>2 DEF IgnitionsFit, BurnsInAllRoles
<1> QED
  BY <1>1, CoreAlways, PTL

-----------------------------------------------------------------------------
\* A cancelled run

\* The call queue and the workers are bounded; when the event was seen, the
\* tasks that waited were cancelled.
Places ==
    ds.cmd = "run_pt" =>
        /\ Cardinality(Queued) <= ds.workers + 1
        /\ Cardinality(Running) <= ds.workers

NoneWaits == pc = "leave_cancelled" => Waiting = {}

\* One more and one less.
LEMMA OneMoves ==
    ASSUME NEW S, IsFiniteSet(S), NEW T, NEW t, T \in SUBSET (S \cup {t})
    PROVE  /\ IsFiniteSet(T) /\ Cardinality(T) \in Nat /\ Cardinality(S) \in Nat
           /\ Cardinality(T) <= Cardinality(S) + 1
           /\ t \notin T => Cardinality(T) <= Cardinality(S)
<1>1. IsFiniteSet(S \cup {t}) /\ Cardinality(S \cup {t}) \in Nat /\ Cardinality(S) \in Nat
  BY FS_AddElement, FS_CardinalityType
<1>2. Cardinality(S \cup {t}) <= Cardinality(S) + 1
  BY <1>1, FS_AddElement
<1>3. IsFiniteSet(T) /\ Cardinality(T) <= Cardinality(S \cup {t})
  BY <1>1, FS_Subset
<1>4. Cardinality(T) \in Nat
  BY <1>3, FS_CardinalityType
<1>5. ASSUME t \notin T PROVE Cardinality(T) <= Cardinality(S)
  <2>1. T \in SUBSET S
    BY <1>5
  <2> QED
    BY <2>1, FS_Subset
<1> QED
  BY <1>1, <1>2, <1>3, <1>4, <1>5

LEMMA TasksFinite ==
    ASSUME Core
    PROVE  IsFiniteSet(Queued) /\ IsFiniteSet(Running)
<1>1. Len(task) \in Nat /\ DOMAIN task = 1 .. Len(task)
  BY LenProperties DEF Core, Loop
<1>2. IsFiniteSet(1 .. Len(task))
  BY <1>1, FS_Interval
<1>3. Queued \in SUBSET (1 .. Len(task)) /\ Running \in SUBSET (1 .. Len(task))
  BY <1>1 DEF Queued, Running
<1> QED
  BY <1>2, <1>3, FS_Subset

\* The steps that touch a pool of processes.
LEMMA PoolSteps ==
    ASSUME Core, [Next]_vars, ds.cmd = "run_pt", ~ConstructDataset
    PROVE  /\ ds' = ds
           /\ \/ task' = task
              \/ \E t \in DOMAIN task : QueueTask(t) \/ StartTask(t)
              \/ \E t \in DOMAIN task : EndSimulation(t)
              \/ \E t \in DOMAIN task : Collect(t)
<1>1. Phase
  BY DEF Core
<1>2. ~TrainItem /\ ~LoadBatch /\ ~ForwardRun /\ ~WriteRun /\ ~ForwardEvaluate /\ ~EndPass
  BY DEF TrainItem, LoadBatch, ForwardRun, WriteRun, ForwardEvaluate, EndPass
<1>3. ~SubmitWrite /\ ~Drain /\ \A t \in DOMAIN task : ~EndWrite(t)
  BY <1>1 DEF SubmitWrite, Drain, EndWrite, Phase
<1>4. ds' = ds
  BY <1>1, <1>2, DataFrame DEF dataVars
<1>5. CASE LastDrained \/ AllTaken \/ Leave \/ SetCancel \/ UNCHANGED vars
  BY <1>4, <1>5 DEF LastDrained, AllTaken, Leave, SetCancel, vars, poolVars
<1> QED
  BY <1>2, <1>3, <1>4, <1>5 DEF Next, Command, Pool

LEMMA PlacesStep ==
    ASSUME Core, Places, [Next]_vars
    PROVE  Places'
<1>1. CASE ConstructDataset
  <2> SUFFICES ASSUME ds'.cmd = "run_pt" PROVE Places'
    BY DEF Places
  <2>1. DOMAIN task = {} /\ ds' \in Datasets /\ ds'.workers \in Nat
    BY <1>1, EmptySeq, ConstructFacts, AcceptedTypes DEF Core, Untouched, ConstructDataset, DataInv,
       DataTypes
  <2>2. Queued' = {} /\ Running' = {}
    BY <1>1, <2>1, ConstructFacts DEF Core, Untouched, Queued, Running
  <2> QED
    BY <2>1, <2>2, FS_EmptySet DEF Places
<1>2. CASE ~ConstructDataset
  <2> SUFFICES ASSUME ds'.cmd = "run_pt" PROVE Places'
    BY DEF Places
  <2>1. ds' = ds /\ ds.workers \in Nat
    BY <1>2, DataFrame, AcceptedTypes
       DEF Core, DataInv, DataTypes, TrainItem, LoadBatch, ServeBatch, dataVars
  <2>2. IsFiniteSet(Queued) /\ IsFiniteSet(Running)
    BY TasksFinite
  <2>3. Cardinality(Queued) <= ds.workers + 1 /\ Cardinality(Running) <= ds.workers
    BY <2>1 DEF Places
  <2>4. task \in Seq(Statuses)
    BY DEF Core, Loop
  <2>5. Cardinality(Queued) \in Nat /\ Cardinality(Running) \in Nat
    BY <2>2, FS_CardinalityType
  <2>6. CASE task' = task
    BY <2>1, <2>3, <2>6 DEF Places, Queued, Running
  <2>7. ASSUME NEW t \in DOMAIN task, QueueTask(t) PROVE Places'
    <3>1. Queued' \in SUBSET (Queued \cup {t}) /\ Running' \in SUBSET Running
      BY <2>7 DEF QueueTask, Queued, Running
    <3>2. Cardinality(Queued) <= ds.workers
      BY <2>7 DEF QueueTask
    <3>3. Cardinality(Queued') \in Nat /\ Cardinality(Queued') <= Cardinality(Queued) + 1
      BY <2>2, <3>1, OneMoves
    <3>4. Cardinality(Running') <= Cardinality(Running) /\ Cardinality(Running') \in Nat
      BY <2>2, <3>1, FS_Subset, FS_CardinalityType
    <3> QED
      BY <2>1, <2>3, <2>5, <3>2, <3>3, <3>4 DEF Places
  <2>8. ASSUME NEW t \in DOMAIN task, StartTask(t) PROVE Places'
    <3>1. Queued' \in SUBSET Queued /\ Running' \in SUBSET (Running \cup {t})
      BY <2>8 DEF StartTask, Queued, Running
    <3>2. Cardinality(Running) < ds.workers
      BY <2>8 DEF StartTask
    <3>3. Cardinality(Running') \in Nat /\ Cardinality(Running') <= Cardinality(Running) + 1
      BY <2>2, <3>1, OneMoves
    <3>4. Cardinality(Queued') <= Cardinality(Queued) /\ Cardinality(Queued') \in Nat
      BY <2>2, <3>1, FS_Subset, FS_CardinalityType
    <3> QED
      BY <2>1, <2>3, <2>5, <3>2, <3>3, <3>4 DEF Places
  <2>9. ASSUME NEW t \in DOMAIN task, EndSimulation(t) \/ Collect(t) PROVE Places'
    <3>1. \/ task' = task \/ task' = CancelWaiting
          \/ \E S \in {"done", "failed", "taken"} : task' = [task EXCEPT ![t] = S]
      BY <2>9 DEF EndSimulation, Collect
    <3>2. Queued' \in SUBSET Queued /\ Running' \in SUBSET Running
      BY <3>1 DEF Queued, Running, CancelWaiting
    <3>3. Cardinality(Queued') <= Cardinality(Queued) /\ Cardinality(Queued') \in Nat
      BY <2>2, <3>2, FS_Subset, FS_CardinalityType
    <3>4. Cardinality(Running') <= Cardinality(Running) /\ Cardinality(Running') \in Nat
      BY <2>2, <3>2, FS_Subset, FS_CardinalityType
    <3> QED
      BY <2>1, <2>3, <2>5, <3>3, <3>4 DEF Places
  <2> QED
    BY <1>2, <2>1, <2>6, <2>7, <2>8, <2>9, PoolSteps
<1> QED
  BY <1>1, <1>2

LEMMA NoneWaitsStep ==
    ASSUME Core, NoneWaits, [Next]_vars
    PROVE  NoneWaits'
<1>0. task \in Seq(Statuses) /\ Phase
  BY DEF Core, Loop
<1>1. CASE pc # "leave_cancelled" /\ pc' = "leave_cancelled"
  <2>1. task' = CancelWaiting
    BY <1>0, <1>1, ConstructFacts DEF Phase, Next, Command, Pool, TrainItem, LoadBatch, ForwardRun,
       WriteRun, ForwardEvaluate, Drain, DrainOldest, SubmitWrite, EndPass, LastDrained, AllTaken,
       Leave, Collect, QueueTask, StartTask, EndWrite, EndSimulation, SetCancel, vars
  <2> QED
    BY <2>1 DEF NoneWaits, Waiting, CancelWaiting
<1>2. CASE pc = "leave_cancelled" /\ pc' = "leave_cancelled"
  <2>1. Waiting = {} /\ ds.cmd = "run_pt" /\ ~ConstructDataset
    BY <1>0, <1>2 DEF NoneWaits, Phase, ConstructDataset
  <2>2. \/ task' = task
        \/ \E t \in DOMAIN task, S \in Statuses \ {"pending"} : task' = [task EXCEPT ![t] = S]
    BY <1>2, <2>1, PoolSteps DEF QueueTask, StartTask, EndSimulation, Collect, Statuses
  <2> QED
    BY <2>1, <2>2 DEF NoneWaits, Waiting
<1> QED
  BY <1>1, <1>2 DEF NoneWaits

LEMMA NoneAdded ==
    ASSUME Core, Places, NoneWaits, [Next]_vars, pc = "leave_cancelled"
    PROVE  /\ Queued' \cup Running' \subseteq Queued \cup Running
           /\ Cardinality(Queued \cup Running) <= 2 * ds.workers + 1
<1>0. task \in Seq(Statuses) /\ ds.cmd = "run_pt" /\ ~ConstructDataset /\ Waiting = {}
  BY DEF Core, Loop, Phase, NoneWaits, ConstructDataset
<1>1. Queued' \cup Running' \subseteq Queued \cup Running
  <2>1. \/ task' = task
        \/ \E t \in DOMAIN task : StartTask(t) \/ EndSimulation(t)
    BY <1>0, PoolSteps DEF QueueTask, FirstOf, Collect
  <2>2. ASSUME NEW t \in DOMAIN task, StartTask(t) \/ EndSimulation(t)
        PROVE  Queued' \cup Running' \subseteq Queued \cup Running
    <3>1. t \in Queued \cup Running
      BY <1>0, <2>2 DEF StartTask, FirstOf, EndSimulation
    <3>2. \E S \in Statuses : task' = [task EXCEPT ![t] = S]
      BY <2>2 DEF StartTask, EndSimulation, Statuses
    <3> QED
      BY <3>1, <3>2 DEF Queued, Running
  <2> QED
    BY <2>1, <2>2 DEF Queued, Running
<1>2. Cardinality(Queued \cup Running) <= 2 * ds.workers + 1
  <2>1. IsFiniteSet(Queued) /\ IsFiniteSet(Running) /\ ds.workers \in Nat
    BY TasksFinite, AcceptedTypes DEF Core, DataInv, DataTypes
  <2>2. Queued \cap Running = {}
    BY DEF Queued, Running
  <2>4. Cardinality(Queued) \in Nat /\ Cardinality(Running) \in Nat
    BY <2>1, FS_CardinalityType
  <2>5. Cardinality(Queued \cup Running)
          = Cardinality(Queued) + Cardinality(Running) - Cardinality(Queued \cap Running)
    BY <2>1, FS_Union
  <2>6. Cardinality(Queued \cap Running) = 0
    BY <2>2, FS_EmptySet
  <2>3. Cardinality(Queued \cup Running) = Cardinality(Queued) + Cardinality(Running)
    BY <2>4, <2>5, <2>6
  <2> QED
    BY <1>0, <2>1, <2>3, <2>4 DEF Places
<1> QED
  BY <1>1, <1>2

(***************************************************************************)
(* run.py: once run() has seen that it is cancelled, its pool simulates    *)
(* only what it had taken before, and that is bounded by the workers.      *)
(***************************************************************************)
THEOREM CancelledRunStops == Spec => CancelBounds
<1>1. Init => Places /\ NoneWaits
  <2> SUFFICES ASSUME Init PROVE Places
    BY DEF Init, NoneWaits
  <2>1. Queued = {} /\ Running = {} /\ ds.workers \in Nat
    BY EmptySeq, AcceptedTypes DEF Init, Queued, Running
  <2> QED
    BY <2>1, FS_EmptySet DEF Places
<1>2. Core /\ Places /\ NoneWaits /\ [Next]_vars => Places' /\ NoneWaits'
  BY PlacesStep, NoneWaitsStep
<1>3. Core /\ Places /\ NoneWaits /\ [Next]_vars
        => [pc = "leave_cancelled" =>
              /\ Queued' \cup Running' \subseteq Queued \cup Running
              /\ Cardinality(Queued \cup Running) <= 2 * ds.workers + 1]_vars
  BY NoneAdded
<1> QED
  BY <1>1, <1>2, <1>3, CoreAlways, PTL DEF Spec, CancelBounds

-----------------------------------------------------------------------------
\* The writers of evaluate

Rasters == Seq([sample : Samples, cells : SUBSET Cells])

\* The samples of batch number b, in their order.
Start(b) == b * ds.batch
OfBatch(b, w) ==
    /\ DOMAIN w = 1 .. AtMost(ds.batch, Length - Start(b))
    /\ \A j \in DOMAIN w : w[j].sample = Start(b) + j

\* The batch being served.
ServedBatch ==
    pc \in {"forward", "drain"} => position > 0 /\ OfBatch(position - 1, items)

\* pending holds the last tasks, no more than there are workers; those before
\* have ended.
LastPending ==
    /\ pending \in Seq(Nat)
    /\ Len(pending) <= ds.workers /\ Len(pending) <= Len(task)
    /\ \A j \in 1 .. Len(pending) : pending[j] = Len(task) - Len(pending) + j
    /\ \A t \in DOMAIN task :
         t <= Len(task) - Len(pending) => task[t] \in {"done", "failed"}

\* The tasks after base are those of this pass, batch after batch, and before
\* them come those of the last one.
PassAt(base) ==
    /\ base \in 0 .. Len(task)
    /\ pc \in {"forward", "drain"} => base = Len(task) - (position - 1)
    /\ pc \in {"load", "drain_all", "leave", "done"} => base = Len(task) - position
    /\ \A t \in DOMAIN task : t > base => OfBatch(t - base - 1, writes[t])
    /\ \A t \in DOMAIN task :
         t <= base /\ t > base - Batches => OfBatch(t - base - 1 + Batches, writes[t])

WritersOK ==
    ds.cmd = "evaluate" =>
        /\ writes \in Seq(Rasters) /\ Len(writes) = Len(task)
        /\ LastPending
        /\ \E base \in Nat : PassAt(base)

\* Batches do not overlap.
LEMMA BatchesApart ==
    ASSUME ds \in Datasets, NEW a \in Int, NEW b \in Int, a < b
    PROVE  /\ Start(a) \in Int /\ Start(b) \in Int
           /\ Start(a) + ds.batch <= Start(b)
<1>1. PICK m \in Nat : m = ds.batch /\ m > 0
  BY AcceptedTypes
<1>2. a * m \in Int /\ b * m \in Int /\ a * m + m <= b * m
  <2>1. PICK k \in Nat : b = a + 1 + k
    <3>1. b - a - 1 \in Nat /\ b = a + 1 + (b - a - 1)
      OBVIOUS
    <3> QED
      BY <3>1
  <2>2. k * m \in Nat
    BY <1>1
  <2>3. b * m = a * m + m + k * m
    BY <1>1, <2>1
  <2> QED
    BY <1>1, <2>2, <2>3
<1> QED
  BY <1>1, <1>2 DEF Start

LEMMA SameSampleSameBatch ==
    ASSUME ds \in Datasets, Length \in Nat, NEW a \in Int, NEW b \in Int, NEW v, NEW w,
           OfBatch(a, v), OfBatch(b, w),
           NEW j \in DOMAIN v, NEW m \in DOMAIN w, v[j].sample = w[m].sample
    PROVE  a = b
<1>1. /\ ds.batch \in Nat /\ j \in Int /\ m \in Int
      /\ 1 <= j /\ j <= ds.batch /\ 1 <= m /\ m <= ds.batch
      /\ Start(a) \in Int /\ Start(b) \in Int
  <2>1. ds.batch \in Nat
    BY AcceptedTypes
  <2>2. Start(a) \in Int /\ Start(b) \in Int
    BY <2>1 DEF Start
  <2>3. \A c \in Int : Start(c) \in Int =>
          \A k \in 1 .. AtMost(ds.batch, Length - Start(c)) : k \in Int /\ 1 <= k /\ k <= ds.batch
    BY <2>1 DEF AtMost
  <2> QED
    BY <2>1, <2>2, <2>3 DEF OfBatch
<1>2. Start(a) + j = Start(b) + m
  BY DEF OfBatch
<1>3. CASE a < b
  <2>1. Start(a) + ds.batch <= Start(b)
    BY <1>3, BatchesApart
  <2> QED
    BY <1>1, <1>2, <2>1
<1>4. CASE b < a
  <2>1. Start(b) + ds.batch <= Start(a)
    BY <1>4, BatchesApart
  <2> QED
    BY <1>1, <1>2, <2>1
<1> QED
  BY <1>3, <1>4

\* Of the last tasks, as many as there are batches, no two have a sample in common.
LEMMA LastApart ==
    ASSUME Core, WritersOK, ds.cmd = "evaluate",
           NEW t \in DOMAIN task, NEW u \in DOMAIN task,
           t > Len(task) - Batches, u > Len(task) - Batches,
           NEW j \in DOMAIN writes[t], NEW m \in DOMAIN writes[u],
           writes[t][j].sample = writes[u][m].sample
    PROVE  t = u
<1>1. /\ ds \in Datasets /\ Length \in Nat /\ Batches \in Nat
      /\ Len(task) \in Nat /\ DOMAIN task = 1 .. Len(task)
  BY BatchesNat, LenProperties DEF Core, DataInv, DataTypes, Loop
<1>3. PICK base \in Nat : PassAt(base)
  BY DEF WritersOK
<1>5. base <= Len(task)
  BY <1>1, <1>3 DEF PassAt
<1> DEFINE b(x) == IF x > base THEN x - base - 1 ELSE x - base - 1 + Batches
<1>6. \A x \in DOMAIN task : x > Len(task) - Batches => OfBatch(b(x), writes[x]) /\ b(x) \in Int
  <2> SUFFICES ASSUME NEW x \in DOMAIN task, x > Len(task) - Batches
               PROVE  OfBatch(b(x), writes[x]) /\ b(x) \in Int
    OBVIOUS
  <2>1. x \in Int /\ x > base - Batches
    BY <1>1, <1>5
  <2>2. CASE x > base
    BY <1>3, <2>1, <2>2 DEF PassAt
  <2>3. CASE ~(x > base)
    BY <1>1, <1>3, <2>1, <2>3 DEF PassAt
  <2> QED
    BY <2>2, <2>3
<1>7. b(t) = b(u)
  <2> HIDE DEF b
  <2> QED
    BY <1>1, <1>6, SameSampleSameBatch
<1> QED
  BY <1>1, <1>5, <1>7, SMTT(60)

\* evaluate.py: no raster is open in two writers, in a pass or across two.
LEMMA NoTwoWriters ==
    ASSUME Core, WritersOK
    PROVE  OneWriter
<1> SUFFICES ASSUME ds.cmd = "evaluate", Batches >= ds.workers,
                    NEW t \in Running \cup Waiting, NEW u \in Running \cup Waiting,
                    NEW j \in DOMAIN writes[t], NEW m \in DOMAIN writes[u],
                    writes[t][j].sample = writes[u][m].sample
             PROVE  t = u
  BY DEF OneWriter
<1>1. /\ ds \in Datasets /\ Length \in Nat /\ Batches \in Nat /\ ds.workers \in Nat
      /\ Len(task) \in Nat /\ DOMAIN task = 1 .. Len(task)
  BY BatchesNat, AcceptedTypes, LenProperties DEF Core, DataInv, DataTypes, Loop
<1>2. LastPending /\ Len(pending) \in Nat
  BY LenProperties DEF WritersOK, LastPending
<1>4. \A x \in Running \cup Waiting :
        x \in 1 .. Len(task) /\ x > Len(task) - Len(pending) /\ x > Len(task) - Batches
  <2>1. \A x \in Running \cup Waiting : x \in DOMAIN task /\ task[x] \notin {"done", "failed"}
    BY DEF Running, Waiting
  <2>2. \A x \in Running \cup Waiting : x \in 1 .. Len(task) /\ ~(x <= Len(task) - Len(pending))
    BY <1>1, <1>2, <2>1 DEF LastPending
  <2>3. Len(pending) <= Batches
    BY <1>1, <1>2 DEF LastPending
  <2> QED
    BY <1>1, <1>2, <2>2, <2>3
<1> QED
  BY <1>1, <1>4, LastApart

\* Unless the dataset is constructed, its batches stay the same.
LEMMA SameBatches ==
    ASSUME Core, [Next]_vars, ~ConstructDataset
    PROVE  /\ ds' = ds /\ ignitions' = ignitions /\ Length' = Length /\ Batches' = Batches
           /\ Samples' = Samples /\ Cells' = Cells /\ Roles' = Roles
           /\ \A b, w : OfBatch(b, w)' <=> OfBatch(b, w)
<1>1. ds' = ds /\ ignitions' = ignitions
  BY DataFrame DEF Core, TrainItem, LoadBatch, ServeBatch, dataVars
<1>2. Length' = Length /\ Samples' = Samples /\ Cells' = Cells /\ Roles' = Roles
  BY <1>1 DEF Length, Samples, Cells, Roles
<1>3. Batches' = Batches
  BY <1>1, <1>2 DEF Batches
<1>4. \A b, w : OfBatch(b, w)' <=> OfBatch(b, w)
  BY <1>1, <1>2 DEF OfBatch, Start
<1> QED
  BY <1>1, <1>2, <1>3, <1>4

\* What a step that is not one of the loop's own leaves alone.
LEMMA ServedStep ==
    ASSUME Core, ServedBatch, [Next]_vars
    PROVE  ServedBatch'
<1>1. CASE LoadBatch
  <2>1. /\ ServeBatch(BatchIndexes) /\ position' = position + 1 /\ position < Batches
        /\ position \in Nat /\ ds' = ds /\ ~ds.burned /\ DataTypes
    BY <1>1, AcceptedTypes DEF LoadBatch, ServeBatch, Core, DataInv, DataTypes, Loop
  <2>2. /\ Len(BatchIndexes) = AtMost(ds.batch, Length - Start(position))
        /\ DOMAIN BatchIndexes = 1 .. Len(BatchIndexes)
        /\ \A k \in 1 .. Len(BatchIndexes) : BatchIndexes[k] = Start(position) + k - 1
        /\ \A k \in 1 .. Len(BatchIndexes) : BatchIndexes[k] \in 0 .. Length - 1
        /\ Start(position) \in Int
    <3>1. BatchIndexes \in Seq(0 .. Length - 1)
      BY <2>1, BatchFacts
    <3>2. Start(position) \in Int
      BY <2>1, AcceptedTypes DEF Start, DataTypes
    <3> QED
      BY <2>1, <3>1, <3>2, BatchFacts, ElementOfSeq DEF Start
  <2>3. items' = [k \in DOMAIN BatchIndexes |->
                    ItemOf(BatchIndexes[k], LayersAfter(BatchIndexes, k - 1))]
    BY <2>1 DEF ServeBatch
  <2>4. ASSUME NEW k \in 1 .. Len(BatchIndexes) PROVE items'[k].sample = Start(position) + k
    <3>1. items'[k].sample = SampleIndex(BatchIndexes[k])
      BY <2>1, <2>2, <2>3, <2>4, ItemFacts
    <3>2. SampleIndex(BatchIndexes[k]) = BatchIndexes[k] + 1
      BY <2>1 DEF SampleIndex
    <3> QED
      BY <2>2, <2>4, <3>1, <3>2
  <2>5. OfBatch(position, items')
    BY <2>2, <2>3, <2>4 DEF OfBatch
  <2>6. \A b, w : OfBatch(b, w)' <=> OfBatch(b, w)
    BY <1>1, SameBatches DEF LoadBatch, ConstructDataset
  <2>7. position' - 1 = position /\ position' > 0
    BY <2>1
  <2> QED
    BY <2>5, <2>6, <2>7 DEF ServedBatch
<1>2. CASE ~LoadBatch /\ pc' \in {"forward", "drain"}
  <2>1. ~ConstructDataset /\ pc \in {"forward", "drain"} /\ ~TrainItem
    BY <1>2, ConstructFacts DEF Core, Phase, Next, Command, Pool, TrainItem, ForwardRun, WriteRun,
       ForwardEvaluate, Drain, DrainOldest, SubmitWrite, EndPass, LastDrained, AllTaken, Leave,
       Collect, QueueTask, StartTask, FirstOf, EndWrite, EndSimulation, SetCancel, vars
  <2>2. position' = position
    BY <1>2, <2>1, ConstructFacts DEF Core, Phase, Next, Command, Pool, ForwardRun, WriteRun,
       ForwardEvaluate, Drain, DrainOldest, SubmitWrite, EndPass, LastDrained, AllTaken, Leave,
       Collect, QueueTask, StartTask, FirstOf, EndWrite, EndSimulation, SetCancel, vars, loopVars
  <2>3. items' = items
    BY <1>2, <2>1, DataFrame DEF Core, dataVars
  <2>4. \A b, w : OfBatch(b, w)' <=> OfBatch(b, w)
    BY <2>1, SameBatches
  <2> QED
    BY <2>1, <2>2, <2>3, <2>4 DEF ServedBatch
<1> QED
  BY <1>1, <1>2 DEF ServedBatch

\* Steps that touch neither the tasks nor the count of batches.
LEMMA WritersStay ==
    ASSUME Core, WritersOK, [Next]_vars, ~ConstructDataset,
           UNCHANGED <<task, pending, writes, position>>,
           pc' \in {"forward", "drain"} => pc \in {"forward", "drain"},
           pc' \in {"load", "drain_all", "leave", "done"} =>
             pc \in {"load", "drain_all", "leave", "done"}
    PROVE  WritersOK'
<1> SUFFICES ASSUME ds'.cmd = "evaluate"
             PROVE  /\ writes' \in Seq(Rasters') /\ Len(writes') = Len(task')
                    /\ LastPending'
                    /\ \E base \in Nat : PassAt(base)'
  BY DEF WritersOK
<1>1. /\ ds' = ds /\ Batches' = Batches /\ Rasters' = Rasters
      /\ \A b, w : OfBatch(b, w)' <=> OfBatch(b, w)
  BY SameBatches DEF Rasters
<1>2. writes \in Seq(Rasters) /\ Len(writes) = Len(task) /\ LastPending
  BY <1>1 DEF WritersOK
<1>3. PICK base \in Nat : PassAt(base)
  BY <1>1 DEF WritersOK
<1>4. PassAt(base)'
  BY <1>1, <1>3 DEF PassAt
<1> QED
  BY <1>1, <1>2, <1>4 DEF LastPending

LEMMA WritersBegin ==
    ASSUME Core, ConstructDataset
    PROVE  WritersOK'
<1> SUFFICES ASSUME ds'.cmd = "evaluate" PROVE WritersOK'
  BY DEF WritersOK
<1>1. /\ task' = <<>> /\ pending' = <<>> /\ writes' = <<>> /\ position' = 0
      /\ pc' \in {"construct", "load"} /\ ds' = ds
  BY ConstructFacts DEF Core, Untouched, Pooled
<1>2. /\ Len(<<>>) = 0 /\ DOMAIN task' = {} /\ <<>> \in Seq(Nat) /\ <<>> \in Seq(Rasters')
      /\ ds.workers \in Nat
  BY <1>1, EmptySeq, AcceptedTypes DEF Core, DataInv, DataTypes
<1>3. LastPending'
  BY <1>1, <1>2 DEF LastPending
<1>4. PassAt(0)'
  BY <1>1, <1>2 DEF PassAt
<1> QED
  BY <1>1, <1>2, <1>3, <1>4 DEF WritersOK

LEMMA TailMoves ==
    ASSUME NEW S, NEW s \in Seq(S), Len(s) > 0
    PROVE  /\ Tail(s) \in Seq(S) /\ Len(Tail(s)) = Len(s) - 1
           /\ \A j \in 1 .. Len(s) - 1 : Tail(s)[j] = s[j + 1]
           /\ Head(s) = s[1]
<1>1. s # <<>> /\ Len(s) \in Nat
  BY EmptySeq, LenProperties
<1>2. Tail(s) \in Seq(S) /\ Len(Tail(s)) = Len(s) - 1
  BY <1>1, HeadTailProperties
<1>3. Head(s) = s[1]
  BY <1>1
<1>4. \A j \in 1 .. Len(s) - 1 : Tail(s)[j] = s[j + 1]
  BY <1>1
<1> QED
  BY <1>2, <1>3, <1>4

\* evaluate.py _drain: the oldest write is waited for.
LEMMA WritersDrain ==
    ASSUME Core, WritersOK, Drain
    PROVE  WritersOK'
<1> SUFFICES ASSUME ds'.cmd = "evaluate" PROVE WritersOK'
  BY DEF WritersOK
<1>0. /\ task' = task /\ writes' = writes /\ position' = position
      /\ pending' = Tail(pending) /\ task[Head(pending)] \in {"done", "failed"}
      /\ pc' = pc \/ pc' = "leave_failed"
      /\ MustDrain(ds.workers) \/ MustDrain(1)
  BY DEF Drain, DrainOldest, loopVars
<1>1. /\ ds' = ds /\ Batches' = Batches /\ Rasters' = Rasters
      /\ \A b, w : OfBatch(b, w)' <=> OfBatch(b, w)
  BY SameBatches DEF Rasters, Drain, ConstructDataset, Next, Command
<1>2. writes \in Seq(Rasters) /\ Len(writes) = Len(task) /\ LastPending
  BY <1>1 DEF WritersOK
<1>3. PICK base \in Nat : PassAt(base)
  BY <1>1 DEF WritersOK
<1>4. PassAt(base)'
  BY <1>0, <1>1, <1>3 DEF PassAt
<1>5. /\ Len(task) \in Nat /\ DOMAIN task = 1 .. Len(task) /\ Len(pending) \in Nat
      /\ Len(pending) > 0 /\ ds.workers \in Nat
  <2>1. Len(pending) >= ds.workers \/ Len(pending) >= 1
    BY <1>0 DEF MustDrain
  <2>2. Len(pending) \in Nat /\ ds.workers \in Nat \ {0}
    BY <1>2, LenProperties, AcceptedTypes DEF LastPending, Core, DataInv, DataTypes
  <2> QED
    BY <2>1, <2>2, LenProperties DEF Core, Loop
<1>6. /\ pending' \in Seq(Nat) /\ Len(pending') = Len(pending) - 1
      /\ \A j \in 1 .. Len(pending') : pending'[j] = pending[j + 1]
  BY <1>0, <1>2, <1>5, TailMoves DEF LastPending
<1>7. Head(pending) = Len(task) - Len(pending) + 1
  <2>1. Head(pending) = pending[1]
    BY <1>2, <1>5, TailMoves DEF LastPending
  <2> QED
    BY <1>2, <1>5, <2>1 DEF LastPending
<1>8. LastPending'
  <2>1. \A j \in 1 .. Len(pending') : pending'[j] = Len(task) - Len(pending') + j
    BY <1>2, <1>5, <1>6 DEF LastPending
  <2>2. ASSUME NEW t \in DOMAIN task, t <= Len(task) - Len(pending')
        PROVE  task[t] \in {"done", "failed"}
    <3>1. CASE t <= Len(task) - Len(pending)
      BY <1>2, <3>1 DEF LastPending
    <3>2. CASE ~(t <= Len(task) - Len(pending))
      <4>1. t = Head(pending)
        BY <1>5, <1>6, <1>7, <2>2, <3>2
      <4> QED
        BY <1>0, <4>1
    <3> QED
      BY <3>1, <3>2
  <2>3. Len(pending') <= ds.workers /\ Len(pending') <= Len(task)
    BY <1>2, <1>5, <1>6 DEF LastPending
  <2> QED
    BY <1>0, <1>1, <1>6, <2>1, <2>2, <2>3 DEF LastPending
<1> QED
  BY <1>0, <1>1, <1>2, <1>4, <1>8 DEF WritersOK

LEMMA WritersLoad ==
    ASSUME Core, WritersOK, LoadBatch
    PROVE  WritersOK'
<1> SUFFICES ASSUME ds'.cmd = "evaluate" PROVE WritersOK'
  BY DEF WritersOK
<1>0. /\ task' = task /\ writes' = writes /\ pending' = pending /\ position' = position + 1
      /\ pc = "load" /\ pc' = "forward" /\ position \in Nat
  BY BatchesNat DEF LoadBatch, poolVars, Core, Loop, DataInv
<1>1. /\ ds' = ds /\ Batches' = Batches /\ Rasters' = Rasters
      /\ \A b, w : OfBatch(b, w)' <=> OfBatch(b, w)
  BY <1>0, SameBatches DEF Rasters, ConstructDataset, Next, Command
<1>2. writes \in Seq(Rasters) /\ Len(writes) = Len(task) /\ LastPending
  BY <1>1 DEF WritersOK
<1>3. PICK base \in Nat : PassAt(base)
  BY <1>1 DEF WritersOK
<1>4. PassAt(base)'
  <2>1. base = Len(task) - (position' - 1)
    BY <1>0, <1>3 DEF PassAt
  <2> QED
    BY <1>0, <1>1, <1>3, <2>1 DEF PassAt
<1> QED
  BY <1>0, <1>1, <1>2, <1>4 DEF WritersOK, LastPending

\* The rasters of the batch that is served.
LEMMA BatchRasters ==
    ASSUME Core, ServedBatch, pc = "drain"
    PROVE  LET w == [j \in DOMAIN items |->
                       [sample |-> items[j].sample, cells |-> Canvas(items[j])]]
           IN  w \in Rasters /\ OfBatch(position - 1, w)
<1> DEFINE w == [j \in DOMAIN items |->
                   [sample |-> items[j].sample, cells |-> Canvas(items[j])]]
<1>1. OfBatch(position - 1, items) /\ position \in Nat
  BY BatchesNat DEF ServedBatch, Core, Loop, DataInv
<1>2. OfBatch(position - 1, w)
  BY <1>1 DEF OfBatch
<1>3. PICK n \in Int : DOMAIN items = 1 .. n
  <2>1. /\ ds.batch \in Nat /\ Length \in Nat
    BY BatchesNat, AcceptedTypes DEF Core, DataInv, DataTypes
  <2>2. AtMost(ds.batch, Length - Start(position - 1)) \in Int
    BY <1>1, <2>1 DEF Start, AtMost
  <2> QED
    BY <1>1, <2>2 DEF OfBatch
<1>4. \A j \in DOMAIN items : items[j].sample \in Samples /\ Canvas(items[j]) \in SUBSET Cells
  BY DEF Core, DataInv, ItemShape, Canvas, StampedCells, Cells
<1>5. PICK m \in Nat : 1 .. n = 1 .. m
  <2>1. CASE n \in Nat
    BY <2>1
  <2>2. CASE n \notin Nat
    <3>1. 1 .. n = 1 .. 0
      BY <2>2
    <3> QED
      BY <3>1
  <2> QED
    BY <2>1, <2>2
<1>6. w \in [1 .. m -> [sample : Samples, cells : SUBSET Cells]]
  BY <1>3, <1>4, <1>5
<1>7. w \in Rasters
  BY <1>6, SeqDef DEF Rasters
<1> QED
  BY <1>2, <1>7

\* evaluate.py: the rasters of a batch are handed to the pool.
LEMMA WritersSubmit ==
    ASSUME Core, ServedBatch, WritersOK, SubmitWrite
    PROVE  WritersOK'
<1> SUFFICES ASSUME ds'.cmd = "evaluate" PROVE WritersOK'
  BY DEF WritersOK
<1>1. /\ ds' = ds /\ Batches' = Batches /\ Rasters' = Rasters
      /\ \A b, w : OfBatch(b, w)' <=> OfBatch(b, w)
  BY SameBatches DEF SubmitWrite, Rasters, ConstructDataset, Next, Command
<1>2. writes \in Seq(Rasters) /\ Len(writes) = Len(task) /\ LastPending
  BY <1>1 DEF WritersOK
<1>3. PICK base \in Nat : PassAt(base)
  BY <1>1 DEF WritersOK
<1>4. /\ task \in Seq(Statuses) /\ Len(task) \in Nat /\ DOMAIN task = 1 .. Len(task)
      /\ Len(pending) \in Nat /\ pending \in Seq(Nat) /\ ds.workers \in Nat
      /\ position \in Nat
  BY <1>2, LenProperties, AcceptedTypes, BatchesNat DEF LastPending, Core, DataInv, DataTypes, Loop
<1>5. PICK w \in Rasters : /\ OfBatch(position - 1, w)
                           /\ writes' = Append(writes, w)
  BY BatchRasters DEF SubmitWrite
<1>6. /\ Len(task') = Len(task) + 1 /\ DOMAIN task' = 1 .. Len(task) + 1
      /\ \A t \in 1 .. Len(task) : task'[t] = task[t]
  <2>1. task' = Append(task, "pending") /\ "pending" \in Statuses
    BY DEF SubmitWrite, Statuses
  <2>2. task' \in Seq(Statuses) /\ Len(task') = Len(task) + 1
    BY <1>4, <2>1, AppendProperties
  <2> QED
    BY <1>4, <2>1, <2>2, AppendProperties, LenProperties
<1>7. /\ writes' \in Seq(Rasters) /\ Len(writes') = Len(task')
      /\ \A t \in 1 .. Len(task) : writes'[t] = writes[t]
      /\ writes'[Len(task) + 1] = w
  BY <1>2, <1>5, <1>6, AppendProperties
<1>8. /\ pending' \in Seq(Nat) /\ Len(pending') = Len(pending) + 1
      /\ \A j \in 1 .. Len(pending) : pending'[j] = pending[j]
      /\ pending'[Len(pending) + 1] = Len(task) + 1
  <2>1. pending' = Append(pending, Len(task) + 1) /\ Len(task) + 1 \in Nat
    BY <1>4 DEF SubmitWrite
  <2> QED
    BY <1>4, <2>1, AppendProperties
<1>9. LastPending'
  <2>1. Len(pending') <= ds.workers /\ Len(pending') <= Len(task')
    <3>1. ~(Len(pending) >= ds.workers)
      BY DEF SubmitWrite, MustDrain
    <3> QED
      BY <1>2, <1>4, <1>6, <1>8, <3>1 DEF LastPending
  <2>2. ASSUME NEW j \in 1 .. Len(pending')
        PROVE  pending'[j] = Len(task') - Len(pending') + j
    <3>1. CASE j \in 1 .. Len(pending)
      BY <1>2, <1>4, <1>6, <1>8, <3>1 DEF LastPending
    <3>2. CASE j = Len(pending) + 1
      BY <1>4, <1>6, <1>8, <3>2
    <3> QED
      BY <1>4, <1>8, <3>1, <3>2
  <2>3. ASSUME NEW t \in DOMAIN task', t <= Len(task') - Len(pending')
        PROVE  task'[t] \in {"done", "failed"}
    <3>1. t \in DOMAIN task /\ t <= Len(task) - Len(pending)
      <4>1. t \in 1 .. Len(task) + 1 /\ t <= Len(task) + 1 - (Len(pending) + 1)
        BY <1>6, <1>8, <2>3
      <4> QED
        BY <1>4, <4>1
    <3> QED
      BY <1>2, <1>4, <1>6, <3>1 DEF LastPending
  <2> QED
    BY <1>1, <1>8, <2>1, <2>2, <2>3 DEF LastPending
<1>10. PassAt(base)'
  <2>1. pc' = "load" /\ position' = position /\ base = Len(task) - (position - 1)
        /\ base \in 0 .. Len(task)
    BY <1>3 DEF SubmitWrite, PassAt, loopVars
  <2>2. base \in 0 .. Len(task') /\ base = Len(task') - position'
    BY <1>4, <1>6, <2>1
  <2>3. ASSUME NEW t \in DOMAIN task', t > base PROVE OfBatch(t - base - 1, writes'[t])
    <3>1. CASE t \in 1 .. Len(task)
      BY <1>3, <1>4, <1>7, <2>3, <3>1 DEF PassAt
    <3>2. CASE t = Len(task) + 1
      <4>1. t - base - 1 = position - 1
        BY <1>4, <2>1, <3>2
      <4> QED
        BY <1>5, <1>7, <3>2, <4>1
    <3> QED
      BY <1>4, <1>6, <3>1, <3>2
  <2>4. ASSUME NEW t \in DOMAIN task', t <= base, t > base - Batches
        PROVE  OfBatch(t - base - 1 + Batches, writes'[t])
    <3>1. t \in 1 .. Len(task)
      BY <1>4, <1>6, <2>1, <2>4
    <3> QED
      BY <1>3, <1>4, <1>7, <2>4, <3>1 DEF PassAt
  <2>5. pc' \notin {"forward", "drain"}
    BY <2>1
  <2> QED
    BY <1>1, <2>2, <2>3, <2>4, <2>5 DEF PassAt
<1> QED
  BY <1>1, <1>7, <1>9, <1>10 DEF WritersOK

\* The next pass over the dataset, or the end of the last.
LEMMA WritersPass ==
    ASSUME Core, WritersOK, EndPass
    PROVE  WritersOK'
<1> SUFFICES ASSUME ds'.cmd = "evaluate" PROVE WritersOK'
  BY DEF WritersOK
<1>0. /\ task' = task /\ writes' = writes /\ pending' = pending
      /\ pc = "load" /\ position = Batches
      /\ \/ pc' = "load" /\ position' = 0
         \/ pc' = "drain_all" /\ position' = position
  BY DEF EndPass
<1>1. /\ ds' = ds /\ Batches' = Batches /\ Rasters' = Rasters
      /\ \A b, w : OfBatch(b, w)' <=> OfBatch(b, w)
  BY SameBatches DEF EndPass, Rasters, ConstructDataset, Next, Command
<1>2. /\ writes \in Seq(Rasters) /\ Len(writes) = Len(task) /\ LastPending
      /\ Batches \in Nat /\ Len(task) \in Nat /\ DOMAIN task = 1 .. Len(task)
  BY <1>1, BatchesNat, LenProperties DEF WritersOK, Core, DataInv, Loop
<1>3. PICK base \in Nat : PassAt(base)
  BY <1>1 DEF WritersOK
<1>4. CASE pc' = "drain_all"
  <2>1. PassAt(base)'
    BY <1>0, <1>1, <1>3, <1>4 DEF PassAt
  <2> QED
    BY <1>0, <1>1, <1>2, <2>1 DEF WritersOK, LastPending
<1>5. CASE pc' = "load" /\ position' = 0
  <2>1. base = Len(task) - Batches
    BY <1>0, <1>3 DEF PassAt
  <2>2. ASSUME NEW t \in DOMAIN task, t > Len(task) - Batches
        PROVE  OfBatch(t - Len(task) - 1 + Batches, writes[t])
    <3>1. t - base - 1 = t - Len(task) - 1 + Batches
      BY <1>2, <2>1
    <3>2. OfBatch(t - base - 1, writes[t])
      BY <1>3, <2>1, <2>2 DEF PassAt
    <3> QED
      BY <3>1, <3>2
  <2>3. Len(task) \in 0 .. Len(task) /\ Len(task) = Len(task) - 0
        /\ \A t \in DOMAIN task : ~(t > Len(task))
    BY <1>2
  <2>4. PassAt(Len(task))'
    BY <1>0, <1>1, <1>5, <2>2, <2>3 DEF PassAt
  <2> QED
    BY <1>0, <1>1, <1>2, <2>4 DEF WritersOK, LastPending
<1> QED
  BY <1>0, <1>4, <1>5

\* The pool takes and ends tasks that are pending.
LEMMA WritersTasks ==
    ASSUME Core, WritersOK, NEW t \in DOMAIN task, QueueTask(t) \/ StartTask(t) \/ EndWrite(t)
    PROVE  WritersOK'
<1> SUFFICES ASSUME ds'.cmd = "evaluate" PROVE WritersOK'
  BY DEF WritersOK
<1>0. /\ writes' = writes /\ pending' = pending /\ pc' = pc /\ position' = position
      /\ task[t] \notin {"done", "failed"}
      /\ \E S \in Statuses : task' = [task EXCEPT ![t] = S]
  BY DEF QueueTask, StartTask, FirstOf, EndWrite, Running, Queued, Waiting, loopVars, Statuses
<1>1. /\ ds' = ds /\ Batches' = Batches /\ Rasters' = Rasters
      /\ \A b, w : OfBatch(b, w)' <=> OfBatch(b, w)
  <2>1. pc # "construct"
    BY EmptySeq DEF Core, Untouched
  <2> QED
    BY <2>1, SameBatches DEF Rasters, ConstructDataset, Next, Pool
<1>2. /\ writes \in Seq(Rasters) /\ Len(writes) = Len(task) /\ LastPending
      /\ Len(task) \in Nat /\ DOMAIN task = 1 .. Len(task)
  BY <1>1, LenProperties DEF WritersOK, Core, Loop
<1>3. PICK base \in Nat : PassAt(base)
  BY <1>1 DEF WritersOK
<1>4. /\ Len(task') = Len(task) /\ DOMAIN task' = DOMAIN task
      /\ \A u \in DOMAIN task : u # t => task'[u] = task[u]
  BY <1>0, ExceptSeq DEF Core, Loop
<1>5. LastPending'
  <2>1. ASSUME NEW u \in DOMAIN task, u <= Len(task) - Len(pending)
        PROVE  task'[u] \in {"done", "failed"}
    <3>1. task[u] \in {"done", "failed"}
      BY <1>2, <2>1 DEF LastPending
    <3> QED
      BY <1>0, <1>4, <3>1
  <2> QED
    BY <1>0, <1>1, <1>2, <1>4, <2>1 DEF LastPending
<1>6. PassAt(base)'
  BY <1>0, <1>1, <1>3, <1>4 DEF PassAt
<1> QED
  BY <1>0, <1>1, <1>2, <1>4, <1>5, <1>6 DEF WritersOK

LEMMA WritersStep ==
    ASSUME Core, ServedBatch, WritersOK, [Next]_vars
    PROVE  WritersOK'
<1>0. Phase
  BY DEF Core
<1>1. CASE ConstructDataset
  BY <1>1, WritersBegin
<1>2. CASE LoadBatch
  BY <1>2, WritersLoad
<1>3. CASE Drain
  BY <1>3, WritersDrain
<1>4. CASE SubmitWrite
  BY <1>4, WritersSubmit
<1>5. CASE EndPass
  BY <1>5, WritersPass
<1>6. ASSUME NEW t \in DOMAIN task, QueueTask(t) \/ StartTask(t) \/ EndWrite(t) PROVE WritersOK'
  BY <1>6, WritersTasks
<1>7. ASSUME ~ConstructDataset,
             \/ SetCancel \/ TrainItem \/ ForwardEvaluate \/ LastDrained \/ Leave
             \/ UNCHANGED vars
      PROVE  WritersOK'
  <2>1. UNCHANGED <<task, pending, writes, position>>
    BY <1>7 DEF SetCancel, TrainItem, ForwardEvaluate, LastDrained, Leave, vars, loopVars, poolVars
  <2>2. pc' \in {"forward", "drain"} => pc \in {"forward", "drain"}
    BY <1>7 DEF SetCancel, TrainItem, ForwardEvaluate, LastDrained, Leave, vars
  <2>3. pc' \in {"load", "drain_all", "leave", "done"} =>
          pc \in {"load", "drain_all", "leave", "done"}
    BY <1>7 DEF SetCancel, TrainItem, ForwardEvaluate, LastDrained, Leave, vars
  <2> QED
    BY <1>7, <2>1, <2>2, <2>3, WritersStay
<1>8. ASSUME ds.cmd # "evaluate", ~ConstructDataset PROVE WritersOK'
  BY <1>8, SameBatches DEF WritersOK
<1>9. ASSUME ds.cmd = "evaluate"
      PROVE  /\ ~ForwardRun /\ ~WriteRun /\ ~AllTaken
             /\ \A t \in DOMAIN task : ~Collect(t) /\ ~EndSimulation(t)
  BY <1>0, <1>9 DEF ForwardRun, WriteRun, AllTaken, Collect, EndSimulation, Pooled, Phase
<1> QED
  BY <1>1, <1>2, <1>3, <1>4, <1>5, <1>6, <1>7, <1>8, <1>9 DEF Next, Command, Pool

LEMMA WritersAlways == Spec => [](ServedBatch /\ WritersOK)
<1>1. Init => ServedBatch
  BY DEF Init, ServedBatch
<1>2. Init => WritersOK
  <2> SUFFICES ASSUME Init PROVE WritersOK
    OBVIOUS
  <2>1. /\ Len(<<>>) = 0 /\ DOMAIN task = {} /\ <<>> \in Seq(Nat) /\ <<>> \in Seq(Rasters)
        /\ ds.workers \in Nat
    BY EmptySeq, AcceptedTypes DEF Init
  <2>2. LastPending /\ PassAt(0)
    BY <2>1 DEF Init, LastPending, PassAt
  <2> QED
    BY <2>1, <2>2 DEF Init, WritersOK
<1>3. Core /\ ServedBatch /\ [Next]_vars => ServedBatch'
  BY ServedStep
<1>4. Core /\ ServedBatch /\ WritersOK /\ [Next]_vars => WritersOK'
  BY WritersStep
<1> QED
  BY <1>1, <1>2, <1>3, <1>4, CoreAlways, PTL DEF Spec

(***************************************************************************)
(* evaluate.py: the rasters of a second pass are the files of the first,   *)
(* yet no two writers have one open, because only the last tasks are still *)
(* to be drained and they are of as many different batches.                *)
(***************************************************************************)
THEOREM WritersOnOwnRasters == Spec => []OneWriter
<1>1. Core /\ WritersOK => OneWriter
  BY NoTwoWriters
<1> QED
  BY <1>1, CoreAlways, WritersAlways, PTL

-----------------------------------------------------------------------------
\* Sums over fires

\* Sums are counts, and what is added to them is added once.
LEMMA AddOnCounts ==
    ASSUME NEW S, NEW sum \in [S -> Nat], NEW cells, IsFiniteSet(DOMAIN cells)
    PROVE  /\ AddOn(sum, cells) \in [S -> Nat]
           /\ \A c \in S : AddOn(sum, cells)[c]
                = sum[c] + Cardinality({k \in DOMAIN cells : c \in cells[k]})
<1>1. \A c : Cardinality({k \in DOMAIN cells : c \in cells[k]}) \in Nat
  <2> TAKE c
  <2>1. {k \in DOMAIN cells : c \in cells[k]} \in SUBSET (DOMAIN cells)
    OBVIOUS
  <2>2. IsFiniteSet({k \in DOMAIN cells : c \in cells[k]})
    BY <2>1, FS_Subset
  <2> QED
    BY <2>2, FS_CardinalityType
<1>2. AddOn(sum, cells) = [c \in S |-> sum[c] + Cardinality({k \in DOMAIN cells : c \in cells[k]})]
  BY DEF AddOn
<1>3. \A c \in S : sum[c] + Cardinality({k \in DOMAIN cells : c \in cells[k]}) \in Nat
  BY <1>1
<1> QED
  BY <1>2, <1>3

LEMMA AddOnAt ==
    ASSUME NEW S, NEW sum \in [S -> Nat], NEW cells, IsFiniteSet(DOMAIN cells),
           NEW c \in S, NEW x, x = {k \in DOMAIN cells : c \in cells[k]}
    PROVE  AddOn(sum, cells)[c] = sum[c] + Cardinality(x)
  BY DEF AddOn

LEMMA DisjointCount ==
    ASSUME NEW A, IsFiniteSet(A), NEW B, IsFiniteSet(B), A \cap B = {}
    PROVE  /\ IsFiniteSet(A \cup B)
           /\ Cardinality(A \cup B) = Cardinality(A) + Cardinality(B)
           /\ Cardinality(A) \in Nat /\ Cardinality(B) \in Nat
<1>1. IsFiniteSet(A \cup B) /\ Cardinality(A \cup B) = Cardinality(A) + Cardinality(B) - Cardinality({})
  BY FS_Union
<1>2. Cardinality({}) = 0 /\ Cardinality(A) \in Nat /\ Cardinality(B) \in Nat
  BY FS_EmptySet, FS_CardinalityType
<1> QED
  BY <1>1, <1>2

\* h is made of f and g, which share no fire.
Joined(h, f, g) ==
    /\ IsFiniteSet(DOMAIN f) /\ IsFiniteSet(DOMAIN g) /\ DOMAIN f \cap DOMAIN g = {}
    /\ DOMAIN h = DOMAIN f \cup DOMAIN g
    /\ \A k \in DOMAIN f : h[k] = f[k]
    /\ \A k \in DOMAIN g : h[k] = g[k]

\* Two batches of fires add up to one.
LEMMA AddOnTwice ==
    ASSUME NEW S, NEW sum \in [S -> Nat], NEW f, NEW g, NEW h, Joined(h, f, g)
    PROVE  AddOn(AddOn(sum, f), g) = AddOn(sum, h)
<1> USE DEF Joined
<1> DEFINE with(x, c) == {k \in DOMAIN x : c \in x[k]}
<1>1. \A c : /\ with(h, c) = with(f, c) \cup with(g, c)
             /\ with(f, c) \cap with(g, c) = {}
             /\ with(f, c) \in SUBSET (DOMAIN f) /\ with(g, c) \in SUBSET (DOMAIN g)
  OBVIOUS
<1>2. /\ AddOn(sum, f) = [c \in S |-> sum[c] + Cardinality(with(f, c))]
      /\ AddOn(sum, h) = [c \in S |-> sum[c] + Cardinality(with(h, c))]
  BY DEF AddOn
<1>3. AddOn(AddOn(sum, f), g)
        = [c \in S |-> sum[c] + Cardinality(with(f, c)) + Cardinality(with(g, c))]
  BY <1>2 DEF AddOn
<1> HIDE DEF with
<1>4. \A c : /\ Cardinality(with(h, c)) = Cardinality(with(f, c)) + Cardinality(with(g, c))
             /\ Cardinality(with(f, c)) \in Nat /\ Cardinality(with(g, c)) \in Nat
  <2> TAKE c
  <2>1. IsFiniteSet(with(f, c)) /\ IsFiniteSet(with(g, c))
    BY <1>1, FS_Subset
  <2> QED
    BY <1>1, <2>1, DisjointCount
<1>5. \A c \in S : sum[c] + Cardinality(with(f, c)) + Cardinality(with(g, c))
                     = sum[c] + Cardinality(with(h, c))
  BY <1>4
<1> QED
  BY <1>2, <1>3, <1>5

\* What the emulator sums, class by class.
EmuNone(base, treat, at, g) ==
    [k \in DOMAIN base |->
       (CellsOf(g) \ StampedCells(Square(g.ws), at[k], g)) \cup Unchanged(base[k], treat[k], at[k], g)]
EmuTo(base, treat, at, g) ==
    [k \in DOMAIN base |-> StampedCells(ToCrown(base[k], treat[k]), at[k], g)]
EmuFrom(base, treat, at, g) ==
    [k \in DOMAIN base |-> StampedCells(FromCrown(base[k], treat[k]), at[k], g)]

LEMMA EmulatedSum ==
    ASSUME NEW agg0, NEW base, NEW treat, NEW at, NEW g
    PROVE  AddEmulated(agg0, base, treat, at, g)
             = [none |-> AddOn(agg0.none, EmuNone(base, treat, at, g)),
                to |-> AddOn(agg0.to, EmuTo(base, treat, at, g)),
                from |-> AddOn(agg0.from, EmuFrom(base, treat, at, g))]
  BY DEF AddEmulated, EmuNone, EmuTo, EmuFrom

\* The sum of two batches is that of all their fires.
LEMMA EmulatedTwice ==
    ASSUME NEW g, NEW at, NEW A, IsFiniteSet(A), NEW B, IsFiniteSet(B), A \cap B = {},
           NEW base, NEW treat, DOMAIN base = A \cup B
    PROVE  AddEmulated(AddEmulated(NoFires(g), [k \in A |-> base[k]], [k \in A |-> treat[k]], at, g),
                       [k \in B |-> base[k]], [k \in B |-> treat[k]], at, g)
             = AddEmulated(NoFires(g), base, treat, at, g)
<1> DEFINE b1 == [k \in A |-> base[k]]
           t1 == [k \in A |-> treat[k]]
           b2 == [k \in B |-> base[k]]
           t2 == [k \in B |-> treat[k]]
           zero == [c \in CellsOf(g) |-> 0]
<1>1. NoFires(g) = [none |-> zero, to |-> zero, from |-> zero] /\ zero \in [CellsOf(g) -> Nat]
  BY DEF NoFires
<1>2. /\ DOMAIN EmuNone(b1, t1, at, g) = A /\ DOMAIN EmuNone(b2, t2, at, g) = B
      /\ DOMAIN EmuNone(base, treat, at, g) = A \cup B
      /\ \A k \in A : EmuNone(base, treat, at, g)[k] = EmuNone(b1, t1, at, g)[k]
      /\ \A k \in B : EmuNone(base, treat, at, g)[k] = EmuNone(b2, t2, at, g)[k]
  BY DEF EmuNone
<1>3. /\ DOMAIN EmuTo(b1, t1, at, g) = A /\ DOMAIN EmuTo(b2, t2, at, g) = B
      /\ DOMAIN EmuTo(base, treat, at, g) = A \cup B
      /\ \A k \in A : EmuTo(base, treat, at, g)[k] = EmuTo(b1, t1, at, g)[k]
      /\ \A k \in B : EmuTo(base, treat, at, g)[k] = EmuTo(b2, t2, at, g)[k]
  BY DEF EmuTo
<1>4. /\ DOMAIN EmuFrom(b1, t1, at, g) = A /\ DOMAIN EmuFrom(b2, t2, at, g) = B
      /\ DOMAIN EmuFrom(base, treat, at, g) = A \cup B
      /\ \A k \in A : EmuFrom(base, treat, at, g)[k] = EmuFrom(b1, t1, at, g)[k]
      /\ \A k \in B : EmuFrom(base, treat, at, g)[k] = EmuFrom(b2, t2, at, g)[k]
  BY DEF EmuFrom
<1> HIDE DEF b1, t1, b2, t2, zero
<1>5. AddOn(AddOn(zero, EmuNone(b1, t1, at, g)), EmuNone(b2, t2, at, g))
        = AddOn(zero, EmuNone(base, treat, at, g))
  <2>1. Joined(EmuNone(base, treat, at, g), EmuNone(b1, t1, at, g), EmuNone(b2, t2, at, g))
    BY <1>2 DEF Joined
  <2> QED
    BY <1>1, <2>1, AddOnTwice
<1>6. AddOn(AddOn(zero, EmuTo(b1, t1, at, g)), EmuTo(b2, t2, at, g))
        = AddOn(zero, EmuTo(base, treat, at, g))
  <2>1. Joined(EmuTo(base, treat, at, g), EmuTo(b1, t1, at, g), EmuTo(b2, t2, at, g))
    BY <1>3 DEF Joined
  <2> QED
    BY <1>1, <2>1, AddOnTwice
<1>7. AddOn(AddOn(zero, EmuFrom(b1, t1, at, g)), EmuFrom(b2, t2, at, g))
        = AddOn(zero, EmuFrom(base, treat, at, g))
  <2>1. Joined(EmuFrom(base, treat, at, g), EmuFrom(b1, t1, at, g), EmuFrom(b2, t2, at, g))
    BY <1>4 DEF Joined
  <2> QED
    BY <1>1, <2>1, AddOnTwice
<1>8. AddEmulated(AddEmulated(NoFires(g), b1, t1, at, g), b2, t2, at, g)
        = AddEmulated(NoFires(g), base, treat, at, g)
  BY <1>1, <1>5, <1>6, <1>7, EmulatedSum
<1> QED
  BY <1>8 DEF b1, t1, b2, t2

\* A set in three parts.
LEMMA ThreeParts ==
    ASSUME NEW K, IsFiniteSet(K), NEW A, NEW B, NEW C,
           K = A \cup B \cup C, A \cap B = {}, A \cap C = {}, B \cap C = {}
    PROVE  Cardinality(A) + Cardinality(B) + Cardinality(C) = Cardinality(K)
<1>1. IsFiniteSet(A) /\ IsFiniteSet(B) /\ IsFiniteSet(C)
  <2>1. A \in SUBSET K /\ B \in SUBSET K /\ C \in SUBSET K
    OBVIOUS
  <2> QED
    BY <2>1, FS_Subset
<1>2. /\ IsFiniteSet(A \cup B)
      /\ Cardinality(A \cup B) = Cardinality(A) + Cardinality(B)
      /\ Cardinality(A) \in Nat /\ Cardinality(B) \in Nat
  BY <1>1, DisjointCount
<1>3. (A \cup B) \cap C = {} /\ K = (A \cup B) \cup C
  OBVIOUS
<1>4. Cardinality((A \cup B) \cup C) = Cardinality(A \cup B) + Cardinality(C) /\ Cardinality(C) \in Nat
  BY <1>1, <1>2, <1>3, DisjointCount
<1> QED
  BY <1>2, <1>3, <1>4

\* Every fire has one class of change at every cell.
LEMMA OneClass ==
    ASSUME NEW g, NEW i, NEW c \in CellsOf(g), NEW base, NEW treat,
           base.crowned \subseteq Square(g.ws), treat.crowned \subseteq Square(g.ws)
    PROVE  LET none == (CellsOf(g) \ StampedCells(Square(g.ws), i, g)) \cup Unchanged(base, treat, i, g)
               to == StampedCells(ToCrown(base, treat), i, g)
               from == StampedCells(FromCrown(base, treat), i, g)
           IN  /\ c \in none \/ c \in to \/ c \in from
               /\ ~(c \in none /\ c \in to) /\ ~(c \in none /\ c \in from)
               /\ ~(c \in to /\ c \in from)
<1> DEFINE p == <<StampedFrom(c[1], i[1], g.h, g.ws), StampedFrom(c[2], i[2], g.w, g.ws)>>
           inside == InWindow(c[1], i[1], g.h, g.ws) /\ InWindow(c[2], i[2], g.w, g.ws)
           To == ToCrown(base, treat)
           From == FromCrown(base, treat)
<1>1. \A X : c \in StampedCells(X, i, g) <=> (inside /\ p \in X)
  BY Zenon DEF StampedCells
<1>2. To \subseteq Square(g.ws) /\ From \subseteq Square(g.ws) /\ To \cap From = {}
  BY DEF ToCrown, FromCrown
<1>3. c \in Unchanged(base, treat, i, g)
        <=> (inside /\ p \in Square(g.ws) \ (To \cup From))
  BY <1>1 DEF Unchanged
<1> HIDE DEF p, inside, To, From
<1>4. /\ c \in StampedCells(Square(g.ws), i, g) <=> (inside /\ p \in Square(g.ws))
      /\ c \in StampedCells(To, i, g) <=> (inside /\ p \in To)
      /\ c \in StampedCells(From, i, g) <=> (inside /\ p \in From)
  BY <1>1
<1> QED
  BY <1>2, <1>3, <1>4 DEF To, From

\* The fires that show the cell.
Showing(cells, c) == {k \in DOMAIN cells : c \in cells[k]}

\* The classes' counts at a cell add up to the number of fires.
AddsUp(sum, c, n) == sum.none[c] + sum.to[c] + sum.from[c] = n

\* The counts of the emulator's sum.
LEMMA EmulatedCounts ==
    ASSUME NEW g, NEW at, NEW K, IsFiniteSet(K), NEW base, NEW treat, DOMAIN base = K,
           \A k \in K : /\ base[k].crowned \subseteq Square(g.ws)
                        /\ treat[k].crowned \subseteq Square(g.ws),
           NEW sum, sum = AddEmulated(NoFires(g), base, treat, at, g),
           NEW c \in CellsOf(g)
    PROVE  /\ sum.to[c] = Cardinality(Showing(EmuTo(base, treat, at, g), c))
           /\ sum.from[c] = Cardinality(Showing(EmuFrom(base, treat, at, g), c))
           /\ AddsUp(sum, c, Cardinality(K))
           /\ sum.none[c] \in Nat /\ sum.to[c] \in Nat /\ sum.from[c] \in Nat
<1> DEFINE zero == [d \in CellsOf(g) |-> 0]
           eNone == EmuNone(base, treat, at, g)
           eTo == EmuTo(base, treat, at, g)
           eFrom == EmuFrom(base, treat, at, g)
           n == Showing(eNone, c)
           t == Showing(eTo, c)
           f == Showing(eFrom, c)
<1>1. NoFires(g) = [none |-> zero, to |-> zero, from |-> zero] /\ zero \in [CellsOf(g) -> Nat]
      /\ zero[c] = 0
  BY DEF NoFires
<1>2. DOMAIN eNone = K /\ DOMAIN eTo = K /\ DOMAIN eFrom = K
  BY DEF EmuNone, EmuTo, EmuFrom
<1>3. /\ sum.none = AddOn(zero, eNone)
      /\ sum.to = AddOn(zero, eTo)
      /\ sum.from = AddOn(zero, eFrom)
  BY <1>1, EmulatedSum
<1>4. \A k \in K : /\ c \in eNone[k] \/ c \in eTo[k] \/ c \in eFrom[k]
                   /\ ~(c \in eNone[k] /\ c \in eTo[k])
                   /\ ~(c \in eNone[k] /\ c \in eFrom[k])
                   /\ ~(c \in eTo[k] /\ c \in eFrom[k])
  <2> TAKE k \in K
  <2>1. base[k].crowned \subseteq Square(g.ws) /\ treat[k].crowned \subseteq Square(g.ws)
    OBVIOUS
  <2> QED
    BY <2>1, OneClass DEF EmuNone, EmuTo, EmuFrom
<1> HIDE DEF zero, eNone, eTo, eFrom
<1>5. sum.none[c] = zero[c] + Cardinality(n)
  BY <1>1, <1>2, <1>3, AddOnAt DEF Showing
<1>6. sum.to[c] = zero[c] + Cardinality(t)
  BY <1>1, <1>2, <1>3, AddOnAt DEF Showing
<1>7. sum.from[c] = zero[c] + Cardinality(f)
  BY <1>1, <1>2, <1>3, AddOnAt DEF Showing
<1>8. K = n \cup t \cup f /\ n \cap t = {} /\ n \cap f = {} /\ t \cap f = {}
      /\ n \in SUBSET K /\ t \in SUBSET K /\ f \in SUBSET K
  BY <1>2, <1>4 DEF Showing
<1> HIDE DEF n, t, f
<1>9. Cardinality(n) \in Nat /\ Cardinality(t) \in Nat /\ Cardinality(f) \in Nat
  BY <1>8, FS_Subset, FS_CardinalityType
<1>10. Cardinality(n) + Cardinality(t) + Cardinality(f) = Cardinality(K)
  BY <1>8, ThreeParts
<1> QED
  BY <1>1, <1>5, <1>6, <1>7, <1>9, <1>10 DEF AddsUp, t, f, eTo, eFrom

LEMMA AddOnNone ==
    ASSUME NEW S, NEW sum \in [S -> Nat], NEW cells, DOMAIN cells = {}
    PROVE  AddOn(sum, cells) = sum
<1>1. \A c : Cardinality({k \in DOMAIN cells : c \in cells[k]}) = 0
  <2> TAKE c
  <2>1. {k \in DOMAIN cells : c \in cells[k]} = {}
    OBVIOUS
  <2> QED
    BY <2>1, FS_EmptySet
<1>2. AddOn(sum, cells) = [c \in S |-> sum[c] + Cardinality({k \in DOMAIN cells : c \in cells[k]})]
  BY DEF AddOn
<1>3. \A c \in S : sum[c] + Cardinality({k \in DOMAIN cells : c \in cells[k]}) = sum[c]
  BY <1>1
<1> QED
  BY <1>2, <1>3

LEMMA EmulatedNone ==
    ASSUME NEW g, NEW at, NEW base, DOMAIN base = {}, NEW treat
    PROVE  AddEmulated(NoFires(g), base, treat, at, g) = NoFires(g)
<1> DEFINE zero == [c \in CellsOf(g) |-> 0]
<1>1. NoFires(g) = [none |-> zero, to |-> zero, from |-> zero] /\ zero \in [CellsOf(g) -> Nat]
  BY DEF NoFires
<1>2. /\ DOMAIN EmuNone(base, treat, at, g) = {} /\ DOMAIN EmuTo(base, treat, at, g) = {}
      /\ DOMAIN EmuFrom(base, treat, at, g) = {}
  BY DEF EmuNone, EmuTo, EmuFrom
<1> HIDE DEF zero
<1>3. /\ AddOn(zero, EmuNone(base, treat, at, g)) = zero
      /\ AddOn(zero, EmuTo(base, treat, at, g)) = zero
      /\ AddOn(zero, EmuFrom(base, treat, at, g)) = zero
  BY <1>1, <1>2, AddOnNone
<1> QED
  BY <1>1, <1>3, EmulatedSum

\* A sum of one fire needs no name for it.
LEMMA AddOnSingle ==
    ASSUME NEW sum, NEW x, NEW t
    PROVE  AddOn(sum, <<x>>) = AddOn(sum, [k \in {t} |-> x])
<1> DEFINE one == [k \in {t} |-> x]
<1>1. \A c : Cardinality({k \in DOMAIN <<x>> : c \in <<x>>[k]})
             = Cardinality({k \in DOMAIN one : c \in one[k]})
  <2> TAKE c
  <2>1. CASE c \in x
    <3>1. {k \in DOMAIN <<x>> : c \in <<x>>[k]} = {1}
      BY <2>1
    <3>2. {k \in DOMAIN one : c \in one[k]} = {t}
      BY <2>1
    <3> QED
      BY <3>1, <3>2, FS_Singleton
  <2>2. CASE c \notin x
    <3>1. {k \in DOMAIN <<x>> : c \in <<x>>[k]} = {}
      BY <2>2
    <3>2. {k \in DOMAIN one : c \in one[k]} = {}
      BY <2>2
    <3> QED
      BY <3>1, <3>2
  <2> QED
    BY <2>1, <2>2
<1> QED
  BY <1>1 DEF AddOn

LEMMA AddOnMore ==
    ASSUME NEW S, NEW sum \in [S -> Nat], NEW K, IsFiniteSet(K), NEW t, t \notin K,
           NEW f, DOMAIN f = K, NEW h, DOMAIN h = K \cup {t}, \A k \in K : h[k] = f[k]
    PROVE  AddOn(AddOn(sum, f), <<h[t]>>) = AddOn(sum, h)
<1> DEFINE one == [k \in {t} |-> h[t]]
<1>1. IsFiniteSet({t}) /\ K \cap {t} = {} /\ DOMAIN one = {t} /\ \A k \in {t} : h[k] = one[k]
  BY FS_Singleton
<1>2. AddOn(AddOn(sum, f), <<h[t]>>) = AddOn(AddOn(sum, f), one)
  BY AddOnSingle
<1>3. Joined(h, f, one)
  BY <1>1 DEF Joined
<1> HIDE DEF one
<1>4. AddOn(AddOn(sum, f), one) = AddOn(sum, h)
  BY <1>3, AddOnTwice
<1> QED
  BY <1>2, <1>4

\* What pyretechnics' results sum to.
SimTo(f, K) ==
    [k \in K |-> ToCrown(f[k]["baseline"], f[k]["treatment"])
                   \cap BoxOf(f[k]["baseline"].burned \cup f[k]["treatment"].burned)]
SimFrom(f, K) ==
    [k \in K |-> FromCrown(f[k]["baseline"], f[k]["treatment"])
                   \cap BoxOf(f[k]["baseline"].burned \cup f[k]["treatment"].burned)]
SimSum(g, f, K) ==
    [none |-> [c \in CellsOf(g) |-> 0],
     to |-> AddOn([c \in CellsOf(g) |-> 0], SimTo(f, K)),
     from |-> AddOn([c \in CellsOf(g) |-> 0], SimFrom(f, K))]

LEMMA SimulatedNone ==
    ASSUME NEW g, NEW f
    PROVE  SimSum(g, f, {}) = NoFires(g)
<1> DEFINE zero == [c \in CellsOf(g) |-> 0]
<1>1. zero \in [CellsOf(g) -> Nat] /\ DOMAIN SimTo(f, {}) = {} /\ DOMAIN SimFrom(f, {}) = {}
  BY DEF SimTo, SimFrom
<1>2. AddOn(zero, SimTo(f, {})) = zero /\ AddOn(zero, SimFrom(f, {})) = zero
  <2> HIDE DEF zero
  <2> QED
    BY <1>1, AddOnNone
<1> QED
  BY <1>2 DEF SimSum, NoFires

LEMMA SimulatedMore ==
    ASSUME NEW g, NEW f, NEW K, IsFiniteSet(K), NEW t, t \notin K
    PROVE  AddSimulated(SimSum(g, f, K), f[t]["baseline"], f[t]["treatment"])
             = SimSum(g, f, K \cup {t})
<1> DEFINE zero == [c \in CellsOf(g) |-> 0]
           a == AddOn(zero, SimTo(f, K))
           b == AddOn(zero, SimFrom(f, K))
           toT == SimTo(f, K \cup {t})[t]
           fromT == SimFrom(f, K \cup {t})[t]
<1>1. zero \in [CellsOf(g) -> Nat]
  OBVIOUS
<1>2. /\ DOMAIN SimTo(f, K) = K /\ DOMAIN SimTo(f, K \cup {t}) = K \cup {t}
      /\ \A k \in K : SimTo(f, K \cup {t})[k] = SimTo(f, K)[k]
      /\ toT = ToCrown(f[t]["baseline"], f[t]["treatment"])
                  \cap BoxOf(f[t]["baseline"].burned \cup f[t]["treatment"].burned)
  BY DEF SimTo
<1>3. /\ DOMAIN SimFrom(f, K) = K /\ DOMAIN SimFrom(f, K \cup {t}) = K \cup {t}
      /\ \A k \in K : SimFrom(f, K \cup {t})[k] = SimFrom(f, K)[k]
      /\ fromT = FromCrown(f[t]["baseline"], f[t]["treatment"])
                    \cap BoxOf(f[t]["baseline"].burned \cup f[t]["treatment"].burned)
  BY DEF SimFrom
<1>4. /\ SimSum(g, f, K) = [none |-> zero, to |-> a, from |-> b]
      /\ SimSum(g, f, K \cup {t}) = [none |-> zero, to |-> AddOn(zero, SimTo(f, K \cup {t})),
                                     from |-> AddOn(zero, SimFrom(f, K \cup {t}))]
  BY DEF SimSum
<1> HIDE DEF zero, a, b, toT, fromT
<1>5. AddSimulated([none |-> zero, to |-> a, from |-> b], f[t]["baseline"], f[t]["treatment"])
        = [none |-> zero, to |-> AddOn(a, <<toT>>), from |-> AddOn(b, <<fromT>>)]
  <2> DEFINE s == [none |-> zero, to |-> a, from |-> b]
             base == f[t]["baseline"]
             treat == f[t]["treatment"]
             box == BoxOf(base.burned \cup treat.burned)
  <2>1. AddSimulated(s, base, treat)
          = [s EXCEPT !.to = AddOn(s.to, <<ToCrown(base, treat) \cap box>>),
                      !.from = AddOn(s.from, <<FromCrown(base, treat) \cap box>>)]
    BY Zenon DEF AddSimulated
  <2>2. ToCrown(base, treat) \cap box = toT /\ FromCrown(base, treat) \cap box = fromT
    BY <1>2, <1>3
  <2> HIDE DEF base, treat, box
  <2> QED
    BY <2>1, <2>2 DEF base, treat
<1>6. AddOn(a, <<toT>>) = AddOn(zero, SimTo(f, K \cup {t}))
  BY <1>1, <1>2, AddOnMore, SMTT(60) DEF a, toT
<1>7. AddOn(b, <<fromT>>) = AddOn(zero, SimFrom(f, K \cup {t}))
  BY <1>1, <1>3, AddOnMore, SMTT(60) DEF b, fromT
<1> QED
  BY <1>4, <1>5, <1>6, <1>7

\* A cell has a change of no more fires than there are.
NoMoreThan(sum, c, n) == sum.to[c] + sum.from[c] <= n

LEMMA SimulatedCounts ==
    ASSUME NEW g, NEW f, NEW K, IsFiniteSet(K), NEW c \in CellsOf(g)
    PROVE  /\ SimSum(g, f, K).to[c] = Cardinality(Showing(SimTo(f, K), c))
           /\ SimSum(g, f, K).from[c] = Cardinality(Showing(SimFrom(f, K), c))
           /\ NoMoreThan(SimSum(g, f, K), c, Cardinality(K))
           /\ SimSum(g, f, K).to[c] \in Nat /\ SimSum(g, f, K).from[c] \in Nat
           /\ Cardinality(K) \in Nat
<1> DEFINE zero == [d \in CellsOf(g) |-> 0]
           A == Showing(SimTo(f, K), c)
           B == Showing(SimFrom(f, K), c)
<1>1. zero \in [CellsOf(g) -> Nat] /\ zero[c] = 0
      /\ DOMAIN SimTo(f, K) = K /\ DOMAIN SimFrom(f, K) = K
      /\ SimSum(g, f, K).to = AddOn(zero, SimTo(f, K))
      /\ SimSum(g, f, K).from = AddOn(zero, SimFrom(f, K))
  BY DEF SimTo, SimFrom, SimSum
<1>2. A \in SUBSET K /\ B \in SUBSET K /\ A \cup B \in SUBSET K /\ A \cap B = {}
  BY DEF SimTo, SimFrom, ToCrown, FromCrown, Showing
<1> HIDE DEF zero
<1>3. SimSum(g, f, K).to[c] = zero[c] + Cardinality(A)
  BY <1>1, AddOnAt DEF Showing
<1>a. SimSum(g, f, K).from[c] = zero[c] + Cardinality(B)
  BY <1>1, AddOnAt DEF Showing
<1> HIDE DEF A, B
<1>4. IsFiniteSet(A) /\ IsFiniteSet(B) /\ Cardinality(A \cup B) <= Cardinality(K)
  BY <1>2, FS_Subset
<1>5. /\ Cardinality(A \cup B) = Cardinality(A) + Cardinality(B)
      /\ Cardinality(A) \in Nat /\ Cardinality(B) \in Nat
  BY <1>2, <1>4, DisjointCount
<1>6. Cardinality(K) \in Nat
  BY FS_CardinalityType
<1> QED
  BY <1>1, <1>3, <1>a, <1>4, <1>5, <1>6 DEF A, B, NoMoreThan

-----------------------------------------------------------------------------
\* The fires of the emulator

\* The samples of the batches before number b are the first ones.
LEMMA BatchEnds ==
    ASSUME NEW m \in Nat \ {0}, NEW L \in Nat, NEW n \in Nat, n = (L + m - 1) \div m
    PROVE  L <= n * m
<1>1. L + m - 1 \in Int /\ m > 0
  OBVIOUS
<1>2. L + m - 1 < (n + 1) * m
  BY <1>1
<1>3. (n + 1) * m = n * m + m /\ n * m \in Nat
  OBVIOUS
<1> QED
  BY <1>2, <1>3

LEMMA BatchSamples ==
    ASSUME DataTypes, NEW b \in Nat, b < Batches, NEW w, OfBatch(b, w)
    PROVE  /\ {w[j].sample : j \in DOMAIN w} = (Start(b) + 1) .. AtMost(Length, Start(b + 1))
           /\ 1 .. AtMost(Length, Start(b + 1))
                = (1 .. AtMost(Length, Start(b))) \cup {w[j].sample : j \in DOMAIN w}
           /\ (1 .. AtMost(Length, Start(b))) \cap {w[j].sample : j \in DOMAIN w} = {}
           /\ \A j, k \in DOMAIN w : w[j].sample = w[k].sample => j = k
           /\ 1 \in DOMAIN w
<1>1. PICK m \in Nat \ {0} : m = ds.batch
  BY AcceptedTypes DEF DataTypes
<1>2. PICK L \in Nat : L = Length
  BY BatchesNat
<1>3. PICK s \in Nat : s = Start(b)
  <2>1. b * m \in Nat
    OBVIOUS
  <2> QED
    BY <1>1, <2>1 DEF Start
<1>4. Start(b + 1) = s + m
  <2>1. (b + 1) * m = b * m + m
    OBVIOUS
  <2> QED
    BY <1>1, <1>3, <2>1 DEF Start
<1>5. s < L
  <2>1. b < (L + m - 1) \div m
    BY <1>1, <1>2 DEF Batches
  <2>2. b * m < L
    BY <2>1, BatchArith
  <2> QED
    BY <1>1, <1>3, <2>2 DEF Start
<1>6. /\ AtMost(L, s) = s
      /\ DOMAIN w = 1 .. AtMost(m, L - s)
      /\ \A j \in DOMAIN w : w[j].sample = s + j
      /\ s + AtMost(m, L - s) = AtMost(L, s + m)
      /\ AtMost(m, L - s) \in Nat \ {0}
  BY <1>1, <1>2, <1>3, <1>5, SMTT(60) DEF OfBatch, AtMost
<1>7. PICK n \in Nat \ {0} : n = AtMost(m, L - s)
  BY <1>6
<1>8. {w[j].sample : j \in DOMAIN w} = (s + 1) .. (s + n)
  <2>1. ASSUME NEW x \in (s + 1) .. (s + n) PROVE x \in {w[j].sample : j \in DOMAIN w}
    <3>1. x - s \in DOMAIN w /\ w[x - s].sample = s + (x - s)
      BY <1>6, <1>7, SMTT(60)
    <3>2. w[x - s].sample = x
      BY <3>1
    <3> QED
      BY <3>1, <3>2
  <2>2. ASSUME NEW j \in DOMAIN w PROVE w[j].sample \in (s + 1) .. (s + n)
    <3>1. j \in 1 .. n /\ w[j].sample = s + j
      BY <1>6, <1>7
    <3> QED
      BY <3>1
  <2> QED
    BY <2>1, <2>2
<1>9. 1 .. (s + n) = (1 .. s) \cup ((s + 1) .. (s + n)) /\ (1 .. s) \cap ((s + 1) .. (s + n)) = {}
  OBVIOUS
<1>10. /\ AtMost(Length, Start(b)) = s /\ AtMost(Length, Start(b + 1)) = s + n
  BY <1>2, <1>3, <1>4, <1>6, <1>7
<1>11. \A j, k \in DOMAIN w : w[j].sample = w[k].sample => j = k
  <2>1. \A j \in 1 .. n : w[j].sample = s + j
    BY <1>6, <1>7
  <2>2. \A j, k \in 1 .. n : s + j = s + k => j = k
    OBVIOUS
  <2> QED
    BY <1>6, <1>7, <2>1, <2>2
<1>12. 1 \in DOMAIN w
  BY <1>6, <1>7
<1> QED
  BY <1>3, <1>8, <1>9, <1>10, <1>11, <1>12

\* What a forward pass returns for the batch that is served.
LEMMA PredictedFacts ==
    ASSUME Core, ServedBatch, pc = "forward", NEW choice
    PROVE  /\ position - 1 \in Nat /\ position - 1 < Batches /\ OfBatch(position - 1, items)
           /\ DOMAIN Predicted(choice) = {items[j].sample : j \in DOMAIN items}
           /\ DOMAIN Predicted(choice) \subseteq Samples
           /\ \A k \in DOMAIN Predicted(choice) :
                /\ ds.area # NoArea => DOMAIN Predicted(choice)[k] = Roles
                /\ ds.area = NoArea => \E j \in DOMAIN items : DOMAIN Predicted(choice)[k] = {items[j].role}
                /\ \A r \in DOMAIN Predicted(choice)[k] :
                     /\ Predicted(choice)[k][r].burned \subseteq OnWindow(ignitions[k])
                     /\ Predicted(choice)[k][r].crowned \subseteq OnWindow(ignitions[k])
<1>1. /\ position \in Nat /\ position > 0 /\ position <= Batches /\ Batches \in Nat
      /\ OfBatch(position - 1, items)
  BY BatchesNat DEF Core, DataInv, Loop, ServedBatch
<1>2. DOMAIN Predicted(choice) = {items[j].sample : j \in DOMAIN items}
  BY DEF Predicted
<1>3. DOMAIN Predicted(choice) \subseteq Samples
  BY <1>2 DEF Core, DataInv, ItemShape
<1>4. ASSUME NEW k \in DOMAIN Predicted(choice)
      PROVE  \E j \in DOMAIN items : /\ items[j].sample = k
                                     /\ Predicted(choice)[k] = [r \in DOMAIN items[j].x |->
                                                                  Masked(choice[k][r], items[j])]
  <2> DEFINE item == CHOOSE item \in Range(items) : item.sample = k
  <2>1. Predicted(choice)[k] = [r \in DOMAIN item.x |-> Masked(choice[k][r], item)]
    BY <1>2, <1>4 DEF Predicted
  <2>2. \E x \in Range(items) : x.sample = k
    BY <1>2, <1>4 DEF Range
  <2>3. item \in Range(items) /\ item.sample = k
    BY <2>2
  <2>4. PICK j \in DOMAIN items : item = items[j]
    BY <2>3 DEF Range
  <2> HIDE DEF item
  <2> QED
    BY <2>1, <2>3, <2>4
<1>5. ASSUME NEW k \in DOMAIN Predicted(choice)
      PROVE  /\ ds.area # NoArea => DOMAIN Predicted(choice)[k] = Roles
             /\ ds.area = NoArea => \E j \in DOMAIN items : DOMAIN Predicted(choice)[k] = {items[j].role}
             /\ \A r \in DOMAIN Predicted(choice)[k] :
                  /\ Predicted(choice)[k][r].burned \subseteq OnWindow(ignitions[k])
                  /\ Predicted(choice)[k][r].crowned \subseteq OnWindow(ignitions[k])
  <2>1. PICK j \in DOMAIN items : /\ items[j].sample = k
                                  /\ Predicted(choice)[k] = [r \in DOMAIN items[j].x |->
                                                               Masked(choice[k][r], items[j])]
    BY <1>4
  <2>2. /\ items[j].at = ignitions[k] /\ items[j].mask \in SUBSET OnWindow(items[j].at)
        /\ DOMAIN items[j].x = IF ds.area # NoArea THEN Roles ELSE {items[j].role}
    BY <2>1 DEF Core, DataInv, ItemShape
  <2>3. \A r \in DOMAIN items[j].x : /\ Predicted(choice)[k][r].burned \subseteq items[j].mask
                                     /\ Predicted(choice)[k][r].crowned \subseteq items[j].mask
    BY <2>1 DEF Masked
  <2> QED
    BY <2>1, <2>2, <2>3
<1> QED
  BY <1>1, <1>2, <1>3, <1>5

\* The batches whose fires are known.
Loaded == IF pc = "forward" THEN position - 1 ELSE position

FiresOnWindow ==
    \A k \in DOMAIN fires : \A r \in DOMAIN fires[k] :
        /\ fires[k][r].burned \subseteq OnWindow(ignitions[k])
        /\ fires[k][r].crowned \subseteq OnWindow(ignitions[k])

\* run with the emulator: batch after batch has been predicted, and the fires
\* kept are summed.
EmulatedOK ==
    ds.cmd = "run_dl" =>
        /\ DOMAIN fires \subseteq Samples
        /\ pc \in {"construct", "load", "forward", "done"} =>
             DOMAIN fires = 1 .. AtMost(Length, Start(Loaded))
        /\ \A k \in DOMAIN fires : DOMAIN fires[k] = Roles
        /\ FiresOnWindow
        /\ kept = KeptOf(fires)
        /\ agg = AddEmulated(NoFires(ds), [k \in kept |-> fires[k][First]],
                             [k \in kept |-> fires[k][Second]], ignitions, ds)

LEMMA KeptFacts ==
    ASSUME Core, DOMAIN fires \subseteq Samples
    PROVE  KeptOf(fires) \subseteq DOMAIN fires /\ IsFiniteSet(KeptOf(fires))
<1>1. Samples = 1 .. Len(ignitions) /\ Len(ignitions) \in Nat
  BY LenProperties DEF Samples, Core, DataInv, DataTypes
<1>2. KeptOf(fires) \in SUBSET Samples /\ KeptOf(fires) \subseteq DOMAIN fires
  BY DEF KeptOf
<1>3. IsFiniteSet(Samples)
  BY <1>1, FS_Interval
<1> QED
  BY <1>2, <1>3, FS_Subset

\* KeptOf depends on the dataset and the fires alone.
LEMMA KeptSame ==
    ASSUME ds' = ds, ignitions' = ignitions
    PROVE  /\ \A f : KeptOf(f)' = KeptOf(f)
           /\ \A i : OnWindow(i)' = OnWindow(i)
           /\ Samples' = Samples /\ Roles' = Roles /\ First' = First /\ Second' = Second
           /\ Length' = Length /\ \A b : Start(b)' = Start(b)
<1>1. First' = First /\ Second' = Second
  BY DEF First, Second
<1>2. \A f : Component(f)' = Component(f)
  BY DEF Component
<1>3. \A f : KeptOf(f)' = KeptOf(f)
  BY <1>1, <1>2 DEF KeptOf
<1>4. \A i : OnWindow(i)' = OnWindow(i)
  BY DEF OnWindow, CellAt, WindowCells, Cells
<1> QED
  BY <1>1, <1>3, <1>4 DEF Samples, Roles, Length, Start

LEMMA EmulatedFrame ==
    ASSUME EmulatedOK, ds' = ds, ignitions' = ignitions,
           UNCHANGED <<fires, kept, agg>>,
           pc' \in {"construct", "load", "forward", "done"} =>
             pc \in {"construct", "load", "forward", "done"} /\ Loaded' = Loaded
    PROVE  EmulatedOK'
<1>1. /\ \A f : KeptOf(f)' = KeptOf(f)
      /\ \A i : OnWindow(i)' = OnWindow(i)
      /\ Samples' = Samples /\ Roles' = Roles /\ First' = First /\ Second' = Second
      /\ Length' = Length /\ \A b : Start(b)' = Start(b)
  BY KeptSame
<1>2. FiresOnWindow' <=> FiresOnWindow
  BY <1>1 DEF FiresOnWindow
<1> QED
  BY <1>1, <1>2 DEF EmulatedOK

\* run.py: the fires of another batch are summed.
LEMMA EmulatedForward ==
    ASSUME Core, ServedBatch, EmulatedOK, ForwardRun
    PROVE  EmulatedOK'
<1>0. /\ ds.cmd = "run_dl" /\ pc = "forward"
      /\ ds' = ds /\ ignitions' = ignitions /\ position' = position /\ items' = items
  BY DEF ForwardRun, dataVars
<1>1. CASE cancel
  <2>1. pc' = "cancelled" /\ fires' = fires /\ agg' = agg /\ kept' = kept
    BY <1>1 DEF ForwardRun
  <2> QED
    BY <1>0, <2>1, EmulatedFrame
<1>2. CASE ~cancel
  <2>1. PICK choice \in Outcomes :
          LET pred == Predicted(choice)
              sel == KeptOf(pred)
          IN  /\ fires' = Updated(fires, pred)
              /\ kept' = kept \cup sel
              /\ agg' = AddEmulated(agg, [k \in sel |-> pred[k][First]],
                                    [k \in sel |-> pred[k][Second]], ignitions, ds)
              /\ pc' = "load"
    BY <1>0, <1>2 DEF ForwardRun
  <2>2. PICK pred : pred = Predicted(choice)
    OBVIOUS
  <2>3. /\ fires' = Updated(fires, pred) /\ kept' = kept \cup KeptOf(pred) /\ pc' = "load"
        /\ agg' = AddEmulated(agg, [k \in KeptOf(pred) |-> pred[k][First]],
                              [k \in KeptOf(pred) |-> pred[k][Second]], ignitions, ds)
    BY <2>1, <2>2
  <2>4. /\ position - 1 \in Nat /\ position - 1 < Batches /\ OfBatch(position - 1, items)
        /\ DOMAIN pred = {items[j].sample : j \in DOMAIN items}
        /\ DOMAIN pred \subseteq Samples
        /\ \A k \in DOMAIN pred : DOMAIN pred[k] = Roles
        /\ \A k \in DOMAIN pred : \A r \in DOMAIN pred[k] :
             /\ pred[k][r].burned \subseteq OnWindow(ignitions[k])
             /\ pred[k][r].crowned \subseteq OnWindow(ignitions[k])
    BY <1>0, <2>2, PredictedFacts, AcceptedTypes DEF Core, DataInv, DataTypes
  <2>5. /\ DOMAIN fires = 1 .. AtMost(Length, Start(position - 1))
        /\ DOMAIN fires \subseteq Samples
        /\ \A k \in DOMAIN fires : DOMAIN fires[k] = Roles
        /\ FiresOnWindow
        /\ kept = KeptOf(fires)
        /\ agg = AddEmulated(NoFires(ds), [k \in kept |-> fires[k][First]],
                             [k \in kept |-> fires[k][Second]], ignitions, ds)
    BY <1>0 DEF EmulatedOK, Loaded
  <2>6. /\ DOMAIN fires \cup DOMAIN pred = 1 .. AtMost(Length, Start(position))
        /\ DOMAIN fires \cap DOMAIN pred = {}
    <3>1. position - 1 + 1 = position
      BY BatchesNat DEF Core, DataInv, Loop
    <3> QED
      <4>1. DataTypes
        BY DEF Core, DataInv
      <4>2. /\ 1 .. AtMost(Length, Start(position - 1 + 1))
                 = (1 .. AtMost(Length, Start(position - 1))) \cup {items[j].sample : j \in DOMAIN items}
            /\ (1 .. AtMost(Length, Start(position - 1))) \cap {items[j].sample : j \in DOMAIN items} = {}
        BY <2>4, <4>1, BatchSamples
      <4> QED
        BY <2>4, <2>5, <3>1, <4>2
  <2>7. /\ DOMAIN fires' = DOMAIN fires \cup DOMAIN pred
        /\ \A k \in DOMAIN fires : fires'[k] = fires[k]
        /\ \A k \in DOMAIN pred : fires'[k] = pred[k]
    BY <2>3, <2>6 DEF Updated
  <2>8. /\ KeptOf(fires') = KeptOf(fires) \cup KeptOf(pred)
        /\ KeptOf(fires) \cap KeptOf(pred) = {}
        /\ KeptOf(fires) \subseteq DOMAIN fires /\ KeptOf(pred) \subseteq DOMAIN pred
    BY <2>6, <2>7 DEF KeptOf
  <2>9. IsFiniteSet(KeptOf(fires)) /\ IsFiniteSet(KeptOf(pred))
    <3>1. IsFiniteSet(Samples)
      BY LenProperties, FS_Interval DEF Samples, Core, DataInv, DataTypes
    <3>2. KeptOf(fires) \in SUBSET Samples /\ KeptOf(pred) \in SUBSET Samples
      BY <2>4, <2>5, <2>8
    <3> QED
      BY <3>1, <3>2, FS_Subset
  <2>10. agg' = AddEmulated(NoFires(ds), [k \in kept' |-> fires'[k][First]],
                            [k \in kept' |-> fires'[k][Second]], ignitions, ds)
    <3> DEFINE A == KeptOf(fires)
               B == KeptOf(pred)
               base == [k \in A \cup B |-> fires'[k][First]]
               treat == [k \in A \cup B |-> fires'[k][Second]]
    <3>1. /\ [k \in A |-> base[k]] = [k \in A |-> fires[k][First]]
          /\ [k \in A |-> treat[k]] = [k \in A |-> fires[k][Second]]
          /\ [k \in B |-> base[k]] = [k \in B |-> pred[k][First]]
          /\ [k \in B |-> treat[k]] = [k \in B |-> pred[k][Second]]
      BY <2>7, <2>8
    <3>2. DOMAIN base = A \cup B
      OBVIOUS
    <3>3. AddEmulated(AddEmulated(NoFires(ds), [k \in A |-> base[k]], [k \in A |-> treat[k]],
                                  ignitions, ds),
                      [k \in B |-> base[k]], [k \in B |-> treat[k]], ignitions, ds)
            = AddEmulated(NoFires(ds), base, treat, ignitions, ds)
      <4>1. A \cap B = {} /\ IsFiniteSet(A) /\ IsFiniteSet(B)
        BY <2>8, <2>9
      <4> HIDE DEF A, B, base, treat
      <4> QED
        BY <3>2, <4>1, EmulatedTwice
    <3>4. agg = AddEmulated(NoFires(ds), [k \in A |-> base[k]], [k \in A |-> treat[k]], ignitions, ds)
      BY <2>5, <3>1
    <3>5. agg' = AddEmulated(agg, [k \in B |-> base[k]], [k \in B |-> treat[k]], ignitions, ds)
      BY <2>3, <3>1
    <3>6. kept' = A \cup B
      BY <2>3, <2>5
    <3> QED
      BY <3>3, <3>4, <3>5, <3>6
  <2>11. /\ \A f : KeptOf(f)' = KeptOf(f)
         /\ \A i : OnWindow(i)' = OnWindow(i)
         /\ Samples' = Samples /\ Roles' = Roles /\ First' = First /\ Second' = Second
         /\ Length' = Length /\ \A b : Start(b)' = Start(b)
    BY <1>0, KeptSame
  <2>12. FiresOnWindow'
    <3>1. \A k \in DOMAIN fires' : \A r \in DOMAIN fires'[k] :
            /\ fires'[k][r].burned \subseteq OnWindow(ignitions[k])
            /\ fires'[k][r].crowned \subseteq OnWindow(ignitions[k])
      BY <2>4, <2>5, <2>7 DEF FiresOnWindow
    <3> QED
      BY <1>0, <2>11, <3>1 DEF FiresOnWindow
  <2>13. KeptOf(fires)' = kept'
    BY <2>3, <2>5, <2>8, <2>11
  <2>14. Loaded' = position
    BY <1>0, <2>3 DEF Loaded
  <2>15. DOMAIN fires' \subseteq Samples /\ DOMAIN fires' = 1 .. AtMost(Length, Start(position))
         /\ \A k \in DOMAIN fires' : DOMAIN fires'[k] = Roles
    BY <2>4, <2>5, <2>6, <2>7
  <2> QED
    BY <1>0, <2>10, <2>11, <2>12, <2>13, <2>14, <2>15 DEF EmulatedOK
<1> QED
  BY <1>1, <1>2

LEMMA EmulatedStep ==
    ASSUME Core, ServedBatch, EmulatedOK, [Next]_vars
    PROVE  EmulatedOK'
<1>0. Phase /\ Untouched
  BY DEF Core
<1>1. CASE ds'.cmd # "run_dl"
  BY <1>1 DEF EmulatedOK
<1>2. CASE ForwardRun
  BY <1>2, EmulatedForward
<1>3. CASE ConstructDataset
  <2>1. /\ ds' = ds /\ fires' = NoFiles /\ kept' = {} /\ agg' = NoFires(ds) /\ position' = 0
        /\ pc' \in {"construct", "load", "collect"}
    BY <1>0, <1>3, ConstructFacts DEF Untouched
  <2>2. DOMAIN fires' = {} /\ Loaded' = 0
    BY <2>1 DEF NoFiles, Loaded
  <2>3. KeptOf(fires)' = {}
    BY <2>2 DEF KeptOf
  <2>4. AddEmulated(NoFires(ds), [k \in {} |-> fires'[k][First']], [k \in {} |-> fires'[k][Second']],
                    ignitions', ds) = NoFires(ds)
    BY EmulatedNone
  <2>5. 1 .. AtMost(Length', Start(0)') = {}
    <3>1. Start(0)' = 0 /\ Length' \in Nat
      <4>1. Core'
        BY <1>3, CoreStep DEF Next, Command
      <4>2. Length' \in Nat
        <5>1. ds' \in Datasets /\ Len(ignitions') \in Nat
          BY <4>1, LenProperties DEF Core, DataInv, DataTypes
        <5> QED
          BY <5>1, BatchCount DEF Length
      <4>3. ds'.batch \in Nat
        BY <2>1, AcceptedTypes DEF Core, DataInv, DataTypes
      <4> QED
        BY <4>2, <4>3 DEF Start
    <3> QED
      BY <3>1 DEF AtMost
  <2> QED
    BY <2>1, <2>2, <2>3, <2>4, <2>5 DEF EmulatedOK, FiresOnWindow
<1>4. CASE ~ForwardRun /\ ~ConstructDataset /\ ds'.cmd = "run_dl"
  <2>1. ds' = ds /\ ignitions' = ignitions
    BY <1>4, SameBatches
  <2>2. LoadBatch \/ WriteRun \/ SetCancel \/ UNCHANGED vars
        \/ \E t \in DOMAIN task : QueueTask(t) \/ StartTask(t)
    BY <1>0, <1>4, <2>1 DEF Phase, Pooled, Next, Command, Pool, TrainItem, ForwardEvaluate, Drain,
       SubmitWrite, EndPass, LastDrained, AllTaken, Leave, Collect, EndWrite, EndSimulation
  <2>3. UNCHANGED <<fires, kept, agg>>
    BY <2>2 DEF LoadBatch, WriteRun, SetCancel, QueueTask, StartTask, FirstOf, vars, loopVars
  <2>4. pc' \in {"construct", "load", "forward", "done"} =>
          pc \in {"construct", "load", "forward", "done"} /\ Loaded' = Loaded
    <3>1. CASE LoadBatch
      BY <3>1, BatchesNat DEF LoadBatch, Loaded, Core, DataInv, Loop
    <3>2. CASE WriteRun
      BY <3>2 DEF WriteRun, Loaded, loopVars
    <3>3. CASE SetCancel \/ UNCHANGED vars
              \/ \E t \in DOMAIN task : QueueTask(t) \/ StartTask(t)
      BY <3>3 DEF SetCancel, QueueTask, StartTask, FirstOf, vars, loopVars, Loaded
    <3> QED
      BY <2>2, <3>1, <3>2, <3>3
  <2> QED
    BY <2>1, <2>3, <2>4, EmulatedFrame
<1> QED
  BY <1>1, <1>2, <1>3, <1>4

-----------------------------------------------------------------------------
\* The simulations of pyretechnics

SimulatedRoles == IF ds.cmd = "run_pt" THEN Roles ELSE {RoleOf(0)}

\* A task is an ignition, and its fires are known when it has ended; those taken
\* that touch the treatment area are kept and summed.
SimulatedOK ==
    Pooled /\ pc # "construct" =>
        /\ DOMAIN task = Samples
        /\ DOMAIN fires = {t \in DOMAIN task : task[t] \in {"done", "taken"}}
        /\ \A t \in DOMAIN fires : fires[t] \in [SimulatedRoles -> ds.fires]
        /\ ds.cmd = "run_pt" =>
             /\ kept = {t \in DOMAIN task : task[t] = "taken" /\ Touched(fires[t])}
             /\ agg = SimSum(ds, fires, kept)
        /\ ds.cmd = "evaluate_pt" =>
             /\ DOMAIN files = DOMAIN fires
             /\ \A t \in DOMAIN fires : files[t] = fires[t][RoleOf(0)].burned

LEMMA SimSame ==
    ASSUME ds' = ds, ignitions' = ignitions
    PROVE  /\ SimulatedRoles' = SimulatedRoles /\ Pooled' = Pooled /\ RoleOf(0)' = RoleOf(0)
           /\ \A f : Touched(f)' = Touched(f)
           /\ Samples' = Samples
<1>1. RoleOf(0)' = RoleOf(0) /\ Pooled' = Pooled
  BY DEF RoleOf, Pooled
<1>2. SimulatedRoles' = SimulatedRoles
  BY <1>1 DEF SimulatedRoles, Roles
<1>3. \A f : Touched(f)' = Touched(f)
  BY DEF Touched
<1> QED
  BY <1>1, <1>2, <1>3 DEF Samples

\* The sum looks at the fires that are kept.
LEMMA SimSumSame ==
    ASSUME NEW g, NEW f, NEW h, NEW K, \A k \in K : h[k] = f[k]
    PROVE  SimSum(g, h, K) = SimSum(g, f, K)
<1>1. SimTo(h, K) = SimTo(f, K) /\ SimFrom(h, K) = SimFrom(f, K)
  BY DEF SimTo, SimFrom
<1> QED
  BY <1>1 DEF SimSum

\* What changes neither the results nor what was taken.
LEMMA SimulatedFrame ==
    ASSUME SimulatedOK, pc # "construct", ds' = ds, ignitions' = ignitions,
           UNCHANGED <<fires, kept, agg, files>>,
           DOMAIN task' = DOMAIN task,
           \A t \in DOMAIN task : /\ (task'[t] = "taken") <=> (task[t] = "taken")
                                  /\ (task'[t] = "done") <=> (task[t] = "done")
    PROVE  SimulatedOK'
<1>1. /\ SimulatedRoles' = SimulatedRoles /\ Pooled' = Pooled /\ RoleOf(0)' = RoleOf(0)
      /\ \A f : Touched(f)' = Touched(f)
      /\ Samples' = Samples
  BY SimSame
<1> SUFFICES ASSUME Pooled PROVE SimulatedOK'
  BY <1>1 DEF SimulatedOK
<1>2. {t \in DOMAIN task' : task'[t] \in {"done", "taken"}} = {t \in DOMAIN task : task[t] \in {"done", "taken"}}
  OBVIOUS
<1>3. {t \in DOMAIN task' : task'[t] = "taken" /\ Touched(fires[t])}
        = {t \in DOMAIN task : task[t] = "taken" /\ Touched(fires[t])}
  OBVIOUS
<1>4. {t \in DOMAIN task : task[t] = "taken" /\ Touched(fires[t])}'
        = {t \in DOMAIN task' : task'[t] = "taken" /\ Touched(fires[t])}
  BY <1>1
<1> QED
  BY <1>1, <1>2, <1>3, <1>4 DEF SimulatedOK

LEMMA SimulatedEnd ==
    ASSUME Core, SimulatedOK, NEW t \in DOMAIN task, EndSimulation(t)
    PROVE  SimulatedOK'
<1>0. /\ ds' = ds /\ ignitions' = ignitions /\ pc' = pc /\ kept' = kept /\ agg' = agg
      /\ Pooled /\ task[t] = "running" /\ pc # "construct"
  BY EmptySeq DEF EndSimulation, dataVars, Running, Core, Untouched
<1>1. /\ SimulatedRoles' = SimulatedRoles /\ Pooled' = Pooled /\ RoleOf(0)' = RoleOf(0)
      /\ \A f : Touched(f)' = Touched(f)
      /\ Samples' = Samples
  BY <1>0, SimSame
<1>2. /\ DOMAIN task = Samples
      /\ DOMAIN fires = {u \in DOMAIN task : task[u] \in {"done", "taken"}}
      /\ \A u \in DOMAIN fires : fires[u] \in [SimulatedRoles -> ds.fires]
      /\ ds.cmd = "run_pt" =>
           /\ kept = {u \in DOMAIN task : task[u] = "taken" /\ Touched(fires[u])}
           /\ agg = SimSum(ds, fires, kept)
      /\ ds.cmd = "evaluate_pt" =>
           /\ DOMAIN files = DOMAIN fires
           /\ \A u \in DOMAIN fires : files[u] = fires[u][RoleOf(0)].burned
  BY <1>0 DEF SimulatedOK
<1>3. CASE task' = [task EXCEPT ![t] = "failed"] /\ UNCHANGED <<fires, files>>
  <2>1. /\ DOMAIN task' = DOMAIN task
        /\ \A u \in DOMAIN task : /\ (task'[u] = "taken") <=> (task[u] = "taken")
                                  /\ (task'[u] = "done") <=> (task[u] = "done")
    BY <1>0, <1>3
  <2> QED
    BY <1>0, <1>3, <2>1, SimulatedFrame
<1>4. ASSUME NEW result \in [SimulatedRoles -> ds.fires],
             task' = [task EXCEPT ![t] = "done"],
             fires' = Updated(fires, [k \in {t} |-> result]),
             files' = IF ds.cmd = "run_pt" THEN files
                      ELSE Updated(files, [k \in {t} |-> result[RoleOf(0)].burned])
      PROVE  SimulatedOK'
  <2>1. /\ DOMAIN task' = DOMAIN task /\ task'[t] = "done"
        /\ \A u \in DOMAIN task : u # t => task'[u] = task[u]
    BY <1>4
  <2>2. /\ DOMAIN fires' = DOMAIN fires \cup {t} /\ t \notin DOMAIN fires
        /\ \A u \in DOMAIN fires : fires'[u] = fires[u]
        /\ fires'[t] = result
    BY <1>0, <1>2, <1>4 DEF Updated
  <2>3. DOMAIN fires' = {u \in DOMAIN task' : task'[u] \in {"done", "taken"}}
    BY <1>2, <2>1, <2>2
  <2>4. \A u \in DOMAIN fires' : fires'[u] \in [SimulatedRoles -> ds.fires]
    BY <1>2, <1>4, <2>2
  <2>5. ASSUME ds.cmd = "run_pt"
        PROVE  /\ kept = {u \in DOMAIN task' : task'[u] = "taken" /\ Touched(fires'[u])}
               /\ agg = SimSum(ds, fires', kept)
    <3>1. {u \in DOMAIN task' : task'[u] = "taken" /\ Touched(fires'[u])}
            = {u \in DOMAIN task : task[u] = "taken" /\ Touched(fires[u])}
      <4>1. \A u \in DOMAIN task : (task'[u] = "taken") <=> (task[u] = "taken")
        BY <1>0, <2>1
      <4>2. \A u \in DOMAIN task : task[u] = "taken" => fires'[u] = fires[u]
        BY <1>2, <2>2
      <4> QED
        BY <2>1, <4>1, <4>2
    <3>2. \A u \in kept : fires'[u] = fires[u]
      BY <1>2, <2>2, <2>5
    <3> QED
      BY <1>2, <2>5, <3>1, <3>2, SimSumSame
  <2>6. ASSUME ds.cmd = "evaluate_pt"
        PROVE  /\ DOMAIN files' = DOMAIN fires'
               /\ \A u \in DOMAIN fires' : files'[u] = fires'[u][RoleOf(0)].burned
    <3>1. /\ DOMAIN files' = DOMAIN files \cup {t}
          /\ \A u \in DOMAIN files : u # t => files'[u] = files[u]
          /\ files'[t] = result[RoleOf(0)].burned
      BY <1>4, <2>6 DEF Updated
    <3> QED
      BY <1>2, <2>2, <2>6, <3>1
  <2>7. {u \in DOMAIN task : task[u] = "taken" /\ Touched(fires[u])}'
          = {u \in DOMAIN task' : task'[u] = "taken" /\ Touched(fires'[u])}
    BY <1>1
  <2> QED
    BY <1>0, <1>1, <1>2, <2>1, <2>3, <2>4, <2>5, <2>6, <2>7 DEF SimulatedOK
<1> QED
  BY <1>3, <1>4 DEF EndSimulation, SimulatedRoles

LEMMA SimulatedCollect ==
    ASSUME Core, SimulatedOK, NEW t \in DOMAIN task, Collect(t)
    PROVE  SimulatedOK'
<1>0. /\ ds' = ds /\ ignitions' = ignitions /\ fires' = fires /\ files' = files
      /\ Pooled /\ pc = "collect" /\ pc' # "construct" /\ task[t] \in {"done", "failed"}
      /\ task \in Seq(Statuses)
  BY DEF Collect, dataVars, Core, Phase, Loop
<1>1. /\ SimulatedRoles' = SimulatedRoles /\ Pooled' = Pooled /\ RoleOf(0)' = RoleOf(0)
      /\ \A f : Touched(f)' = Touched(f)
      /\ Samples' = Samples
  BY <1>0, SimSame
<1>2. /\ DOMAIN task = Samples
      /\ DOMAIN fires = {u \in DOMAIN task : task[u] \in {"done", "taken"}}
      /\ \A u \in DOMAIN fires : fires[u] \in [SimulatedRoles -> ds.fires]
      /\ ds.cmd = "run_pt" =>
           /\ kept = {u \in DOMAIN task : task[u] = "taken" /\ Touched(fires[u])}
           /\ agg = SimSum(ds, fires, kept)
      /\ ds.cmd = "evaluate_pt" =>
           /\ DOMAIN files = DOMAIN fires
           /\ \A u \in DOMAIN fires : files[u] = fires[u][RoleOf(0)].burned
  BY <1>0 DEF SimulatedOK
<1>3. CASE UNCHANGED <<agg, kept>> /\ (task' = task \/ task' = CancelWaiting)
  <2>1. /\ DOMAIN task' = DOMAIN task
        /\ \A u \in DOMAIN task : /\ (task'[u] = "taken") <=> (task[u] = "taken")
                                  /\ (task'[u] = "done") <=> (task[u] = "done")
    BY <1>3 DEF CancelWaiting, Waiting
  <2> QED
    BY <1>0, <1>3, <2>1, SimulatedFrame
<1>4. CASE /\ task[t] = "done" /\ task' = [task EXCEPT ![t] = "taken"]
           /\ IF ds.cmd = "run_pt" /\ Touched(fires[t])
              THEN /\ agg' = AddSimulated(agg, fires[t]["baseline"], fires[t]["treatment"])
                   /\ kept' = kept \cup {t}
              ELSE UNCHANGED <<agg, kept>>
  <2>1. /\ DOMAIN task' = DOMAIN task /\ task'[t] = "taken"
        /\ \A u \in DOMAIN task : u # t => task'[u] = task[u]
    BY <1>4
  <2>2. DOMAIN fires = {u \in DOMAIN task' : task'[u] \in {"done", "taken"}}
    BY <1>2, <1>4, <2>1
  <2>3. ASSUME ds.cmd = "run_pt"
        PROVE  /\ kept' = {u \in DOMAIN task' : task'[u] = "taken" /\ Touched(fires[u])}
               /\ agg' = SimSum(ds, fires, kept')
    <3>1. {u \in DOMAIN task' : task'[u] = "taken" /\ Touched(fires[u])}
            = IF Touched(fires[t])
              THEN {u \in DOMAIN task : task[u] = "taken" /\ Touched(fires[u])} \cup {t}
              ELSE {u \in DOMAIN task : task[u] = "taken" /\ Touched(fires[u])}
      <4>1. \A u \in DOMAIN task' : (task'[u] = "taken") <=> (task[u] = "taken" \/ u = t)
        BY <2>1
      <4>2. task[t] # "taken"
        BY <1>4
      <4> QED
        BY <2>1, <4>1, <4>2
    <3>2. CASE Touched(fires[t])
      <4>1. kept' = kept \cup {t} /\ agg' = AddSimulated(SimSum(ds, fires, kept), fires[t]["baseline"], fires[t]["treatment"])
        BY <1>2, <1>4, <2>3, <3>2
      <4>2. IsFiniteSet(kept) /\ t \notin kept
        <5>1. IsFiniteSet(Samples) /\ kept \in SUBSET Samples
          BY <1>2, <2>3, LenProperties, FS_Interval DEF Samples, Core, DataInv, DataTypes
        <5>2. t \notin kept
          BY <1>2, <1>4, <2>3
        <5> QED
          BY <5>1, <5>2, FS_Subset
      <4>3. AddSimulated(SimSum(ds, fires, kept), fires[t]["baseline"], fires[t]["treatment"])
              = SimSum(ds, fires, kept \cup {t})
        BY <4>2, SimulatedMore
      <4> QED
        BY <1>2, <2>3, <3>1, <3>2, <4>1, <4>3
    <3>3. CASE ~Touched(fires[t])
      BY <1>2, <1>4, <2>3, <3>1, <3>3
    <3> QED
      BY <3>2, <3>3
  <2>4. {u \in DOMAIN task : task[u] = "taken" /\ Touched(fires[u])}'
          = {u \in DOMAIN task' : task'[u] = "taken" /\ Touched(fires[u])}
    BY <1>0, <1>1
  <2> QED
    BY <1>0, <1>1, <1>2, <2>1, <2>2, <2>3, <2>4 DEF SimulatedOK
<1> QED
  BY <1>0, <1>3, <1>4 DEF Collect

LEMMA SimulatedStep ==
    ASSUME Core, SimulatedOK, [Next]_vars
    PROVE  SimulatedOK'
<1>0. Phase /\ Untouched
  BY DEF Core
<1>1. CASE ~(Pooled' /\ pc' # "construct")
  BY <1>1 DEF SimulatedOK
<1>2. CASE ConstructDataset /\ pc' # "construct" /\ Pooled'
  <2>1. /\ ds' = ds /\ fires' = NoFiles /\ kept' = {} /\ agg' = NoFires(ds) /\ files' = NoFiles
        /\ task' = [k \in DOMAIN ignitions' |-> "pending"]
    BY <1>0, <1>2, ConstructFacts DEF Untouched, Pooled
  <2>2. DOMAIN fires' = {} /\ DOMAIN files' = {}
    BY <2>1 DEF NoFiles
  <2>3. DOMAIN task' = Samples' /\ \A t \in DOMAIN task' : task'[t] = "pending"
    BY <2>1 DEF Samples
  <2>4. agg' = SimSum(ds', fires', kept')
    BY <2>1, SimulatedNone
  <2> QED
    BY <2>1, <2>2, <2>3, <2>4 DEF SimulatedOK
<1>3. ASSUME NEW t \in DOMAIN task, Collect(t) PROVE SimulatedOK'
  BY <1>3, SimulatedCollect
<1>4. ASSUME NEW t \in DOMAIN task, EndSimulation(t) PROVE SimulatedOK'
  BY <1>4, SimulatedEnd
<1>5. ASSUME ~ConstructDataset, Pooled', NEW t \in DOMAIN task, QueueTask(t) \/ StartTask(t)
      PROVE  SimulatedOK'
  <2>1. /\ ds' = ds /\ ignitions' = ignitions /\ UNCHANGED <<fires, kept, agg, files>>
        /\ pc # "construct"
        /\ DOMAIN task' = DOMAIN task
        /\ \A u \in DOMAIN task : /\ (task'[u] = "taken") <=> (task[u] = "taken")
                                  /\ (task'[u] = "done") <=> (task[u] = "done")
    BY <1>0, <1>5, EmptySeq DEF QueueTask, StartTask, FirstOf, Queued, Waiting, dataVars,
       loopVars, Untouched
  <2> QED
    BY <2>1, SimulatedFrame
<1>6. CASE /\ Pooled' /\ pc' # "construct" /\ ~ConstructDataset
           /\ AllTaken \/ Leave \/ SetCancel \/ UNCHANGED vars
  <2>1. /\ ds' = ds /\ ignitions' = ignitions /\ UNCHANGED <<fires, kept, agg, files, task>>
        /\ pc # "construct"
    BY <1>6 DEF AllTaken, Leave, SetCancel, vars, dataVars, loopVars, poolVars
  <2> QED
    BY <2>1, SimulatedFrame
<1>7. ASSUME Pooled', ~ConstructDataset, Next
      PROVE  \/ AllTaken \/ Leave \/ SetCancel
             \/ \E t \in DOMAIN task : Collect(t) \/ EndSimulation(t) \/ QueueTask(t) \/ StartTask(t)
  <2>1. Pooled
    BY <1>7, SameBatches DEF Pooled
  <2> QED
    BY <1>0, <1>7, <2>1 DEF Phase, Pooled, Next, Command, Pool, TrainItem, LoadBatch, ForwardRun,
       WriteRun,
       ForwardEvaluate, Drain, SubmitWrite, EndPass, LastDrained, EndWrite
<1> QED
  BY <1>1, <1>2, <1>3, <1>4, <1>5, <1>6, <1>7

-----------------------------------------------------------------------------
\* The fires and the files of evaluate

\* What is to be written, or is written, was predicted.
EvaluatedOK ==
    ds.cmd = "evaluate" =>
        /\ DOMAIN fires \subseteq Samples
        /\ \A k \in DOMAIN fires : First \in DOMAIN fires[k]
        /\ FiresOnWindow
        /\ pc = "drain" => \A j \in DOMAIN items : items[j].sample \in DOMAIN fires
        /\ \A t \in DOMAIN writes : \A j \in DOMAIN writes[t] : writes[t][j].sample \in DOMAIN fires
        /\ DOMAIN files \subseteq DOMAIN fires

\* The first role is one of those that are read.
LEMMA FirstRole ==
    ASSUME ds \in Datasets
    PROVE  First \in Roles /\ (~ds.burned => RoleOf(0) = First)
<1>1. Len(ds.roles) \in Nat /\ Len(ds.roles) > 0 /\ DOMAIN ds.roles = 1 .. Len(ds.roles)
  BY AcceptedTypes, LenProperties, EmptySeq
<1>2. First \in Roles
  BY <1>1 DEF First, Roles, Range
<1>3. ~ds.burned => RoleOf(0) = First
  BY DEF RoleOf, First
<1> QED
  BY <1>2, <1>3

LEMMA EvaluatedFrame ==
    ASSUME EvaluatedOK, ds' = ds, ignitions' = ignitions,
           UNCHANGED <<fires, writes>>, DOMAIN files' \subseteq DOMAIN fires,
           pc' = "drain" => pc = "drain" /\ items' = items
    PROVE  EvaluatedOK'
<1>1. /\ \A i : OnWindow(i)' = OnWindow(i)
      /\ Samples' = Samples /\ First' = First
  BY KeptSame
<1>2. FiresOnWindow' <=> FiresOnWindow
  BY <1>1 DEF FiresOnWindow
<1> QED
  BY <1>1, <1>2 DEF EvaluatedOK

\* evaluate.py: a batch is predicted, for the first time or again.
LEMMA EvaluatedForward ==
    ASSUME Core, ServedBatch, EvaluatedOK, ForwardEvaluate
    PROVE  EvaluatedOK'
<1>0. /\ ds.cmd = "evaluate" /\ pc = "forward" /\ pc' = "drain"
      /\ ds' = ds /\ ignitions' = ignitions /\ items' = items /\ writes' = writes /\ files' = files
  BY DEF ForwardEvaluate, dataVars, poolVars
<1>1. PICK choice \in Outcomes : fires' = Updated(fires, Predicted(choice))
  BY DEF ForwardEvaluate
<1>2. PICK pred : pred = Predicted(choice)
  OBVIOUS
<1>3. /\ DOMAIN fires' = DOMAIN fires \cup DOMAIN pred
      /\ \A k \in DOMAIN fires' : fires'[k] = IF k \in DOMAIN pred THEN pred[k] ELSE fires[k]
  BY <1>1, <1>2 DEF Updated
<1>4. /\ DOMAIN pred = {items[j].sample : j \in DOMAIN items}
      /\ DOMAIN pred \subseteq Samples
      /\ \A k \in DOMAIN pred : \A r \in DOMAIN pred[k] :
           /\ pred[k][r].burned \subseteq OnWindow(ignitions[k])
           /\ pred[k][r].crowned \subseteq OnWindow(ignitions[k])
  BY <1>0, <1>2, PredictedFacts
<1>5. \A k \in DOMAIN pred : First \in DOMAIN pred[k]
  <2> TAKE k \in DOMAIN pred
  <2>1. ds \in Datasets /\ First \in Roles /\ ~ds.burned
    BY <1>0, FirstRole, AcceptedTypes DEF Core, DataInv, DataTypes
  <2>2. /\ ds.area # NoArea => DOMAIN pred[k] = Roles
        /\ ds.area = NoArea => \E j \in DOMAIN items : DOMAIN pred[k] = {items[j].role}
    BY <1>0, <1>2, PredictedFacts
  <2>3. \A j \in DOMAIN items : items[j].role = First
    BY <2>1 DEF Core, DataInv, ItemShape
  <2> QED
    BY <2>1, <2>2, <2>3
<1>6. /\ \A i : OnWindow(i)' = OnWindow(i)
      /\ Samples' = Samples /\ First' = First
  BY <1>0, KeptSame
<1>7. FiresOnWindow'
  <2>1. \A k \in DOMAIN fires' : \A r \in DOMAIN fires'[k] :
          /\ fires'[k][r].burned \subseteq OnWindow(ignitions[k])
          /\ fires'[k][r].crowned \subseteq OnWindow(ignitions[k])
    BY <1>0, <1>3, <1>4 DEF EvaluatedOK, FiresOnWindow
  <2> QED
    BY <1>0, <1>6, <2>1 DEF FiresOnWindow
<1>8. /\ DOMAIN fires' \subseteq Samples
      /\ \A k \in DOMAIN fires' : First \in DOMAIN fires'[k]
      /\ \A j \in DOMAIN items : items[j].sample \in DOMAIN fires'
      /\ \A t \in DOMAIN writes : \A j \in DOMAIN writes[t] : writes[t][j].sample \in DOMAIN fires'
      /\ DOMAIN files \subseteq DOMAIN fires'
  BY <1>0, <1>3, <1>4, <1>5 DEF EvaluatedOK
<1> QED
  BY <1>0, <1>6, <1>7, <1>8 DEF EvaluatedOK

LEMMA EvaluatedSubmit ==
    ASSUME Core, WritersOK, EvaluatedOK, SubmitWrite
    PROVE  EvaluatedOK'
<1>0. /\ ds.cmd = "evaluate" /\ pc = "drain" /\ pc' = "load"
      /\ ds' = ds /\ ignitions' = ignitions /\ fires' = fires /\ files' = files
  BY DEF SubmitWrite, dataVars, loopVars, Core, Phase
<1>1. PICK w : /\ w = [j \in DOMAIN items |-> [sample |-> items[j].sample, cells |-> Canvas(items[j])]]
               /\ writes' = Append(writes, w)
  BY DEF SubmitWrite
<1>2. \A j \in DOMAIN w : w[j].sample \in DOMAIN fires
  BY <1>0, <1>1 DEF EvaluatedOK
<1>3. \A t \in DOMAIN writes' : writes'[t] = w \/ (t \in DOMAIN writes /\ writes'[t] = writes[t])
  <2>1. writes \in Seq(Rasters)
    BY <1>0 DEF WritersOK
  <2> QED
    BY <1>1, <2>1
<1>4. \A t \in DOMAIN writes' : \A j \in DOMAIN writes'[t] : writes'[t][j].sample \in DOMAIN fires
  BY <1>0, <1>2, <1>3 DEF EvaluatedOK
<1>5. /\ \A i : OnWindow(i)' = OnWindow(i)
      /\ Samples' = Samples /\ First' = First
  BY <1>0, KeptSame
<1>6. FiresOnWindow' <=> FiresOnWindow
  BY <1>0, <1>5 DEF FiresOnWindow
<1> QED
  BY <1>0, <1>4, <1>5, <1>6 DEF EvaluatedOK

LEMMA EvaluatedWrite ==
    ASSUME Core, WritersOK, EvaluatedOK, NEW t \in DOMAIN task, EndWrite(t)
    PROVE  EvaluatedOK'
<1>0. /\ ds.cmd = "evaluate" /\ pc' = pc /\ items' = items
      /\ ds' = ds /\ ignitions' = ignitions /\ fires' = fires /\ writes' = writes
  BY DEF EndWrite, dataVars, loopVars
<1>1. /\ writes \in Seq(Rasters) /\ DOMAIN writes = DOMAIN task
  BY <1>0, LenProperties DEF WritersOK, Core, Loop
<1>2. writes[t] \in Rasters /\ DOMAIN writes[t] = 1 .. Len(writes[t]) /\ Len(writes[t]) \in Nat
  BY <1>1, ElementOfSeq, LenProperties DEF Rasters
<1>3. \A n \in 0 .. Len(writes[t]) : {writes[t][j].sample : j \in 1 .. n} \subseteq DOMAIN fires
  <2> TAKE n \in 0 .. Len(writes[t])
  <2>1. \A j \in 1 .. n : j \in DOMAIN writes[t]
    BY <1>2
  <2> QED
    BY <1>0, <1>1, <2>1 DEF EvaluatedOK
<1>4. PICK n \in 0 .. Len(writes[t]) : WriteRasters(t, n)
  <2>1. Len(writes[t]) \in 0 .. Len(writes[t])
        /\ \A n \in 0 .. Len(writes[t]) - 1 : n \in 0 .. Len(writes[t])
    BY <1>2
  <2> QED
    BY <2>1 DEF EndWrite
<1>5. DOMAIN files' = DOMAIN files \cup {writes[t][j].sample : j \in 1 .. n}
  BY <1>4 DEF WriteRasters, Updated
<1>6. DOMAIN files' \subseteq DOMAIN fires
  BY <1>0, <1>3, <1>5 DEF EvaluatedOK
<1> QED
  BY <1>0, <1>6, EvaluatedFrame

LEMMA EvaluatedStep ==
    ASSUME Core, ServedBatch, WritersOK, EvaluatedOK, [Next]_vars
    PROVE  EvaluatedOK'
<1>0. Phase /\ Untouched
  BY DEF Core
<1>1. CASE ds'.cmd # "evaluate"
  BY <1>1 DEF EvaluatedOK
<1>2. CASE ForwardEvaluate
  BY <1>2, EvaluatedForward
<1>3. CASE SubmitWrite
  BY <1>3, EvaluatedSubmit
<1>4. ASSUME NEW t \in DOMAIN task, EndWrite(t) PROVE EvaluatedOK'
  BY <1>4, EvaluatedWrite
<1>5. CASE ConstructDataset
  <2>1. /\ fires' = NoFiles /\ files' = NoFiles /\ writes' = <<>>
        /\ pc' \in {"construct", "load", "collect"}
    BY <1>0, <1>5, ConstructFacts DEF Untouched
  <2>2. DOMAIN fires' = {} /\ DOMAIN files' = {} /\ DOMAIN writes' = {}
    BY <2>1, EmptySeq DEF NoFiles
  <2> QED
    BY <2>1, <2>2 DEF EvaluatedOK, FiresOnWindow
<1>6. CASE /\ ~ConstructDataset /\ ds'.cmd = "evaluate"
           /\ ~ForwardEvaluate /\ ~SubmitWrite /\ \A t \in DOMAIN task : ~EndWrite(t)
  <2>1. ds' = ds /\ ignitions' = ignitions
    BY <1>6, SameBatches
  <2>2. LoadBatch \/ Drain \/ EndPass \/ LastDrained \/ Leave \/ SetCancel \/ UNCHANGED vars
        \/ \E t \in DOMAIN task : QueueTask(t) \/ StartTask(t)
    BY <1>0, <1>6, <2>1 DEF Phase, Pooled, Next, Command, Pool, TrainItem, ForwardRun, WriteRun,
       AllTaken, Collect, EndSimulation
  <2>3. UNCHANGED <<fires, writes, files>>
    BY <2>2 DEF LoadBatch, Drain, DrainOldest, EndPass, LastDrained, Leave, SetCancel, QueueTask,
       StartTask, FirstOf,
       vars, loopVars, poolVars
  <2>4. pc' = "drain" => pc = "drain" /\ items' = items
    BY <2>2 DEF LoadBatch, Drain, DrainOldest, EndPass, LastDrained, Leave, SetCancel, QueueTask,
       StartTask, FirstOf,
       vars, dataVars
  <2>5. DOMAIN files' \subseteq DOMAIN fires
    BY <1>6, <2>1, <2>3 DEF EvaluatedOK
  <2> QED
    BY <2>1, <2>3, <2>4, <2>5, EvaluatedFrame
<1> QED
  BY <1>1, <1>2, <1>3, <1>4, <1>5, <1>6

-----------------------------------------------------------------------------
\* Types

LEMMA EmulatedTotal ==
    ASSUME NEW g, NEW at, NEW K, IsFiniteSet(K), NEW base, NEW treat, DOMAIN base = K,
           \A k \in K : /\ base[k].crowned \subseteq Square(g.ws)
                        /\ treat[k].crowned \subseteq Square(g.ws),
           NEW sum, sum = AddEmulated(NoFires(g), base, treat, at, g),
           NEW c \in CellsOf(g)
    PROVE  sum.to[c] + sum.from[c] <= Cardinality(K)
<1>1. sum.none[c] \in Nat
  BY EmulatedCounts
<1>2. sum.to[c] \in Nat
  BY EmulatedCounts
<1>3. sum.from[c] \in Nat
  BY EmulatedCounts
<1>4. AddsUp(sum, c, Cardinality(K))
  BY EmulatedCounts
<1> QED
  BY <1>1, <1>2, <1>3, <1>4 DEF AddsUp

\* What only some of the commands have.
OthersOK ==
    /\ ds.cmd \notin {"run_dl", "run_pt"} => kept = {} /\ agg = NoFires(ds)
    /\ ds.cmd \notin {"evaluate", "evaluate_pt"} => files = NoFiles
    /\ ds.cmd # "evaluate" => pending = <<>>
    /\ ds.cmd = "train" => fires = NoFiles

LEMMA OthersStep ==
    ASSUME Core, OthersOK, [Next]_vars
    PROVE  OthersOK'
<1>0. Phase /\ Untouched
  BY DEF Core
<1>1. CASE ConstructDataset
  BY <1>0, <1>1, ConstructFacts DEF OthersOK, Untouched
<1>2. CASE ~ConstructDataset
  <2>1. ds' = ds
    BY <1>2, SameBatches
  <2>2. (kept' = kept /\ agg' = agg) \/ ForwardRun \/ \E t \in DOMAIN task : Collect(t)
    BY <1>2 DEF Next, Command, Pool, TrainItem, LoadBatch, WriteRun, ForwardEvaluate, Drain,
       DrainOldest, SubmitWrite, EndPass, LastDrained, AllTaken, Leave, QueueTask, StartTask,
       FirstOf, EndWrite,
       EndSimulation, SetCancel, vars, loopVars
  <2>3. ds.cmd \notin {"run_dl", "run_pt"} => kept' = kept /\ agg' = agg
    BY <2>2 DEF ForwardRun, Collect
  <2>4. ds.cmd \notin {"evaluate", "evaluate_pt"} => files' = files
    BY <1>2 DEF Next, Command, Pool, TrainItem, LoadBatch, WriteRun, ForwardRun, ForwardEvaluate,
       Drain,
       DrainOldest, SubmitWrite, EndPass, LastDrained, AllTaken, Leave, QueueTask, StartTask,
       FirstOf, EndWrite,
       EndSimulation, SetCancel, Collect, vars, Pooled
  <2>5. ds.cmd # "evaluate" => pending' = pending
    BY <1>0, <1>2 DEF Phase, Pooled, Next, Command, Pool, TrainItem, LoadBatch, WriteRun,
       ForwardRun,
       ForwardEvaluate, Drain, SubmitWrite, EndPass, LastDrained, AllTaken, Leave, QueueTask,
       StartTask, FirstOf, EndWrite,
       EndSimulation, SetCancel, Collect, vars, poolVars
  <2>6. ds.cmd = "train" => fires' = fires
    BY <1>0, <1>2 DEF Phase, Pooled, Next, Command, Pool, TrainItem, LoadBatch, WriteRun,
       ForwardRun,
       ForwardEvaluate, Drain, DrainOldest, SubmitWrite, EndPass, LastDrained, AllTaken, Leave,
       QueueTask, StartTask, FirstOf, EndWrite, EndSimulation, SetCancel, Collect, vars, loopVars
  <2> QED
    BY <2>1, <2>3, <2>4, <2>5, <2>6 DEF OthersOK
<1> QED
  BY <1>1, <1>2

Results == EmulatedOK /\ SimulatedOK /\ EvaluatedOK /\ OthersOK

LEMMA ResultsAlways == Spec => []Results
<1>1. Init => Results
  <2> SUFFICES ASSUME Init PROVE Results
    OBVIOUS
  <2>1. Core /\ pc = "construct"
    BY CoreInitially DEF Init
  <2>2. /\ fires = NoFiles /\ kept = {} /\ agg = NoFires(ds) /\ files = NoFiles
        /\ pending = <<>> /\ writes = <<>> /\ position = 0
    BY <2>1 DEF Core, Untouched
  <2>3. DOMAIN fires = {} /\ DOMAIN files = {} /\ DOMAIN writes = {} /\ KeptOf(fires) = {}
    BY <2>2, EmptySeq DEF NoFiles, KeptOf
  <2>4. 1 .. AtMost(Length, Start(Loaded)) = {}
    <3>1. Length \in Nat /\ ds.batch \in Nat
      BY <2>1, BatchesNat, AcceptedTypes DEF Core, DataInv, DataTypes
    <3>2. Start(Loaded) = 0
      BY <2>1, <2>2, <3>1 DEF Loaded, Start
    <3> QED
      BY <3>1, <3>2 DEF AtMost
  <2>5. AddEmulated(NoFires(ds), [k \in {} |-> fires[k][First]], [k \in {} |-> fires[k][Second]],
                    ignitions, ds) = NoFires(ds)
    BY EmulatedNone
  <2>6. EmulatedOK
    BY <2>2, <2>3, <2>4, <2>5 DEF EmulatedOK, FiresOnWindow
  <2>7. SimulatedOK /\ OthersOK
    BY <2>1, <2>2 DEF SimulatedOK, OthersOK
  <2>8. EvaluatedOK
    BY <2>1, <2>3 DEF EvaluatedOK, FiresOnWindow
  <2> QED
    BY <2>6, <2>7, <2>8 DEF Results
<1>2. Core /\ ServedBatch /\ WritersOK /\ Results /\ [Next]_vars => Results'
  BY EmulatedStep, SimulatedStep, EvaluatedStep, OthersStep DEF Results
<1> QED
  BY <1>1, <1>2, CoreAlways, WritersAlways, PTL DEF Spec

LEMMA TypesHold ==
    ASSUME Core, WritersOK, Results
    PROVE  TypeOK
<1>1. /\ ds \in Datasets /\ task \in Seq(Statuses) /\ Samples = 1 .. Len(ignitions)
      /\ Len(ignitions) \in Nat /\ DOMAIN task = 1 .. Len(task) /\ Len(task) \in Nat
      /\ ds.cmd \in {"train", "run_dl", "run_pt", "evaluate", "evaluate_pt"}
  BY LenProperties, AcceptedTypes DEF Core, DataInv, DataTypes, Loop, Samples
<1>2. /\ pc \in {"construct", "load", "forward", "drain", "drain_all", "collect", "leave",
                 "leave_failed", "leave_cancelled", "done", "failed", "cancelled"}
      /\ position \in 0 .. Batches
      /\ task \in Seq({"pending", "queued", "running", "done", "failed", "taken", "cancelled"})
  BY DEF Core, Phase, Loop, Statuses
<1>3. Range(pending) \subseteq DOMAIN task
  <2>1. CASE ds.cmd = "evaluate"
    <3>1. /\ pending \in Seq(Nat) /\ Len(pending) <= Len(task)
          /\ \A j \in 1 .. Len(pending) : pending[j] = Len(task) - Len(pending) + j
          /\ DOMAIN pending = 1 .. Len(pending) /\ Len(pending) \in Nat
      BY <2>1, LenProperties DEF WritersOK, LastPending
    <3>2. \A j \in DOMAIN pending : pending[j] \in 1 .. Len(task)
      BY <1>1, <3>1
    <3> QED
      BY <1>1, <3>2 DEF Range
  <2>2. CASE ds.cmd # "evaluate"
    <3>1. DOMAIN pending = {}
      BY <2>2, EmptySeq DEF Results, OthersOK
    <3> QED
      BY <3>1 DEF Range
  <2> QED
    BY <2>1, <2>2
<1>4. CASE ds.cmd = "run_dl"
  <2>1. /\ DOMAIN fires \subseteq Samples /\ DOMAIN files = {}
        /\ kept = KeptOf(fires) /\ FiresOnWindow
        /\ \A k \in DOMAIN fires : DOMAIN fires[k] = Roles
        /\ agg = AddEmulated(NoFires(ds), [k \in kept |-> fires[k][First]],
                             [k \in kept |-> fires[k][Second]], ignitions, ds)
    BY <1>4 DEF Results, EmulatedOK, OthersOK, NoFiles
  <2>2. kept \subseteq DOMAIN fires /\ IsFiniteSet(kept) /\ Cardinality(kept) \in Nat
    BY <2>1, KeptFacts, FS_CardinalityType
  <2>3. First \in Roles /\ Second \in Roles
    <3>1. First \in Roles
      BY <1>1, FirstRole
    <3>2. ds.area # NoArea /\ Roles = {"baseline", "treatment"}
      BY <1>1, <1>4, AcceptedTypes
    <3>3. Len(ds.roles) > 1
      <4>1. Len(ds.roles) \in Nat /\ DOMAIN ds.roles = 1 .. Len(ds.roles)
        BY <1>1, AcceptedTypes, LenProperties
      <4>2. \E i, j \in DOMAIN ds.roles : ds.roles[i] = "baseline" /\ ds.roles[j] = "treatment"
        BY <3>2 DEF Roles, Range
      <4>3. "baseline" # "treatment"
        OBVIOUS
      <4> QED
        BY <4>1, <4>2, <4>3
    <3>4. DOMAIN ds.roles = 1 .. Len(ds.roles) /\ Len(ds.roles) \in Nat
      BY <1>1, AcceptedTypes, LenProperties
    <3>5. Second \in Roles
      BY <3>3, <3>4 DEF Second, Roles, Range
    <3> QED
      BY <3>1, <3>5
  <2>4. ASSUME NEW c \in Cells PROVE agg.to[c] + agg.from[c] <= Cardinality(kept)
    <3> DEFINE base == [k \in kept |-> fires[k][First]]
               treat == [k \in kept |-> fires[k][Second]]
    <3>1. \A k \in kept : /\ base[k].crowned \subseteq Square(ds.ws)
                          /\ treat[k].crowned \subseteq Square(ds.ws)
      BY <2>1, <2>2, <2>3 DEF FiresOnWindow, OnWindow
    <3>2. DOMAIN base = kept /\ agg = AddEmulated(NoFires(ds), base, treat, ignitions, ds)
      BY <2>1
    <3> HIDE DEF base, treat
    <3>3. agg.to[c] + agg.from[c] <= Cardinality(kept)
      <4>1. c \in CellsOf(ds)
        BY DEF Cells
      <4>2. PICK sum : sum = AddEmulated(NoFires(ds), base, treat, ignitions, ds)
        OBVIOUS
      <4>3. IsFiniteSet(kept) /\ DOMAIN base = kept
        BY <2>2, <3>2
      <4>4. sum.to[c] + sum.from[c] <= Cardinality(kept)
        BY <3>1, <4>1, <4>2, <4>3, EmulatedTotal
      <4> QED
        BY <3>2, <4>2, <4>4
    <3> QED
      BY <3>3
  <2> QED
    BY <1>2, <1>3, <2>1, <2>2, <2>4 DEF TypeOK
<1>5. ASSUME Pooled PROVE TypeOK
  <2>1. CASE pc = "construct"
    <3>1. /\ DOMAIN fires = {} /\ DOMAIN files = {} /\ kept = {} /\ agg = NoFires(ds)
          /\ Cardinality(kept) = 0
      BY <2>1, FS_EmptySet DEF Core, Untouched, NoFiles
    <3>2. \A c \in Cells : agg.to[c] + agg.from[c] <= Cardinality(kept)
      BY <3>1 DEF NoFires, Cells
    <3> QED
      BY <1>2, <1>3, <3>1, <3>2 DEF TypeOK
  <2>2. CASE pc # "construct"
    <3>1. /\ DOMAIN task = Samples
          /\ DOMAIN fires = {t \in DOMAIN task : task[t] \in {"done", "taken"}}
          /\ ds.cmd = "run_pt" =>
               /\ kept = {t \in DOMAIN task : task[t] = "taken" /\ Touched(fires[t])}
               /\ agg = SimSum(ds, fires, kept)
          /\ ds.cmd = "evaluate_pt" => DOMAIN files = DOMAIN fires
      BY <1>5, <2>2 DEF Results, SimulatedOK
    <3>2. kept \subseteq DOMAIN fires /\ DOMAIN fires \subseteq Samples /\ DOMAIN files \subseteq DOMAIN fires
      BY <1>5, <3>1 DEF Pooled, Results, OthersOK, NoFiles
    <3>3. IsFiniteSet(kept)
      <4>1. IsFiniteSet(Samples) /\ kept \in SUBSET Samples
        BY <1>1, <3>2, FS_Interval
      <4> QED
        BY <4>1, FS_Subset
    <3>4. ASSUME NEW c \in Cells PROVE agg.to[c] + agg.from[c] <= Cardinality(kept)
      <4>1. CASE ds.cmd = "run_pt"
        <5>1. c \in CellsOf(ds) /\ agg = SimSum(ds, fires, kept)
          BY <3>1, <3>4, <4>1 DEF Cells
        <5>2. NoMoreThan(SimSum(ds, fires, kept), c, Cardinality(kept))
          BY <3>3, <5>1, SimulatedCounts
        <5> QED
          BY <5>1, <5>2 DEF NoMoreThan
      <4>2. CASE ds.cmd # "run_pt"
        <5>1. kept = {} /\ agg = NoFires(ds) /\ Cardinality(kept) = 0
          BY <1>5, <4>2, FS_EmptySet DEF Results, OthersOK, Pooled
        <5> QED
          BY <5>1 DEF NoFires, Cells
      <4> QED
        BY <4>1, <4>2
    <3> QED
      BY <1>2, <1>3, <3>2, <3>4 DEF TypeOK
  <2> QED
    BY <2>1, <2>2
<1>6. CASE ds.cmd \in {"train", "evaluate"}
  <2>1. kept = {} /\ agg = NoFires(ds) /\ Cardinality(kept) = 0
    BY <1>6, FS_EmptySet DEF Results, OthersOK
  <2>2. \A c \in Cells : agg.to[c] + agg.from[c] <= Cardinality(kept)
    BY <2>1 DEF NoFires, Cells
  <2>3. DOMAIN fires \subseteq Samples /\ DOMAIN files \subseteq DOMAIN fires
    BY <1>6 DEF Results, OthersOK, EvaluatedOK, NoFiles
  <2> QED
    BY <1>2, <1>3, <2>1, <2>2, <2>3 DEF TypeOK
<1> QED
  BY <1>1, <1>4, <1>5, <1>6 DEF Pooled

(***************************************************************************)
(* Types, for every dataset and order of the pool: what is kept was        *)
(* predicted, what is written was too, and no cell changes its class in    *)
(* more fires than are kept.                                               *)
(***************************************************************************)
THEOREM LoopTypes == Spec => []TypeOK
<1>1. Core /\ WritersOK /\ Results => TypeOK
  BY TypesHold
<1> QED
  BY <1>1, CoreAlways, WritersAlways, ResultsAlways, PTL

-----------------------------------------------------------------------------
\* The flood fill from the centre

LEMMA LeastNat ==
    ASSUME NEW S \in SUBSET Nat, S # {}
    PROVE  \E m \in S : \A k \in S : m <= k
<1> DEFINE T == {1 .. n : n \in S}
<1>1. IsWellFoundedOn(StrictSubsetOrdering(Nat), FiniteSubsetsOf(Nat))
  BY FS_StrictSubsetOrderingWellFounded
<1>2. T \subseteq FiniteSubsetsOf(Nat)
  <2>1. \A n \in S : IsFiniteSet(1 .. n)
    BY FS_Interval
  <2>2. \A n \in S : 1 .. n \in SUBSET Nat
    OBVIOUS
  <2> QED
    BY <2>1, <2>2 DEF FiniteSubsetsOf
<1>3. T # {}
  OBVIOUS
<1>4. PICK x \in T : \A y \in T : <<y, x>> \notin StrictSubsetOrdering(Nat)
  <2> HIDE DEF T
  <2> QED
    BY <1>1, <1>2, <1>3, WFMin
<1>5. PICK m \in S : x = 1 .. m
  BY <1>4
<1>6. ASSUME NEW k \in S, k < m PROVE FALSE
  <2>1. /\ 1 .. k \in T /\ 1 .. k \subseteq 1 .. m
        /\ 1 .. k \in SUBSET Nat /\ 1 .. m \in SUBSET Nat
    BY <1>6
  <2>2. m \in 1 .. m /\ m \notin 1 .. k
    BY <1>6
  <2>3. <<1 .. k, 1 .. m>> \in StrictSubsetOrdering(Nat)
    BY <2>1, <2>2 DEF StrictSubsetOrdering
  <2> QED
    BY <1>4, <1>5, <2>1, <2>3
<1> QED
  BY <1>6

\* What k rounds make of each seed, where before is what one less makes.
Round(k, before, burned) ==
    [seed \in SUBSET burned |->
       IF k = 0 \/ Grown(seed, burned) = seed THEN seed
       ELSE before[Grown(seed, burned)]]

Fills(fill, burned, n) == fill = [k \in 0 .. n |-> Round(k, fill[k - 1], burned)]

\* The recursion of the flood fill defines a function.
LEMMA FillExists ==
    ASSUME NEW burned, NEW n \in Nat
    PROVE  \E fill : Fills(fill, burned, n)
<1> DEFINE Bad == {m \in Nat : ~ \E fill : Fills(fill, burned, m)}
<1> SUFFICES ASSUME Bad # {} PROVE FALSE
  OBVIOUS
<1>1. PICK m \in Bad : \A k \in Bad : m <= k
  <2>1. Bad \in SUBSET Nat
    OBVIOUS
  <2> HIDE DEF Bad
  <2> QED
    BY <2>1, LeastNat
<1>2. m \in Nat /\ ~ \E fill : Fills(fill, burned, m)
  OBVIOUS
<1>3. CASE m = 0
  <2> DEFINE none == [k \in {-1} |-> {}]
             fill == [k \in 0 .. m |-> Round(k, none[k - 1], burned)]
  <2>1. \A k \in 0 .. m : Round(k, none[k - 1], burned) = Round(k, fill[k - 1], burned)
    BY <1>3 DEF Round
  <2>2. fill = [k \in 0 .. m |-> Round(k, fill[k - 1], burned)]
    <3> HIDE DEF none
    <3> QED
      BY <2>1, Zenon
  <2> QED
    BY <1>2, <2>2 DEF Fills
<1>4. CASE m # 0
  <2>1. m - 1 \in Nat /\ ~(m <= m - 1) /\ m - 1 \notin Bad
    BY <1>1, <1>2, <1>4
  <2>2. PICK less : Fills(less, burned, m - 1)
    BY <2>1
  <2> DEFINE fill == [k \in 0 .. m |-> IF k = m THEN Round(k, less[k - 1], burned) ELSE less[k]]
  <2>3. \A k \in 0 .. m - 1 : less[k] = Round(k, less[k - 1], burned)
    BY <2>2, Zenon DEF Fills
  <2>4. \A k \in 0 .. m : fill[k] = Round(k, less[k - 1], burned)
    <3> SUFFICES ASSUME NEW k \in 0 .. m PROVE fill[k] = Round(k, less[k - 1], burned)
      OBVIOUS
    <3>1. CASE k = m
      BY <3>1
    <3>2. CASE k # m
      <4>1. k \in 0 .. m - 1
        BY <1>2, <3>2
      <4>2. fill[k] = less[k]
        BY <3>2
      <4> QED
        BY <2>3, <4>1, <4>2, Zenon
    <3> QED
      BY <3>1, <3>2
  <2>5. \A k \in 0 .. m : Round(k, less[k - 1], burned) = Round(k, fill[k - 1], burned)
    <3> SUFFICES ASSUME NEW k \in 0 .. m
                 PROVE  Round(k, less[k - 1], burned) = Round(k, fill[k - 1], burned)
      OBVIOUS
    <3>1. CASE k = 0
      BY <3>1 DEF Round
    <3>2. CASE k # 0
      <4>1. k - 1 \in 0 .. m /\ k - 1 # m
        BY <1>2, <3>2
      <4>2. fill[k - 1] = less[k - 1]
        BY <4>1
      <4> QED
        BY <4>2, Zenon
    <3> QED
      BY <3>1, <3>2
  <2>6. DOMAIN fill = 0 .. m /\ fill = [k \in 0 .. m |-> fill[k]]
    OBVIOUS
  <2>7. fill = [k \in 0 .. m |-> Round(k, fill[k - 1], burned)]
    <3> HIDE DEF fill
    <3> QED
      BY <2>4, <2>5, <2>6, Zenon
  <2> QED
    BY <1>2, <2>7 DEF Fills
<1> QED
  BY <1>3, <1>4

\* No burned pixel outside of it touches the part.
Closed(part, burned) == \A p \in part : \A q \in burned : Touching(p, q) => q \in part

LEMMA Neighbours ==
    ASSUME NEW burned \in SUBSET (Int \X Int), NEW seed \in SUBSET burned
    PROVE  /\ seed \subseteq Grown(seed, burned) /\ Grown(seed, burned) \in SUBSET burned
           /\ \A part \in SUBSET burned :
                seed \subseteq part /\ Closed(part, burned) => Grown(seed, burned) \subseteq part
<1>1. \A p, q \in Int \X Int : Touching(p, p) /\ (Touching(p, q) => Touching(q, p))
  <2> SUFFICES ASSUME NEW p \in Int \X Int, NEW q \in Int \X Int
               PROVE  Touching(p, p) /\ (Touching(p, q) => Touching(q, p))
    OBVIOUS
  <2>1. p[1] \in Int /\ p[2] \in Int /\ q[1] \in Int /\ q[2] \in Int
    OBVIOUS
  <2> QED
    BY <2>1 DEF Touching
<1>2. \A p \in burned : p \in Int \X Int
  OBVIOUS
<1> QED
  BY <1>1, <1>2, Zenon DEF Grown, Closed

\* Every round keeps the seed, and adds only what must be in a closed part
\* around it.
LEMMA FillBetween ==
    ASSUME NEW burned \in SUBSET (Int \X Int), NEW n \in Nat, NEW fill, Fills(fill, burned, n)
    PROVE  \A k \in 0 .. n : \A seed \in SUBSET burned :
              /\ seed \subseteq fill[k][seed] /\ fill[k][seed] \in SUBSET burned
              /\ \A part \in SUBSET burned :
                   seed \subseteq part /\ Closed(part, burned) => fill[k][seed] \subseteq part
<1> DEFINE Between(k) ==
             \A seed \in SUBSET burned :
                /\ seed \subseteq fill[k][seed] /\ fill[k][seed] \in SUBSET burned
                /\ \A part \in SUBSET burned :
                     seed \subseteq part /\ Closed(part, burned) => fill[k][seed] \subseteq part
           Bad == {k \in 0 .. n : ~Between(k)}
<1> SUFFICES ASSUME Bad # {} PROVE FALSE
  OBVIOUS
<1>1. PICK m \in Bad : \A k \in Bad : m <= k
  <2>1. Bad \in SUBSET Nat
    OBVIOUS
  <2> HIDE DEF Bad
  <2> QED
    BY <2>1, LeastNat
<1>2. m \in 0 .. n /\ ~Between(m)
  OBVIOUS
<1>3. fill[m] = Round(m, fill[m - 1], burned)
  BY <1>2, Zenon DEF Fills
<1>4. m # 0 => Between(m - 1)
  <2> SUFFICES ASSUME m # 0 PROVE Between(m - 1)
    OBVIOUS
  <2>1. m - 1 \in 0 .. n /\ ~(m <= m - 1)
    BY <1>2
  <2>2. m - 1 \notin Bad
    BY <1>1, <2>1, Zenon
  <2> QED
    BY <2>1, <2>2, Zenon
<1> HIDE DEF Bad
<1>5. Between(m)
  <2> TAKE seed \in SUBSET burned
  <2>1. fill[m][seed] = IF m = 0 \/ Grown(seed, burned) = seed THEN seed
                        ELSE fill[m - 1][Grown(seed, burned)]
    BY <1>3, Zenon DEF Round
  <2>2. CASE m = 0 \/ Grown(seed, burned) = seed
    BY <2>1, <2>2
  <2>3. CASE ~(m = 0 \/ Grown(seed, burned) = seed)
    <3>1. fill[m][seed] = fill[m - 1][Grown(seed, burned)] /\ Between(m - 1)
      BY <1>4, <2>1, <2>3
    <3>2. /\ Grown(seed, burned) \in SUBSET burned /\ seed \subseteq Grown(seed, burned)
          /\ \A part \in SUBSET burned :
               seed \subseteq part /\ Closed(part, burned) => Grown(seed, burned) \subseteq part
      BY Neighbours
    <3>3. /\ Grown(seed, burned) \subseteq fill[m - 1][Grown(seed, burned)]
          /\ fill[m - 1][Grown(seed, burned)] \in SUBSET burned
          /\ \A part \in SUBSET burned :
               Grown(seed, burned) \subseteq part /\ Closed(part, burned)
                 => fill[m - 1][Grown(seed, burned)] \subseteq part
      BY <3>1, <3>2, Zenon
    <3> HIDE DEF Between
    <3>4. \A part \in SUBSET burned :
            seed \subseteq part /\ Closed(part, burned) => fill[m - 1][Grown(seed, burned)] \subseteq part
      BY <3>2, <3>3, Zenon
    <3>5. seed \subseteq fill[m - 1][Grown(seed, burned)]
      BY <3>2, <3>3
    <3> QED
      BY <3>1, <3>3, <3>4, <3>5
  <2> QED
    BY <2>2, <2>3
<1> QED
  BY <1>2, <1>5

LEMMA ComponentBetween ==
    ASSUME NEW ws \in Nat, NEW burned \in SUBSET (Int \X Int)
    PROVE  /\ Centre(ws) \cap burned \subseteq CentreComponent(burned, ws)
           /\ CentreComponent(burned, ws) \in SUBSET burned
           /\ \A part \in SUBSET burned :
                Centre(ws) \cap burned \subseteq part /\ Closed(part, burned)
                  => CentreComponent(burned, ws) \subseteq part
<1>1. Rounds(ws) \in Nat /\ Rounds(ws) \in 0 .. Rounds(ws)
  BY DEF Rounds
<1>2. PICK some : Fills(some, burned, Rounds(ws))
  BY <1>1, FillExists
<1> DEFINE fill == CHOOSE f : Fills(f, burned, Rounds(ws))
<1>3. CentreComponent(burned, ws) = fill[Rounds(ws)][Centre(ws) \cap burned]
  BY Zenon DEF CentreComponent, Fills, Round
<1>4. Fills(fill, burned, Rounds(ws))
  BY <1>2, Zenon
<1>5. Centre(ws) \cap burned \in SUBSET burned
  OBVIOUS
<1> HIDE DEF fill
<1>6. \A k \in 0 .. Rounds(ws) : \A seed \in SUBSET burned :
        /\ seed \subseteq fill[k][seed] /\ fill[k][seed] \in SUBSET burned
        /\ \A part \in SUBSET burned :
             seed \subseteq part /\ Closed(part, burned) => fill[k][seed] \subseteq part
  BY <1>1, <1>4, FillBetween
<1>7. PICK seed \in SUBSET burned : seed = Centre(ws) \cap burned
  BY <1>5
<1>8. PICK r \in 0 .. Rounds(ws) : r = Rounds(ws)
  BY <1>1
<1>9. CentreComponent(burned, ws) = fill[r][seed]
  BY <1>3, <1>7, <1>8
<1>10. /\ seed \subseteq fill[r][seed] /\ fill[r][seed] \in SUBSET burned
       /\ \A part \in SUBSET burned :
            seed \subseteq part /\ Closed(part, burned) => fill[r][seed] \subseteq part
  BY <1>6
<1> QED
  BY <1>7, <1>9, <1>10

\* A fill that ended before its rounds did is what the centre reaches.
LEMMA ComponentIsReached ==
    ASSUME ds.ws \in Nat, NEW burned \in SUBSET (Int \X Int),
           Closed(CentreComponent(burned, ds.ws), burned)
    PROVE  ReachedFromCentre(burned) = CentreComponent(burned, ds.ws)
<1> DEFINE component == CentreComponent(burned, ds.ws)
           Reached(part) ==
             /\ Centre(ds.ws) \cap burned \subseteq part
             /\ \A p \in part : \A q \in burned : Touching(p, q) => q \in part
             /\ \A smaller \in SUBSET part :
                  /\ Centre(ds.ws) \cap burned \subseteq smaller
                  /\ \A p \in smaller : \A q \in burned : Touching(p, q) => q \in smaller
                  => smaller = part
<1>1. /\ Centre(ds.ws) \cap burned \subseteq component /\ component \in SUBSET burned
      /\ \A part \in SUBSET burned :
           Centre(ds.ws) \cap burned \subseteq part /\ Closed(part, burned) => component \subseteq part
  BY ComponentBetween
<1>2. ReachedFromCentre(burned) = CHOOSE part \in SUBSET burned : Reached(part)
  BY DEF ReachedFromCentre
<1> HIDE DEF component
<1>3. Closed(component, burned)
  BY DEF component
<1>4. Reached(component)
  BY <1>1, <1>3 DEF Closed
<1>5. \A part \in SUBSET burned : Reached(part) => part = component
  <2> TAKE part \in SUBSET burned
  <2> HAVE Reached(part)
  <2>1. component \in SUBSET part
    BY <1>1 DEF Closed
  <2> QED
    BY <1>1, <1>3, <2>1 DEF Closed
<1> HIDE DEF Reached
<1>6. (CHOOSE part \in SUBSET burned : Reached(part)) = component
  BY <1>1, <1>4, <1>5
<1> QED
  BY <1>2, <1>6 DEF component

\* A round that adds nothing has found a closed part, and one that adds
\* something leaves less to be added.
LEMMA RoundAdds ==
    ASSUME NEW burned \in SUBSET (Int \X Int), IsFiniteSet(burned), NEW seed \in SUBSET burned
    PROVE  /\ Grown(seed, burned) = seed => Closed(seed, burned)
           /\ Cardinality(burned \ seed) \in Nat
           /\ Cardinality(burned \ seed) = 0 => Closed(seed, burned)
           /\ Grown(seed, burned) # seed =>
                Cardinality(burned \ Grown(seed, burned)) + 1 <= Cardinality(burned \ seed)
<1>1. \A p, q \in Int \X Int : Touching(p, q) => Touching(q, p)
  <2> SUFFICES ASSUME NEW p \in Int \X Int, NEW q \in Int \X Int, Touching(p, q)
               PROVE  Touching(q, p)
    OBVIOUS
  <2>1. p[1] \in Int /\ p[2] \in Int /\ q[1] \in Int /\ q[2] \in Int
    OBVIOUS
  <2> QED
    BY <2>1 DEF Touching
<1>2. Grown(seed, burned) = seed => Closed(seed, burned)
  <2> SUFFICES ASSUME Grown(seed, burned) = seed, NEW p \in seed, NEW q \in burned, Touching(p, q)
               PROVE  q \in seed
    BY DEF Closed
  <2>1. Touching(q, p)
    BY <1>1
  <2>2. q \in Grown(seed, burned)
    BY <2>1 DEF Grown
  <2> QED
    BY <2>2
<1>3. IsFiniteSet(burned \ seed) /\ Cardinality(burned \ seed) \in Nat
  <2>1. burned \ seed \in SUBSET burned
    OBVIOUS
  <2> QED
    BY <2>1, FS_Subset, FS_CardinalityType
<1>4. Cardinality(burned \ seed) = 0 => Closed(seed, burned)
  <2>1. Cardinality(burned \ seed) = 0 => burned \ seed = {}
    BY <1>3, FS_EmptySet
  <2> QED
    BY <2>1 DEF Closed
<1>5. ASSUME Grown(seed, burned) # seed
      PROVE  Cardinality(burned \ Grown(seed, burned)) + 1 <= Cardinality(burned \ seed)
  <2>1. seed \subseteq Grown(seed, burned) /\ Grown(seed, burned) \in SUBSET burned
    BY Neighbours
  <2>2. PICK p \in Grown(seed, burned) : p \notin seed
    BY <1>5, <2>1
  <2>3. /\ p \in burned \ seed
        /\ burned \ Grown(seed, burned) \in SUBSET ((burned \ seed) \ {p})
    BY <2>1, <2>2
  <2>4. /\ IsFiniteSet((burned \ seed) \ {p})
        /\ Cardinality((burned \ seed) \ {p}) = Cardinality(burned \ seed) - 1
    BY <1>3, <2>3, FS_RemoveElement
  <2>5. /\ IsFiniteSet(burned \ Grown(seed, burned))
        /\ Cardinality(burned \ Grown(seed, burned)) <= Cardinality((burned \ seed) \ {p})
    BY <2>3, <2>4, FS_Subset
  <2>6. Cardinality(burned \ Grown(seed, burned)) \in Nat
    BY <2>5, FS_CardinalityType
  <2> QED
    BY <1>3, <2>4, <2>5, <2>6
<1> QED
  BY <1>2, <1>3, <1>4, <1>5

\* As many rounds as there are pixels to be added are enough.
LEMMA FillCloses ==
    ASSUME NEW burned \in SUBSET (Int \X Int), IsFiniteSet(burned),
           NEW n \in Nat, NEW fill, Fills(fill, burned, n)
    PROVE  \A k \in 0 .. n : \A seed \in SUBSET burned :
              Cardinality(burned \ seed) <= k => Closed(fill[k][seed], burned)
<1> DEFINE Closes(k) ==
             \A seed \in SUBSET burned :
                Cardinality(burned \ seed) <= k => Closed(fill[k][seed], burned)
           Bad == {k \in 0 .. n : ~Closes(k)}
<1> SUFFICES ASSUME Bad # {} PROVE FALSE
  OBVIOUS
<1>1. PICK m \in Bad : \A k \in Bad : m <= k
  <2>1. Bad \in SUBSET Nat
    OBVIOUS
  <2> HIDE DEF Bad
  <2> QED
    BY <2>1, LeastNat
<1>2. m \in 0 .. n /\ ~Closes(m)
  OBVIOUS
<1>3. fill[m] = Round(m, fill[m - 1], burned)
  BY <1>2, Zenon DEF Fills
<1>4. m # 0 => Closes(m - 1)
  <2> SUFFICES ASSUME m # 0 PROVE Closes(m - 1)
    OBVIOUS
  <2>1. m - 1 \in 0 .. n /\ ~(m <= m - 1)
    BY <1>2
  <2>2. m - 1 \notin Bad
    BY <1>1, <2>1, Zenon
  <2> QED
    BY <2>1, <2>2, Zenon
<1> HIDE DEF Bad
<1>5. Closes(m)
  <2> TAKE seed \in SUBSET burned
  <2> HAVE Cardinality(burned \ seed) <= m
  <2>1. fill[m][seed] = IF m = 0 \/ Grown(seed, burned) = seed THEN seed
                        ELSE fill[m - 1][Grown(seed, burned)]
    BY <1>3, Zenon DEF Round
  <2>2. CASE Grown(seed, burned) = seed
    BY <2>1, <2>2, RoundAdds
  <2>3. CASE m = 0
    <3>0. Cardinality(burned \ seed) \in Nat
      BY RoundAdds
    <3>1. Cardinality(burned \ seed) = 0
      BY <2>3, <3>0
    <3> QED
      BY <2>1, <2>3, <3>1, RoundAdds
  <2>4. CASE m # 0 /\ Grown(seed, burned) # seed
    <3>1. fill[m][seed] = fill[m - 1][Grown(seed, burned)] /\ Closes(m - 1)
      BY <1>4, <2>1, <2>4
    <3>2. Grown(seed, burned) \in SUBSET burned
      BY Neighbours
    <3>3. Cardinality(burned \ Grown(seed, burned)) <= m - 1
      <4>1. /\ Cardinality(burned \ seed) \in Nat
            /\ Cardinality(burned \ Grown(seed, burned)) + 1 <= Cardinality(burned \ seed)
        BY <2>4, RoundAdds
      <4>2. Cardinality(burned \ Grown(seed, burned)) \in Nat
        BY <3>2, RoundAdds
      <4>3. m \in Int
        BY <1>2
      <4> QED
        BY <4>1, <4>2, <4>3
    <3> QED
      BY <3>1, <3>2, <3>3, Zenon
  <2> QED
    BY <2>2, <2>3, <2>4
<1> QED
  BY <1>2, <1>5

(***************************************************************************)
(* run.py, evaluate.py: a fire of at most three times as many pixels as    *)
(* the window has rows is filled before the convolutions are over, and     *)
(* what is kept of it is all that its centre reaches.                      *)
(***************************************************************************)
THEOREM SmallFiresAreFilled ==
    ASSUME ds.ws \in Nat, NEW burned \in SUBSET (Int \X Int), IsFiniteSet(burned),
           Cardinality(burned) <= Rounds(ds.ws)
    PROVE  ReachedFromCentre(burned) = CentreComponent(burned, ds.ws)
<1>1. Rounds(ds.ws) \in Nat
  BY DEF Rounds
<1>2. PICK some : Fills(some, burned, Rounds(ds.ws))
  BY <1>1, FillExists
<1> DEFINE fill == CHOOSE f : Fills(f, burned, Rounds(ds.ws))
<1>3. CentreComponent(burned, ds.ws) = fill[Rounds(ds.ws)][Centre(ds.ws) \cap burned]
  BY Zenon DEF CentreComponent, Fills, Round
<1>4. Fills(fill, burned, Rounds(ds.ws))
  BY <1>2, Zenon
<1> HIDE DEF fill
<1>5. PICK seed \in SUBSET burned : seed = Centre(ds.ws) \cap burned
  OBVIOUS
<1>6. PICK r \in 0 .. Rounds(ds.ws) : r = Rounds(ds.ws)
  BY <1>1
<1>7. Cardinality(burned \ seed) <= r
  <2>1. Cardinality(burned \ seed) <= Cardinality(burned)
    BY FS_Subset
  <2>2. Cardinality(burned \ seed) \in Nat /\ Cardinality(burned) \in Nat
    BY RoundAdds, FS_CardinalityType
  <2> QED
    BY <1>1, <1>6, <2>1, <2>2
<1>8. Closed(fill[r][seed], burned)
  BY <1>1, <1>4, <1>7, FillCloses
<1>9. Closed(CentreComponent(burned, ds.ws), burned)
  BY <1>3, <1>5, <1>6, <1>8
<1> QED
  BY <1>9, ComponentIsReached

-----------------------------------------------------------------------------
\* What is stamped on the raster

\* The crop begins where the padding ended.
LEMMA CropSkipsPadding ==
    ASSUME NEW y \in Int, NEW n \in Nat, NEW ws \in Nat \ {0}
    PROVE  /\ CropSource(y, n, ws) = PadBelow(y, n, ws)
           /\ PadBelow(y, n, ws) \in Int /\ Lo(y, ws) \in Int
<1>1. Half(ws) \in Nat /\ Odd(ws) \in {0, 1}
  BY Halves
<1>2. Lo(y, ws) \in Int
  BY <1>1 DEF Lo, AtLeast
<1>3. Hi(y, n, ws) \in Int
  BY <1>1 DEF Hi, AtMost
<1>4. Diff(y, n, ws) \in Int
  BY <1>2, <1>3 DEF Diff
<1> QED
  BY <1>2, <1>4 DEF CropSource, PadBelow, AtLeast

\* Positions that hold cells are stamped on the cells that they hold.
LEMMA StampedOnCells ==
    ASSUME ds \in Datasets, NEW i \in Int \X Int, NEW X \in SUBSET OnWindow(i)
    PROVE  StampedCells(X, i, ds) = {CellAt(p, i) : p \in X}
<1>1. /\ ds.h \in Nat /\ ds.w \in Nat /\ ds.ws \in Nat \ {0} /\ i[1] \in Int /\ i[2] \in Int
  BY AcceptedTypes
<1>2. PICK b1 \in Int, b2 \in Int, l1 \in Int, l2 \in Int :
        /\ b1 = PadBelow(i[1], ds.h, ds.ws) /\ b1 = CropSource(i[1], ds.h, ds.ws)
        /\ b2 = PadBelow(i[2], ds.w, ds.ws) /\ b2 = CropSource(i[2], ds.w, ds.ws)
        /\ l1 = Lo(i[1], ds.ws) /\ l2 = Lo(i[2], ds.ws)
  BY <1>1, CropSkipsPadding
<1> DEFINE from(c) == <<StampedFrom(c[1], i[1], ds.h, ds.ws), StampedFrom(c[2], i[2], ds.w, ds.ws)>>
<1>3. \A c : from(c) = <<b1 + (c[1] - l1), b2 + (c[2] - l2)>>
  BY <1>2 DEF StampedFrom
<1>4. \A p : CellAt(p, i) = <<p[1] - b1 + l1, p[2] - b2 + l2>>
  BY <1>2 DEF CellAt
<1>5. StampedCells(X, i, ds) = {c \in WindowCells(i) : from(c) \in X}
  BY DEF StampedCells, WindowCells, Cells
<1>6. \A p \in X : p \in Int \X Int /\ CellAt(p, i) \in WindowCells(i)
  BY <1>1 DEF OnWindow, Square
<1>7. \A c \in WindowCells(i) : c \in Int \X Int
  BY <1>1 DEF WindowCells, Cells, CellsOf
<1> HIDE DEF from
<1>8. ASSUME NEW p \in X PROVE from(CellAt(p, i)) = p
  <2>1. p \in Int \X Int
    BY <1>6
  <2>2. PICK p1 \in Int, p2 \in Int : p = <<p1, p2>>
    BY <2>1
  <2>3. PICK c : c = <<p1 - b1 + l1, p2 - b2 + l2>>
    OBVIOUS
  <2>4. CellAt(p, i) = c
    BY <1>4, <2>2, <2>3
  <2>5. from(c) = <<b1 + (p1 - b1 + l1 - l1), b2 + (p2 - b2 + l2 - l2)>>
    BY <1>3, <2>3
  <2> QED
    BY <2>2, <2>4, <2>5
<1>9. ASSUME NEW c \in WindowCells(i) PROVE CellAt(from(c), i) = c
  <2>1. PICK c1 \in Int, c2 \in Int : c = <<c1, c2>>
    BY <1>7
  <2>2. PICK p : p = <<b1 + (c1 - l1), b2 + (c2 - l2)>>
    OBVIOUS
  <2>3. from(c) = p
    BY <1>3, <2>1, <2>2
  <2>4. CellAt(p, i) = <<b1 + (c1 - l1) - b1 + l1, b2 + (c2 - l2) - b2 + l2>>
    BY <1>4, <2>2
  <2> QED
    BY <2>1, <2>3, <2>4
<1> QED
  BY <1>5, <1>6, <1>8, <1>9

\* They are the cells counted from the ignition in the middle.
LEMMA StampsOnRaster ==
    ASSUME RastersHoldWindows, DataTypes, ~Pooled, NEW k \in Samples,
           NEW X \in SUBSET OnWindow(ignitions[k])
    PROVE  StampedCells(X, ignitions[k], ds) = OnRaster(X, k)
<1>1. ignitions[k] \in Int \X Int
  BY ElementOfSeq, LenProperties DEF DataTypes, Samples
<1>2. PICK i \in Int \X Int : i = ignitions[k]
  BY <1>1
<1>3. ds \in Datasets /\ ds.ws <= ds.h /\ ds.ws <= ds.w
  BY DEF DataTypes, RastersHoldWindows
<1>4. StampedCells(X, i, ds) = {CellAt(p, i) : p \in X}
  BY <1>2, <1>3, StampedOnCells
<1>5. \A p \in X : CellAt(p, i) = CellFrom([at |-> i], p)
  <2> TAKE p \in X
  <2>1. p \in Square(ds.ws) /\ CellAt(p, i) \in WindowCells(i)
    BY <1>2 DEF OnWindow
  <2>2. CellAt(p, i) = <<i[1] + p[1] - Half(ds.ws), i[2] + p[2] - Half(ds.ws)>>
    BY <1>3, <2>1, CellIsCounted
  <2> QED
    BY <2>2 DEF CellFrom
<1>6. OnRaster(X, k) = {CellFrom([at |-> i], p) : p \in X}
  BY <1>2 DEF OnRaster
<1> QED
  BY <1>2, <1>4, <1>5, <1>6

\* Every fire was filled before the rounds were over.
FillEnds ==
    \A k \in DOMAIN fires : \A r \in DOMAIN fires[k] :
        Closed(Component(fires[k][r]), fires[k][r].burned)

\* Then the component of a predicted fire, stamped, is its central burn.
LEMMA CentralBurnStamped ==
    ASSUME RastersHoldWindows, DataTypes, ~Pooled, FiresOnWindow, FillEnds,
           NEW k \in DOMAIN fires, k \in Samples, NEW r \in DOMAIN fires[k]
    PROVE  /\ Component(fires[k][r]) \in SUBSET OnWindow(ignitions[k])
           /\ CentralBurn(fires[k][r], k) = OnRaster(Component(fires[k][r]), k)
           /\ StampedCells(Component(fires[k][r]), ignitions[k], ds) = CentralBurn(fires[k][r], k)
<1> DEFINE burned == fires[k][r].burned
<1>1. burned \subseteq OnWindow(ignitions[k])
  BY DEF FiresOnWindow
<1>2. ds.ws \in Nat
  BY AcceptedTypes DEF DataTypes
<1>3. burned \in SUBSET (Int \X Int)
  BY <1>1, <1>2 DEF OnWindow, Square
<1>4. Closed(CentreComponent(burned, ds.ws), burned)
  BY DEF FillEnds, Component
<1>5. Component(fires[k][r]) = CentreComponent(burned, ds.ws)
  BY DEF Component
<1> HIDE DEF burned
<1>6. CentreComponent(burned, ds.ws) \in SUBSET burned
  BY <1>2, <1>3, ComponentBetween
<1>7. ReachedFromCentre(burned) = CentreComponent(burned, ds.ws)
  BY <1>2, <1>3, <1>4, ComponentIsReached
<1>8. CentralBurn(fires[k][r], k) = OnRaster(ReachedFromCentre(burned), k)
  BY DEF CentralBurn, CentralPart, burned
<1>9. Component(fires[k][r]) \in SUBSET OnWindow(ignitions[k])
  BY <1>1, <1>5, <1>6
<1> QED
  BY <1>5, <1>7, <1>8, <1>9, StampsOnRaster

-----------------------------------------------------------------------------
\* What run writes

\* The raster of run is what the loop has summed when it is over.
OutputOK ==
    /\ output # NoOutput => pc = "done" /\ ds.cmd \in {"run_dl", "run_pt"}
    /\ output # NoOutput /\ ds.cmd = "run_dl" => position = Batches /\ output = agg
    /\ output # NoOutput /\ ds.cmd = "run_pt" => output = CloseSimulated(agg, Cardinality(kept))
    /\ Pooled /\ pc \in {"leave", "done"} => \A t \in DOMAIN task : task[t] = "taken"

LEMMA OutputStep ==
    ASSUME Core, OutputOK, [Next]_vars
    PROVE  OutputOK'
<1>0. Phase /\ Untouched
  BY DEF Core
<1>1. CASE ConstructDataset
  BY <1>0, <1>1, ConstructFacts DEF Untouched, OutputOK
<1>2. CASE ~ConstructDataset
  <2>1. ds' = ds /\ Batches' = Batches /\ Pooled' = Pooled
    BY <1>2, SameBatches DEF Pooled
  <2>2. CASE UNCHANGED <<pc, output, position, agg, kept, task>>
    BY <2>1, <2>2 DEF OutputOK
  <2>3. CASE pc' \notin {"leave", "done"} /\ output' = output /\ pc # "done"
    BY <2>3 DEF OutputOK
  <2>4. CASE WriteRun
    BY <2>1, <2>4, <1>0 DEF WriteRun, loopVars, Pooled, OutputOK
  <2>5. CASE Leave
    <3>1. CASE pc # "leave"
      <4>1. pc' \notin {"leave", "done"} /\ output' = output /\ pc # "done"
        BY <2>5, <3>1 DEF Leave
      <4> QED
        BY <2>3, <4>1
    <3>2. CASE pc = "leave"
      BY <1>0, <2>1, <2>5, <3>2 DEF Leave, loopVars, poolVars, Pooled, OutputOK, Phase
    <3> QED
      BY <3>1, <3>2
  <2>6. CASE AllTaken
    BY <2>1, <2>6 DEF AllTaken, loopVars, poolVars, OutputOK
  <2>7. CASE LastDrained
    BY <1>0, <2>1, <2>7 DEF LastDrained, loopVars, poolVars, Phase, Pooled, OutputOK
  <2>8. ASSUME NEW t \in DOMAIN task, QueueTask(t) \/ StartTask(t) \/ EndWrite(t) \/ EndSimulation(t)
        PROVE  OutputOK'
    <3>1. task[t] \in {"pending", "queued", "running"}
      BY <2>8 DEF QueueTask, StartTask, FirstOf, EndWrite, EndSimulation, Running, Queued, Waiting
    <3>2. pc' = pc /\ output' = output
      BY <2>8 DEF QueueTask, StartTask, FirstOf, EndWrite, EndSimulation
    <3>3. EndWrite(t) => ~Pooled
      BY DEF EndWrite, Pooled
    <3>4. position' = position /\ agg' = agg /\ kept' = kept
      BY <2>8 DEF QueueTask, StartTask, FirstOf, EndWrite, EndSimulation, loopVars
    <3> QED
      BY <2>1, <3>1, <3>2, <3>4 DEF OutputOK
  <2>9. CASE SetCancel
    BY <2>2, <2>9 DEF SetCancel, loopVars, poolVars
  <2>10. ASSUME NEW t \in DOMAIN task, Collect(t) PROVE OutputOK'
    BY <2>3, <2>10 DEF Collect
  <2>11. CASE TrainItem
    BY <2>2, <2>11 DEF TrainItem, loopVars, poolVars
  <2>12. CASE LoadBatch \/ ForwardRun
    BY <2>3, <2>12 DEF LoadBatch, ForwardRun
  <2>13. CASE ForwardEvaluate \/ Drain \/ SubmitWrite \/ EndPass
    BY <2>3, <2>13 DEF ForwardEvaluate, Drain, DrainOldest, SubmitWrite, EndPass
  <2>14. CASE UNCHANGED vars
    BY <2>2, <2>14 DEF vars, loopVars, poolVars
  <2> QED
    BY <1>2, <2>4, <2>5, <2>6, <2>7, <2>8, <2>9, <2>10, <2>11, <2>12, <2>13, <2>14
       DEF Next, Command, Pool
<1> QED
  BY <1>1, <1>2

\* The ignitions that change a cell, by any crown fire of theirs.
Changing(from, to, c) ==
    {k \in Reaching : c \in OnRaster(fires[k][to].crowned \ fires[k][from].crowned, k)}

CountedAt(c) ==
    /\ output.to[c] = Cardinality(Changing("baseline", "treatment", c))
    /\ output.from[c] = Cardinality(Changing("treatment", "baseline", c))
    /\ AddsUp(output, c, Cardinality(Reaching))

\* Where all crown fire is central, the central changes are all changes.
LEMMA CountedEverywhere ==
    ASSUME \A c \in Cells : CountedAt(c), {"baseline", "treatment"} \subseteq Roles
    PROVE  OutputCounts
<1> DEFINE crown(k, r) == fires[k][r].crowned \cap CentralPart(fires[k][r])
           stray(k, r) == fires[k][r].crowned \ CentralPart(fires[k][r])
           changing(c, from, to) ==
               {k \in Reaching : c \in OnRaster(crown(k, to) \ crown(k, from), k)}
           noStray(c) == \A k \in Reaching, r \in Roles : c \notin OnRaster(stray(k, r), k)
<1>1. ASSUME NEW c \in Cells, noStray(c), NEW from \in Roles, NEW to \in Roles
      PROVE  changing(c, from, to) = Changing(from, to, c)
  <2>1. ASSUME NEW k \in Reaching
        PROVE  c \in OnRaster(crown(k, to) \ crown(k, from), k)
                 <=> c \in OnRaster(fires[k][to].crowned \ fires[k][from].crowned, k)
    <3>1. c \notin OnRaster(stray(k, from), k) /\ c \notin OnRaster(stray(k, to), k)
      BY <1>1
    <3>2. CASE Pooled
      BY <3>2, <3>1 DEF OnRaster
    <3>3. CASE ~Pooled
      BY <3>3, <3>1 DEF OnRaster
    <3> QED
      BY <3>2, <3>3
  <2> QED
    BY <2>1 DEF Changing
<1>2. ASSUME NEW c \in Cells, noStray(c)
      PROVE  /\ changing(c, "baseline", "treatment") = Changing("baseline", "treatment", c)
             /\ changing(c, "treatment", "baseline") = Changing("treatment", "baseline", c)
  BY <1>1, <1>2
<1>3. \A c \in Cells : Total(c) = Cardinality(Reaching)
  BY DEF CountedAt, AddsUp, Total
<1>4. ASSUME NEW c \in Cells, noStray(c)
      PROVE  /\ output.to[c] = Cardinality(changing(c, "baseline", "treatment"))
             /\ output.from[c] = Cardinality(changing(c, "treatment", "baseline"))
  BY <1>2, <1>4 DEF CountedAt
<1> QED
  BY <1>3, <1>4 DEF OutputCounts

\* The networks' layers are those of the baseline and of the treatment.
InOrder == ds.cmd = "run_dl" => ds.roles = <<"baseline", "treatment">>

LEMMA EmulatedOutput ==
    ASSUME RastersHoldWindows, Core, EmulatedOK, OutputOK, FillEnds, InOrder,
           ds.cmd = "run_dl", output # NoOutput
    PROVE  OutputCounts
<1>1. DataTypes /\ ds \in Datasets /\ ~ds.burned /\ ~Pooled
  BY AcceptedTypes DEF Core, DataInv, DataTypes, Pooled
<1>2. First = "baseline" /\ Second = "treatment" /\ First \in Roles /\ Second \in Roles
  BY DEF InOrder, First, Second, Roles, Range
<1>3. /\ DOMAIN fires = 1 .. AtMost(Length, Start(Batches)) /\ FiresOnWindow /\ kept = KeptOf(fires)
      /\ \A k \in DOMAIN fires : DOMAIN fires[k] = Roles
      /\ output = AddEmulated(NoFires(ds), [k \in kept |-> fires[k][First]],
                              [k \in kept |-> fires[k][Second]], ignitions, ds)
  BY DEF OutputOK, EmulatedOK, Loaded
<1>4. DOMAIN fires = Samples
  <2>1. Length \in Nat /\ Batches \in Nat /\ ds.batch \in Nat \ {0}
    BY <1>1, BatchesNat, AcceptedTypes
  <2>2. Length <= Start(Batches)
    <3>1. PICK m \in Nat \ {0}, L \in Nat, n \in Nat : m = ds.batch /\ L = Length /\ n = Batches
      BY <2>1
    <3>2. n = (L + m - 1) \div m
      BY <3>1 DEF Batches
    <3>3. L <= n * m
      BY <3>2, BatchEnds
    <3> QED
      BY <3>1, <3>3 DEF Start
  <2>3. Length = Len(ignitions) /\ Samples = 1 .. Len(ignitions)
    BY <1>1, LenProperties DEF Length, Samples, DataTypes
  <2>4. AtMost(Length, Start(Batches)) = Length
    BY <2>1, <2>2 DEF AtMost, Start
  <2> QED
    BY <1>3, <2>3, <2>4
<1>5. ASSUME NEW k \in Samples, NEW r \in Roles
      PROVE  /\ Component(fires[k][r]) \in SUBSET OnWindow(ignitions[k])
             /\ StampedCells(Component(fires[k][r]), ignitions[k], ds) = CentralBurn(fires[k][r], k)
             /\ fires[k][r].crowned \in SUBSET OnWindow(ignitions[k])
  <2>1. k \in DOMAIN fires /\ r \in DOMAIN fires[k]
    BY <1>3, <1>4
  <2> QED
    BY <1>1, <1>3, <2>1, CentralBurnStamped DEF FiresOnWindow
<1>6. kept = Reaching
  <2>1. ASSUME NEW k \in Samples
        PROVE  StampedCells(Component(fires[k][First]) \cup Component(fires[k][Second]), ignitions[k], ds)
                 = CentralBurn(fires[k]["baseline"], k) \cup CentralBurn(fires[k]["treatment"], k)
    <3>1. \A A, B : StampedCells(A \cup B, ignitions[k], ds)
                      = StampedCells(A, ignitions[k], ds) \cup StampedCells(B, ignitions[k], ds)
      BY DEF StampedCells
    <3> QED
      BY <1>2, <1>5, <3>1
  <2> QED
    BY <1>3, <1>4, <2>1 DEF KeptOf, FireTouches, Reaching
<1> DEFINE base == [k \in kept |-> fires[k][First]]
           treat == [k \in kept |-> fires[k][Second]]
<1>7. kept \in SUBSET Samples /\ IsFiniteSet(kept)
  BY <1>3, <1>4, KeptFacts
<1>8. ASSUME NEW k \in kept
      PROVE  /\ base[k].crowned \in SUBSET OnWindow(ignitions[k])
             /\ treat[k].crowned \in SUBSET OnWindow(ignitions[k])
             /\ base[k] = fires[k]["baseline"] /\ treat[k] = fires[k]["treatment"]
  BY <1>2, <1>5, <1>7
<1>9. \A k \in kept : base[k].crowned \subseteq Square(ds.ws) /\ treat[k].crowned \subseteq Square(ds.ws)
  BY <1>8 DEF OnWindow
<1>10. DOMAIN base = kept
  OBVIOUS
<1> HIDE DEF base, treat
<1>11. ASSUME NEW c \in Cells PROVE CountedAt(c)
  <2>1. c \in CellsOf(ds)
    BY DEF Cells
  <2>2. PICK sum : sum = AddEmulated(NoFires(ds), base, treat, ignitions, ds) /\ sum = output
    BY <1>3 DEF base, treat
  <2>a. /\ sum.to[c] = Cardinality(Showing(EmuTo(base, treat, ignitions, ds), c))
        /\ sum.from[c] = Cardinality(Showing(EmuFrom(base, treat, ignitions, ds), c))
        /\ AddsUp(sum, c, Cardinality(kept))
    <3>1. IsFiniteSet(kept) /\ sum = AddEmulated(NoFires(ds), base, treat, ignitions, ds)
      BY <1>7, <2>2
    <3> QED
      BY <1>9, <1>10, <2>1, <3>1, EmulatedCounts
  <2>3. output.to[c] = Cardinality(Showing(EmuTo(base, treat, ignitions, ds), c))
    BY <2>2, <2>a
  <2>4. output.from[c] = Cardinality(Showing(EmuFrom(base, treat, ignitions, ds), c))
    BY <2>2, <2>a
  <2>5. AddsUp(output, c, Cardinality(kept))
    BY <2>2, <2>a
  <2>6. ASSUME NEW k \in kept
        PROVE  /\ StampedCells(ToCrown(base[k], treat[k]), ignitions[k], ds)
                    = OnRaster(fires[k]["treatment"].crowned \ fires[k]["baseline"].crowned, k)
               /\ StampedCells(FromCrown(base[k], treat[k]), ignitions[k], ds)
                    = OnRaster(fires[k]["baseline"].crowned \ fires[k]["treatment"].crowned, k)
    <3>1. k \in Samples /\ ToCrown(base[k], treat[k]) \in SUBSET OnWindow(ignitions[k])
          /\ FromCrown(base[k], treat[k]) \in SUBSET OnWindow(ignitions[k])
      BY <1>7, <1>8 DEF ToCrown, FromCrown
    <3>2. /\ StampedCells(ToCrown(base[k], treat[k]), ignitions[k], ds) = OnRaster(ToCrown(base[k], treat[k]), k)
          /\ StampedCells(FromCrown(base[k], treat[k]), ignitions[k], ds) = OnRaster(FromCrown(base[k], treat[k]), k)
      BY <1>1, <3>1, StampsOnRaster
    <3> QED
      BY <1>8, <3>2 DEF ToCrown, FromCrown
  <2>7. Showing(EmuTo(base, treat, ignitions, ds), c) = Changing("baseline", "treatment", c)
    BY <1>6, <1>10, <2>6 DEF Showing, EmuTo, Changing
  <2>8. Showing(EmuFrom(base, treat, ignitions, ds), c) = Changing("treatment", "baseline", c)
    BY <1>6, <1>10, <2>6 DEF Showing, EmuFrom, Changing
  <2> QED
    BY <1>6, <2>3, <2>4, <2>5, <2>7, <2>8 DEF CountedAt
<1> QED
  BY <1>2, <1>11, CountedEverywhere

\* What burned lies in its box.
LEMMA InBox ==
    ASSUME NEW X \in SUBSET (Int \X Int)
    PROVE  X \subseteq BoxOf(X)
<1> SUFFICES ASSUME NEW p \in X PROVE p \in BoxOf(X)
  OBVIOUS
<1>1. p[1] .. p[1] \in {q[1] .. r[1] : q, r \in X}
  BY SMT
<1>2. p[2] .. p[2] \in {q[2] .. r[2] : q, r \in X}
  BY SMT
<1>3. p[1] \in UNION {q[1] .. r[1] : q, r \in X}
  BY <1>1, SMT
<1>4. p[2] \in UNION {q[2] .. r[2] : q, r \in X}
  BY <1>2, SMT
<1> QED
  BY <1>3, <1>4, SMT DEF BoxOf

LEMMA SimulatedOutput ==
    ASSUME Core, SimulatedOK, OutputOK, ds.cmd = "run_pt", output # NoOutput
    PROVE  OutputCounts
<1>1. /\ ds \in Datasets /\ Pooled /\ Roles = {"baseline", "treatment"} /\ SimulatedRoles = Roles
      /\ Samples = 1 .. Len(ignitions) /\ Len(ignitions) \in Nat
  BY AcceptedTypes, LenProperties DEF Core, DataInv, DataTypes, Pooled, SimulatedRoles, Samples
<1>2. /\ pc = "done" /\ output = CloseSimulated(agg, Cardinality(kept))
      /\ \A t \in DOMAIN task : task[t] = "taken"
  BY <1>1 DEF OutputOK
<1>3. /\ DOMAIN task = Samples
      /\ DOMAIN fires = {t \in DOMAIN task : task[t] \in {"done", "taken"}}
      /\ \A t \in DOMAIN fires : fires[t] \in [Roles -> ds.fires]
      /\ kept = {t \in DOMAIN task : task[t] = "taken" /\ Touched(fires[t])}
      /\ agg = SimSum(ds, fires, kept)
  BY <1>1, <1>2 DEF SimulatedOK
<1>4. DOMAIN fires = Samples
  BY <1>2, <1>3
<1>5. \A k \in Samples : \A r \in Roles :
        /\ fires[k][r].crowned \subseteq fires[k][r].burned
        /\ fires[k][r].burned \in SUBSET (Int \X Int)
  BY <1>1, <1>3, <1>4, InferenceAssumption
<1>6. kept = Reaching
  BY <1>1, <1>2, <1>3 DEF Reaching, CentralBurn, CentralPart, OnRaster, Touched
<1>7. kept \in SUBSET Samples /\ IsFiniteSet(kept)
  <2>1. kept \in SUBSET Samples /\ IsFiniteSet(Samples)
    BY <1>1, <1>6, FS_Interval DEF Reaching
  <2> QED
    BY <2>1, FS_Subset
<1>8. ASSUME NEW c \in Cells PROVE CountedAt(c)
  <2>1. c \in CellsOf(ds)
    BY DEF Cells
  <2>2. /\ agg.to[c] = Cardinality(Showing(SimTo(fires, kept), c))
        /\ agg.from[c] = Cardinality(Showing(SimFrom(fires, kept), c))
        /\ NoMoreThan(agg, c, Cardinality(kept))
        /\ agg.to[c] \in Nat /\ agg.from[c] \in Nat /\ Cardinality(kept) \in Nat
    BY <1>3, <1>7, <2>1, SimulatedCounts
  <2>3. DOMAIN agg.none = CellsOf(ds)
    BY <1>3 DEF SimSum
  <2>4. output.to = agg.to /\ output.from = agg.from
        /\ output.none[c] = Cardinality(kept) - agg.to[c] - agg.from[c]
    <3>1. agg = [none |-> agg.none, to |-> agg.to, from |-> agg.from]
      BY <1>3 DEF SimSum
    <3> QED
      BY <1>2, <2>1, <2>3, <3>1 DEF CloseSimulated
  <2>5. AddsUp(output, c, Cardinality(kept))
    BY <2>2, <2>4 DEF AddsUp
  <2>6. ASSUME NEW k \in kept
        PROVE  /\ SimTo(fires, kept)[k] = fires[k]["treatment"].crowned \ fires[k]["baseline"].crowned
               /\ SimFrom(fires, kept)[k] = fires[k]["baseline"].crowned \ fires[k]["treatment"].crowned
    <3> DEFINE b == fires[k]["baseline"]
               t == fires[k]["treatment"]
    <3>1. /\ b.crowned \subseteq b.burned /\ t.crowned \subseteq t.burned
          /\ b.burned \cup t.burned \in SUBSET (Int \X Int)
      BY <1>1, <1>5, <1>7
    <3>2. SimTo(fires, kept)[k] = ToCrown(b, t) \cap BoxOf(b.burned \cup t.burned)
      BY DEF SimTo
    <3>3. SimFrom(fires, kept)[k] = FromCrown(b, t) \cap BoxOf(b.burned \cup t.burned)
      BY DEF SimFrom
    <3> HIDE DEF b, t
    <3>4. b.burned \cup t.burned \subseteq BoxOf(b.burned \cup t.burned)
      BY <3>1, InBox
    <3>5. SimTo(fires, kept)[k] = t.crowned \ b.crowned
      BY <3>1, <3>2, <3>4 DEF ToCrown
    <3>6. SimFrom(fires, kept)[k] = b.crowned \ t.crowned
      BY <3>1, <3>3, <3>4 DEF FromCrown
    <3> QED
      BY <3>5, <3>6 DEF b, t
  <2>7. \A X, k : OnRaster(X, k) = X
    BY <1>1 DEF OnRaster
  <2>8. Showing(SimTo(fires, kept), c) = Changing("baseline", "treatment", c)
    <3>1. DOMAIN SimTo(fires, kept) = kept
      BY DEF SimTo
    <3> QED
      BY <1>6, <2>6, <2>7, <3>1 DEF Showing, Changing
  <2>9. Showing(SimFrom(fires, kept), c) = Changing("treatment", "baseline", c)
    <3>1. DOMAIN SimFrom(fires, kept) = kept
      BY DEF SimFrom
    <3> QED
      BY <1>6, <2>6, <2>7, <3>1 DEF Showing, Changing
  <2> QED
    BY <1>6, <2>2, <2>4, <2>5, <2>8, <2>9 DEF CountedAt
<1> QED
  BY <1>1, <1>8, CountedEverywhere

LEMMA OutputAlways == Spec => []OutputOK
<1>1. Init => OutputOK
  BY DEF Init, OutputOK
<1>2. Core /\ OutputOK /\ [Next]_vars => OutputOK'
  BY OutputStep
<1> QED
  BY <1>1, <1>2, CoreAlways, PTL DEF Spec

(***************************************************************************)
(* For windows no larger than the raster and whatever fires are predicted  *)
(* or simulated, batch after batch or in any order of the pool: if run     *)
(* writes its raster, each ignition that its central burns take to the     *)
(* area counts once, at every cell in exactly one class, and the class is  *)
(* that of its central crown fires where no other crown fire is; as long   *)
(* as no fill of a predicted fire ran out of rounds and the layers come in *)
(* the order baseline, treatment.                                          *)
(***************************************************************************)
THEOREM EachIgnitionCounts ==
    RastersHoldWindows => (Spec => [](FillEnds /\ InOrder => OutputCounts))
<1> SUFFICES ASSUME RastersHoldWindows
             PROVE  Spec => [](FillEnds /\ InOrder => OutputCounts)
  OBVIOUS
<1>1. Core /\ Results /\ OutputOK => (FillEnds /\ InOrder => OutputCounts)
  <2> SUFFICES ASSUME Core, Results, OutputOK, FillEnds, InOrder PROVE OutputCounts
    OBVIOUS
  <2>1. CASE output = NoOutput
    BY <2>1 DEF OutputCounts
  <2>2. CASE output # NoOutput
    <3>1. ds.cmd \in {"run_dl", "run_pt"}
      BY <2>2 DEF OutputOK
    <3> QED
      BY <2>2, <3>1, EmulatedOutput, SimulatedOutput DEF Results
  <2> QED
    BY <2>1, <2>2
<1> QED
  BY <1>1, CoreAlways, ResultsAlways, OutputAlways, PTL

-----------------------------------------------------------------------------
\* What evaluate leaves

\* Writes that were drained have ended well unless their exception was raised;
\* behind the loop nothing is left to drain.
DrainedOK ==
    ds.cmd = "evaluate" =>
        /\ pc \in {"drain_all", "leave", "done"} => position = Batches
        /\ pc \in {"leave", "done"} => pending = <<>>
        /\ pc \notin {"leave_failed", "failed"} =>
             \A t \in DOMAIN task : t <= Len(task) - Len(pending) => task[t] = "done"

RowOK == row => pc = "done" /\ ds.cmd \in {"evaluate", "evaluate_pt"}

LEMMA RowStep ==
    ASSUME Core, RowOK, [Next]_vars
    PROVE  RowOK'
<1>0. Phase /\ Untouched
  BY DEF Core
<1>1. CASE ConstructDataset
  BY <1>0, <1>1, ConstructFacts DEF Untouched, RowOK
<1>2. CASE Leave
  <2>1. ds' = ds
    BY <1>2 DEF Leave, dataVars
  <2>2. CASE pc = "leave"
    BY <1>0, <1>2, <2>1, <2>2 DEF Leave, RowOK, Phase, Pooled
  <2>3. CASE pc # "leave"
    BY <1>2, <2>1, <2>3 DEF Leave, RowOK
  <2> QED
    BY <2>2, <2>3
<1>3. CASE ~ConstructDataset /\ ~Leave
  <2>1. ds' = ds
    BY <1>3, SameBatches
  <2>2. row' = row /\ (pc = "done" => pc' = "done")
    BY <1>3 DEF Next, Command, Pool, TrainItem, LoadBatch, WriteRun, ForwardRun, ForwardEvaluate,
       Drain,
       DrainOldest, SubmitWrite, EndPass, LastDrained, AllTaken, QueueTask, StartTask, FirstOf,
       EndWrite,
       EndSimulation, SetCancel, Collect, vars
  <2> QED
    BY <2>1, <2>2 DEF RowOK
<1> QED
  BY <1>1, <1>2, <1>3

\* The exception of a failed write leaves the loop; another moves on.
LEMMA DrainedDrain ==
    ASSUME Core, WritersOK, DrainedOK, Drain
    PROVE  DrainedOK'
<1>0. /\ ds.cmd = "evaluate" /\ ds' = ds /\ ignitions' = ignitions /\ pc \in {"drain", "drain_all"}
      /\ task' = task /\ position' = position /\ pending' = Tail(pending)
      /\ pc' = IF task[Head(pending)] = "failed" THEN "leave_failed" ELSE pc
      /\ task[Head(pending)] \in {"done", "failed"}
      /\ MustDrain(ds.workers) \/ MustDrain(1)
  BY DEF Drain, DrainOldest, loopVars, dataVars, Core, Phase
<1>1. Batches' = Batches
  BY <1>0, SameBatches DEF Drain, ConstructDataset, Next, Command
<1>2. LastPending /\ Len(pending) \in Nat /\ Len(pending) > 0 /\ Len(task) \in Nat /\ DOMAIN task = 1 .. Len(task)
  <2>1. LastPending /\ Len(pending) \in Nat /\ ds.workers \in Nat \ {0}
    BY <1>0, LenProperties, AcceptedTypes DEF WritersOK, LastPending, Core, DataInv, DataTypes
  <2>2. Len(pending) >= ds.workers \/ Len(pending) >= 1
    BY <1>0 DEF MustDrain
  <2> QED
    BY <2>1, <2>2, LenProperties DEF Core, Loop
<1>3. Len(pending') = Len(pending) - 1 /\ Head(pending) = Len(task) - Len(pending) + 1
  <2>1. Len(Tail(pending)) = Len(pending) - 1 /\ Head(pending) = pending[1]
    BY <1>2, TailMoves DEF LastPending
  <2> QED
    BY <1>0, <1>2, <2>1 DEF LastPending
<1>4. ASSUME pc' # "leave_failed", NEW t \in DOMAIN task, t <= Len(task) - Len(pending')
      PROVE  task[t] = "done"
  <2>1. task[Head(pending)] = "done"
    BY <1>0, <1>4
  <2>2. CASE t <= Len(task) - Len(pending)
    BY <1>0, <2>2 DEF DrainedOK
  <2>3. CASE ~(t <= Len(task) - Len(pending))
    <3>1. t = Head(pending)
      BY <1>2, <1>3, <1>4, <2>3
    <3> QED
      BY <2>1, <3>1
  <2> QED
    BY <2>2, <2>3
<1>5. pc' \notin {"leave", "done"} /\ (pc' = "drain_all" => pc = "drain_all")
  BY <1>0
<1> QED
  BY <1>0, <1>1, <1>4, <1>5 DEF DrainedOK

LEMMA DrainedSubmit ==
    ASSUME Core, WritersOK, DrainedOK, SubmitWrite
    PROVE  DrainedOK'
<1>0. /\ ds.cmd = "evaluate" /\ ds' = ds /\ pc = "drain" /\ pc' = "load"
      /\ task' = Append(task, "pending") /\ pending' = Append(pending, Len(task) + 1)
  BY DEF SubmitWrite, dataVars, Core, Phase
<1>1. /\ LastPending /\ Len(pending) \in Nat /\ Len(task) \in Nat /\ DOMAIN task = 1 .. Len(task)
      /\ task \in Seq(Statuses) /\ pending \in Seq(Nat)
  BY <1>0, LenProperties DEF WritersOK, LastPending, Core, Loop
<1>2. /\ Len(task') = Len(task) + 1 /\ DOMAIN task' = 1 .. Len(task) + 1
      /\ \A t \in 1 .. Len(task) : task'[t] = task[t]
  <2>1. "pending" \in Statuses
    BY DEF Statuses
  <2>2. task' \in Seq(Statuses) /\ Len(task') = Len(task) + 1
    BY <1>0, <1>1, <2>1, AppendProperties
  <2> QED
    BY <1>0, <1>1, <2>1, <2>2, AppendProperties, LenProperties
<1>3. Len(pending') = Len(pending) + 1
  <2>1. Len(task) + 1 \in Nat
    BY <1>1
  <2> QED
    BY <1>0, <1>1, <2>1, AppendProperties
<1>4. ASSUME NEW t \in DOMAIN task', t <= Len(task') - Len(pending') PROVE task'[t] = "done"
  <2>1. t \in 1 .. Len(task) /\ t <= Len(task) - Len(pending)
    <3>1. t \in 1 .. Len(task) + 1 /\ t <= Len(task) + 1 - (Len(pending) + 1) /\ Len(pending) <= Len(task)
      BY <1>1, <1>2, <1>3, <1>4 DEF LastPending
    <3> QED
      BY <1>1, <3>1
  <2> QED
    BY <1>0, <1>1, <1>2, <2>1 DEF DrainedOK
<1> QED
  BY <1>0, <1>4 DEF DrainedOK

LEMMA DrainedTask ==
    ASSUME Core, WritersOK, DrainedOK, NEW t \in DOMAIN task, QueueTask(t) \/ StartTask(t) \/ EndWrite(t)
    PROVE  DrainedOK'
<1> SUFFICES ASSUME ds'.cmd = "evaluate" PROVE DrainedOK'
  BY DEF DrainedOK
<1>0. /\ pending' = pending /\ pc' = pc /\ position' = position
      /\ task[t] \notin {"done", "failed"}
      /\ \E S \in Statuses : task' = [task EXCEPT ![t] = S]
  BY DEF QueueTask, StartTask, FirstOf, EndWrite, Running, Queued, Waiting, loopVars, Statuses
<1>1. ds' = ds /\ Batches' = Batches
  <2>1. pc # "construct"
    BY EmptySeq DEF Core, Untouched
  <2> QED
    BY <2>1, SameBatches DEF ConstructDataset, Next, Pool
<1>2. /\ Len(task') = Len(task) /\ DOMAIN task' = DOMAIN task
      /\ \A u \in DOMAIN task : u # t => task'[u] = task[u]
  BY <1>0, ExceptSeq DEF Core, Loop
<1>3. LastPending
  BY <1>1 DEF WritersOK
<1>4. ASSUME pc \notin {"leave_failed", "failed"}, NEW u \in DOMAIN task, u <= Len(task) - Len(pending)
      PROVE  task'[u] = "done"
  <2>1. task[u] = "done"
    BY <1>1, <1>4 DEF DrainedOK
  <2> QED
    BY <1>0, <1>2, <2>1
<1> QED
  BY <1>0, <1>1, <1>2, <1>4 DEF DrainedOK

LEMMA DrainedStep ==
    ASSUME Core, WritersOK, DrainedOK, [Next]_vars
    PROVE  DrainedOK'
<1>0. Phase /\ Untouched
  BY DEF Core
<1>1. CASE ConstructDataset
  <2>1. CASE ds'.cmd = "evaluate"
    <3>1. /\ task' = <<>> /\ pc' \in {"construct", "load"}
      BY <1>0, <1>1, <2>1, ConstructFacts DEF Untouched, Pooled
    <3> QED
      BY <3>1, EmptySeq DEF DrainedOK
  <2>2. CASE ds'.cmd # "evaluate"
    BY <2>2 DEF DrainedOK
  <2> QED
    BY <2>1, <2>2
<1>2. CASE Drain
  BY <1>2, DrainedDrain
<1>3. CASE SubmitWrite
  BY <1>3, DrainedSubmit
<1>4. ASSUME NEW t \in DOMAIN task, QueueTask(t) \/ StartTask(t) \/ EndWrite(t) PROVE DrainedOK'
  BY <1>4, DrainedTask
<1>5. CASE /\ ds'.cmd = "evaluate" /\ ~ConstructDataset
           /\ ~Drain /\ ~SubmitWrite /\ \A t \in DOMAIN task : ~QueueTask(t) /\ ~StartTask(t) /\ ~EndWrite(t)
  <2>1. ds' = ds /\ Batches' = Batches
    BY <1>5, SameBatches
  <2>2. LoadBatch \/ ForwardEvaluate \/ EndPass \/ LastDrained \/ Leave \/ SetCancel \/ UNCHANGED vars
    BY <1>0, <1>5, <2>1 DEF Phase, Pooled, Next, Command, Pool, TrainItem, ForwardRun, WriteRun,
       AllTaken, Collect, EndSimulation
  <2>3. UNCHANGED <<task, pending>>
    BY <2>1, <2>2 DEF LoadBatch, ForwardEvaluate, EndPass, LastDrained, Leave, SetCancel, vars,
       loopVars, poolVars
  <2>4. pc' \notin {"leave_failed", "failed"} => pc \notin {"leave_failed", "failed"}
    BY <2>2 DEF LoadBatch, ForwardEvaluate, EndPass, LastDrained, Leave, SetCancel, vars
  <2>5. pc' \in {"drain_all", "leave", "done"} => position' = Batches
    BY <2>1, <2>2, <1>5 DEF LoadBatch, ForwardEvaluate, EndPass, LastDrained, Leave, SetCancel,
       vars,
       loopVars, DrainedOK
  <2>6. pc' \in {"leave", "done"} => pending = <<>>
    <3>1. CASE LastDrained
      <4>1. ~(Len(pending) >= 1) /\ pending \in Seq(Nat)
        BY <1>5, <2>1, <3>1 DEF LastDrained, MustDrain, WritersOK, LastPending
      <4>2. Len(pending) \in Nat /\ Len(pending) = 0
        BY <4>1, LenProperties
      <4> QED
        BY <4>1, <4>2, EmptySeq
    <3>2. CASE ~LastDrained
      BY <2>1, <2>2, <1>5, <3>2 DEF LoadBatch, ForwardEvaluate, EndPass, Leave, SetCancel, vars,
         DrainedOK
    <3> QED
      BY <3>1, <3>2
  <2> QED
    BY <1>5, <2>1, <2>3, <2>4, <2>5, <2>6 DEF DrainedOK
<1>6. CASE ds'.cmd # "evaluate"
  BY <1>6 DEF DrainedOK
<1> QED
  BY <1>1, <1>2, <1>3, <1>4, <1>5, <1>6

\* The burn that the raster of a sample has to show.
Shown(k) == StampedCells(Component(fires[k][First]), ignitions[k], ds)

\* The tasks whose samples were not predicted again since.
Recent(t) ==
    t > Len(task) - Batches + (IF pc \in {"drain", "leave_failed", "failed"} THEN 1 ELSE 0)

\* The rasters of these show what was predicted last, and are there when the
\* task is done.
FreshOK ==
    ds.cmd = "evaluate" /\ Batches >= ds.workers =>
        \A t \in DOMAIN task : Recent(t) =>
            \A j \in DOMAIN writes[t] :
               /\ writes[t][j].cells = Shown(writes[t][j].sample)
               /\ task[t] = "done" =>
                    /\ writes[t][j].sample \in DOMAIN files
                    /\ files[writes[t][j].sample] = writes[t][j].cells

LEMMA RecentFacts ==
    ASSUME Core, NEW t \in DOMAIN task, Recent(t)
    PROVE  t > Len(task) - Batches /\ t \in Nat /\ Len(task) \in Nat /\ Batches \in Nat
<1>1. /\ Batches \in Nat /\ Len(task) \in Nat /\ DOMAIN task = 1 .. Len(task)
  BY BatchesNat, LenProperties DEF Core, DataInv, Loop
<1> QED
  BY <1>1 DEF Recent

LEMMA ShownSame ==
    ASSUME ds' = ds, ignitions' = ignitions
    PROVE  \A k : fires'[k] = fires[k] => Shown(k)' = Shown(k)
<1>1. First' = First
  BY DEF First
<1>2. \A f : Component(f)' = Component(f)
  BY DEF Component
<1> QED
  BY <1>1, <1>2 DEF Shown

LEMMA FreshFrame ==
    ASSUME Core, FreshOK, [Next]_vars, ~ConstructDataset,
           UNCHANGED <<fires, writes, files>>, Len(task') = Len(task),
           DOMAIN task' = DOMAIN task,
           \A t \in DOMAIN task : task'[t] = "done" => task[t] = "done",
           pc' \in {"drain", "leave_failed", "failed"} \/ pc \notin {"drain", "leave_failed", "failed"}
    PROVE  FreshOK'
<1>1. /\ ds' = ds /\ ignitions' = ignitions /\ Batches' = Batches
  BY SameBatches
<1>2. \A k : Shown(k)' = Shown(k)
  BY <1>1, ShownSame
<1>3. \A t \in DOMAIN task : Recent(t)' => Recent(t)
  BY <1>1, BatchesNat, LenProperties DEF Recent, Core, DataInv, Loop
<1> QED
  BY <1>1, <1>2, <1>3 DEF FreshOK

\* A batch is predicted again: its last task is no longer recent.
LEMMA FreshForward ==
    ASSUME Core, ServedBatch, WritersOK, EvaluatedOK, FreshOK, ForwardEvaluate
    PROVE  FreshOK'
<1>0. /\ ds.cmd = "evaluate" /\ pc = "forward" /\ pc' = "drain"
      /\ task' = task /\ writes' = writes /\ files' = files
      /\ ds' = ds /\ ignitions' = ignitions /\ items' = items
  BY DEF ForwardEvaluate, dataVars, poolVars
<1>1. Batches' = Batches
  BY <1>0, SameBatches DEF Next, Command, ConstructDataset
<1>2. PICK choice \in Outcomes : fires' = Updated(fires, Predicted(choice))
  BY DEF ForwardEvaluate
<1>3. DOMAIN Predicted(choice) = {items[j].sample : j \in DOMAIN items}
  BY <1>0, PredictedFacts
<1>4. OfBatch(position - 1, items) /\ position \in Nat /\ position > 0
  BY <1>0, BatchesNat DEF ServedBatch, Core, Loop, DataInv
<1>5. PICK base \in Nat : PassAt(base)
  BY <1>0 DEF WritersOK
<1>6. base = Len(task) - (position - 1)
  BY <1>0, <1>5 DEF PassAt
<1>7. /\ ds \in Datasets /\ Length \in Nat /\ Batches \in Nat
      /\ Len(task) \in Nat /\ DOMAIN task = 1 .. Len(task)
  BY BatchesNat, LenProperties DEF Core, DataInv, DataTypes, Loop
<1>8. ASSUME NEW t \in DOMAIN task, t > Len(task) - Batches + 1, NEW j \in DOMAIN writes[t]
      PROVE  writes[t][j].sample \notin DOMAIN Predicted(choice)
  <2>1. PICK b \in Int : OfBatch(b, writes[t]) /\ b # position - 1
    <3>1. CASE t > base
      <4>1. OfBatch(t - base - 1, writes[t])
        BY <1>5, <3>1 DEF PassAt
      <4>2. t - base - 1 \in Int /\ t - base - 1 # position - 1
        BY <1>4, <1>6, <1>7
      <4> QED
        BY <4>1, <4>2
    <3>2. CASE ~(t > base)
      <4>1. t <= base /\ t > base - Batches
        BY <1>4, <1>6, <1>7, <1>8, <3>2
      <4>2. OfBatch(t - base - 1 + Batches, writes[t])
        BY <1>5, <4>1 DEF PassAt
      <4>3. t - base - 1 + Batches \in Int /\ t - base - 1 + Batches # position - 1
        BY <1>4, <1>6, <1>7, <1>8
      <4> QED
        BY <4>2, <4>3
    <3> QED
      BY <3>1, <3>2
  <2>2. ASSUME NEW m \in DOMAIN items, writes[t][j].sample = items[m].sample PROVE FALSE
    <3>1. position - 1 \in Int
      BY <1>4
    <3> QED
      BY <1>4, <1>7, <2>1, <2>2, <3>1, SameSampleSameBatch
  <2> QED
    BY <1>3, <2>2
<1>9. \A k : k \in DOMAIN fires /\ k \notin DOMAIN Predicted(choice) => fires'[k] = fires[k]
  BY <1>2 DEF Updated
<1>10. \A k : fires'[k] = fires[k] => Shown(k)' = Shown(k)
  BY <1>0, ShownSame
<1>11. ASSUME Batches >= ds.workers, NEW t \in DOMAIN task, Recent(t)', NEW j \in DOMAIN writes[t]
       PROVE  /\ Recent(t)
              /\ \A k : k = writes[t][j].sample => writes[t][j].cells = Shown(k)'
  <2>1. t > Len(task) - Batches + 1 /\ t > Len(task) - Batches + 0
    BY <1>0, <1>1, <1>7, <1>11 DEF Recent
  <2>2. Recent(t)
    BY <1>0, <2>1 DEF Recent
  <2> SUFFICES ASSUME NEW k, k = writes[t][j].sample PROVE writes[t][j].cells = Shown(k)'
    BY <2>2
  <2>3. k = writes[t][j].sample
    OBVIOUS
  <2>4. k \in DOMAIN fires
    <3>1. DOMAIN writes = DOMAIN task
      BY <1>0, <1>7, LenProperties DEF WritersOK
    <3> QED
      BY <1>0, <2>3, <3>1 DEF EvaluatedOK
  <2>5. k \notin DOMAIN Predicted(choice)
    BY <1>8, <1>11, <2>1, <2>3
  <2>6. Shown(k)' = Shown(k)
    BY <1>9, <1>10, <2>4, <2>5
  <2>7. writes[t][j].cells = Shown(k)
    BY <1>0, <1>11, <2>2, <2>3 DEF FreshOK
  <2> QED
    BY <2>6, <2>7
<1> QED
  BY <1>0, <1>1, <1>11 DEF FreshOK

\* The rasters that are handed over show what was predicted last.
LEMMA FreshSubmit ==
    ASSUME Core, WritersOK, FreshOK, SubmitWrite
    PROVE  FreshOK'
<1>0. /\ ds.cmd = "evaluate" /\ pc = "drain" /\ pc' = "load"
      /\ ds' = ds /\ ignitions' = ignitions /\ fires' = fires /\ files' = files
      /\ task' = Append(task, "pending")
  BY DEF SubmitWrite, dataVars, loopVars, Core, Phase
<1>1. Batches' = Batches
  BY <1>0, SameBatches DEF SubmitWrite, Next, Command, ConstructDataset
<1>2. /\ Batches \in Nat /\ Len(task) \in Nat /\ DOMAIN task = 1 .. Len(task)
      /\ task \in Seq(Statuses) /\ writes \in Seq(Rasters) /\ Len(writes) = Len(task)
  BY <1>0, BatchesNat, LenProperties DEF WritersOK, Core, DataInv, Loop
<1>3. /\ Len(task') = Len(task) + 1 /\ DOMAIN task' = 1 .. Len(task) + 1
      /\ \A t \in 1 .. Len(task) : task'[t] = task[t]
      /\ task'[Len(task) + 1] = "pending"
  <2>1. "pending" \in Statuses
    BY DEF Statuses
  <2>2. task' \in Seq(Statuses) /\ Len(task') = Len(task) + 1
    BY <1>0, <1>2, <2>1, AppendProperties
  <2> QED
    BY <1>0, <1>2, <2>1, <2>2, AppendProperties, LenProperties
<1>4. PICK w : /\ w = [j \in DOMAIN items |-> [sample |-> items[j].sample, cells |-> Canvas(items[j])]]
               /\ writes' = Append(writes, w)
  BY DEF SubmitWrite
<1>5. \A t \in DOMAIN task' :
        writes'[t] = IF t = Len(task) + 1 THEN w ELSE writes[t]
  BY <1>2, <1>3, <1>4
<1>6. \A j \in DOMAIN w : w[j].cells = Shown(w[j].sample)
  <2>1. \A j \in DOMAIN items : items[j].role = First /\ items[j].at = ignitions[items[j].sample]
    BY <1>0, AcceptedTypes DEF Core, DataInv, DataTypes, ItemShape
  <2> QED
    BY <1>4, <2>1 DEF Canvas, Shown
<1>7. \A k : Shown(k)' = Shown(k)
  BY <1>0, ShownSame
<1>8. ASSUME Batches >= ds.workers, NEW t \in DOMAIN task', Recent(t)', NEW j \in DOMAIN writes'[t]
      PROVE  /\ writes'[t][j].cells = Shown(writes'[t][j].sample)
             /\ task'[t] = "done" =>
                  /\ writes'[t][j].sample \in DOMAIN files
                  /\ files[writes'[t][j].sample] = writes'[t][j].cells
  <2>1. CASE t = Len(task) + 1
    BY <1>3, <1>5, <1>6, <1>8, <2>1
  <2>2. CASE t # Len(task) + 1
    <3>1. t \in DOMAIN task /\ task'[t] = task[t] /\ writes'[t] = writes[t]
      BY <1>2, <1>3, <1>5, <2>2
    <3>2. t > Len(task) + 1 - Batches + 0
      BY <1>0, <1>1, <1>2, <1>3, <1>8 DEF Recent
    <3>3. Recent(t)
      BY <1>0, <1>2, <3>1, <3>2 DEF Recent
    <3> QED
      BY <1>0, <1>8, <3>1, <3>3 DEF FreshOK
  <2> QED
    BY <2>1, <2>2
<1> QED
  BY <1>0, <1>1, <1>7, <1>8 DEF FreshOK

\* A writer touches no raster of another recent task.
LEMMA FreshWrite ==
    ASSUME Core, WritersOK, FreshOK, NEW t \in DOMAIN task, EndWrite(t)
    PROVE  FreshOK'
<1>0. /\ ds.cmd = "evaluate" /\ pc' = pc /\ task[t] = "running"
      /\ ds' = ds /\ ignitions' = ignitions /\ fires' = fires /\ writes' = writes
  BY DEF EndWrite, dataVars, loopVars, Running
<1> SUFFICES ASSUME Batches >= ds.workers PROVE FreshOK'
  <2>1. Batches' = Batches
    BY <1>0 DEF Batches, Length
  <2> QED
    BY <1>0, <2>1 DEF FreshOK
<1>1. /\ Batches' = Batches /\ Batches \in Nat /\ Len(task) \in Nat /\ DOMAIN task = 1 .. Len(task)
      /\ ds \in Datasets /\ Length \in Nat /\ ds.workers \in Nat
  BY <1>0, BatchesNat, LenProperties, AcceptedTypes DEF Batches, Length, Core, DataInv,
     DataTypes, Loop
<1>2. /\ Len(task') = Len(task) /\ DOMAIN task' = DOMAIN task
      /\ \A u \in DOMAIN task : u # t => task'[u] = task[u]
  <2>1. \E S \in Statuses : task' = [task EXCEPT ![t] = S]
    BY DEF EndWrite, Statuses
  <2> QED
    BY <2>1, ExceptSeq DEF Core, Loop
<1>3. t > Len(task) - Batches
  <2>1. LastPending /\ Len(pending) \in Nat
    BY <1>0, LenProperties DEF WritersOK, LastPending
  <2>2. ~(t <= Len(task) - Len(pending))
    BY <1>0, <2>1 DEF LastPending
  <2>3. Len(pending) <= Batches
    BY <1>1, <2>1 DEF LastPending
  <2> QED
    BY <1>1, <2>1, <2>2, <2>3
<1>4. DOMAIN writes[t] = 1 .. Len(writes[t]) /\ Len(writes[t]) \in Nat
  <2>1. writes \in Seq(Rasters) /\ DOMAIN writes = DOMAIN task
    BY <1>0, <1>1, LenProperties DEF WritersOK
  <2>2. writes[t] \in Rasters
    BY <2>1, ElementOfSeq, LenProperties
  <2> QED
    BY <2>2, LenProperties DEF Rasters
<1>5. \A j, m \in DOMAIN writes[t] : writes[t][j].sample = writes[t][m].sample => j = m
  <2>1. PICK b \in Int : OfBatch(b, writes[t])
    <3>1. PICK base \in Nat : PassAt(base)
      BY <1>0 DEF WritersOK
    <3>2. base <= Len(task) /\ t \in Int
      BY <1>1, <3>1 DEF PassAt
    <3>3. CASE t > base
      BY <1>1, <3>1, <3>2, <3>3 DEF PassAt
    <3>4. CASE ~(t > base)
      <4>1. t <= base /\ t > base - Batches
        BY <1>1, <1>3, <3>2, <3>4
      <4> QED
        BY <1>1, <3>1, <3>2, <4>1 DEF PassAt
    <3> QED
      BY <3>3, <3>4
  <2>2. Start(b) \in Int
    BY <1>1, AcceptedTypes DEF Start
  <2>3. \A j \in DOMAIN writes[t] : j \in Int /\ writes[t][j].sample = Start(b) + j
    BY <1>4, <2>1 DEF OfBatch
  <2> QED
    BY <2>2, <2>3
<1>6. PICK n \in 0 .. Len(writes[t]) : WriteRasters(t, n) /\ (task'[t] = "done" => n = Len(writes[t]))
  <2>1. task'[t] \in {"done", "failed"}
    BY DEF EndWrite
  <2>2. CASE task'[t] = "failed"
    <3>1. PICK n \in 0 .. Len(writes[t]) - 1 : WriteRasters(t, n)
      BY <2>2 DEF EndWrite
    <3> QED
      BY <1>4, <2>2, <3>1
  <2>3. CASE task'[t] = "done"
    <3>1. WriteRasters(t, Len(writes[t]))
      BY <2>3 DEF EndWrite
    <3> QED
      BY <1>4, <3>1
  <2> QED
    BY <2>1, <2>2, <2>3
<1> DEFINE written == [k \in {writes[t][j].sample : j \in 1 .. n} |->
                         (CHOOSE w \in Range(writes[t]) : w.sample = k).cells]
<1>7. /\ DOMAIN files' = DOMAIN files \cup DOMAIN written
      /\ \A k \in DOMAIN files' : files'[k] = IF k \in DOMAIN written THEN written[k] ELSE files[k]
  <2>1. files' = Updated(files, written)
    BY <1>6 DEF WriteRasters
  <2> HIDE DEF written
  <2> QED
    BY <2>1 DEF Updated
<1>8. ASSUME NEW j \in DOMAIN writes[t], j <= n
      PROVE  /\ writes[t][j].sample \in DOMAIN files'
             /\ files'[writes[t][j].sample] = writes[t][j].cells
  <2>1. writes[t][j].sample \in DOMAIN written
    BY <1>4, <1>8
  <2>2. (CHOOSE w \in Range(writes[t]) : w.sample = writes[t][j].sample) = writes[t][j]
    <3>1. writes[t][j] \in Range(writes[t])
      BY DEF Range
    <3>2. \A w \in Range(writes[t]) : w.sample = writes[t][j].sample => w = writes[t][j]
      BY <1>5 DEF Range
    <3> QED
      BY <3>1, <3>2
  <2>3. written[writes[t][j].sample] = writes[t][j].cells
    BY <2>1, <2>2
  <2> HIDE DEF written
  <2> QED
    BY <1>7, <2>1, <2>3
<1>9. \A k : Shown(k)' = Shown(k)
  BY <1>0, ShownSame
<1>10. ASSUME NEW u \in DOMAIN task, Recent(u), NEW j \in DOMAIN writes[u]
       PROVE  /\ writes[u][j].cells = Shown(writes[u][j].sample)
              /\ task'[u] = "done" =>
                   /\ writes[u][j].sample \in DOMAIN files'
                   /\ files'[writes[u][j].sample] = writes[u][j].cells
  <2>1. writes[u][j].cells = Shown(writes[u][j].sample)
    BY <1>0, <1>10 DEF FreshOK
  <2>2. ASSUME task'[u] = "done", u = t
        PROVE  /\ writes[u][j].sample \in DOMAIN files'
               /\ files'[writes[u][j].sample] = writes[u][j].cells
    BY <1>4, <1>6, <1>8, <1>10, <2>2
  <2>3. ASSUME task'[u] = "done", u # t
        PROVE  /\ writes[u][j].sample \in DOMAIN files'
               /\ files'[writes[u][j].sample] = writes[u][j].cells
    <3>1. /\ writes[u][j].sample \in DOMAIN files
          /\ files[writes[u][j].sample] = writes[u][j].cells
      BY <1>0, <1>2, <1>10, <2>3 DEF FreshOK
    <3>2. writes[u][j].sample \notin DOMAIN written
      <4>1. u > Len(task) - Batches
        BY <1>10, RecentFacts
      <4>2. \A m \in DOMAIN writes[t] : writes[u][j].sample # writes[t][m].sample
        BY <1>0, <1>3, <1>10, <2>3, <4>1, LastApart
      <4>3. \A m \in 1 .. n : m \in DOMAIN writes[t]
        BY <1>4
      <4> QED
        BY <4>2, <4>3
    <3> HIDE DEF written
    <3> QED
      BY <1>7, <3>1, <3>2
  <2> QED
    BY <2>1, <2>2, <2>3
<1>11. \A u : Recent(u)' <=> Recent(u)
  BY <1>0, <1>1, <1>2 DEF Recent
<1> QED
  BY <1>0, <1>1, <1>2, <1>9, <1>10, <1>11 DEF FreshOK

LEMMA FreshStep ==
    ASSUME Core, ServedBatch, WritersOK, EvaluatedOK, FreshOK, [Next]_vars
    PROVE  FreshOK'
<1>0. Phase /\ Untouched
  BY DEF Core
<1>1. CASE ConstructDataset
  <2>1. CASE ds'.cmd = "evaluate"
    <3>1. task' = <<>>
      BY <1>0, <1>1, <2>1, ConstructFacts DEF Untouched, Pooled
    <3> QED
      BY <3>1, EmptySeq DEF FreshOK
  <2>2. CASE ds'.cmd # "evaluate"
    BY <2>2 DEF FreshOK
  <2> QED
    BY <2>1, <2>2
<1>2. CASE ForwardEvaluate
  BY <1>2, FreshForward
<1>3. CASE SubmitWrite
  BY <1>3, FreshSubmit
<1>4. ASSUME NEW t \in DOMAIN task, EndWrite(t) PROVE FreshOK'
  BY <1>4, FreshWrite
<1>5. ASSUME ds'.cmd = "evaluate", ~ConstructDataset, NEW t \in DOMAIN task,
             QueueTask(t) \/ StartTask(t)
      PROVE  FreshOK'
  <2>1. \E S \in Statuses \ {"done"} : task' = [task EXCEPT ![t] = S]
    BY <1>5 DEF QueueTask, StartTask, FirstOf, Statuses
  <2>2. /\ Len(task') = Len(task) /\ DOMAIN task' = DOMAIN task
        /\ \A u \in DOMAIN task : task'[u] = "done" => task[u] = "done"
    BY <2>1, ExceptSeq DEF Core, Loop
  <2>3. UNCHANGED <<fires, writes, files, pc>>
    BY <1>5 DEF QueueTask, StartTask, FirstOf, loopVars
  <2> QED
    BY <1>5, <2>2, <2>3, FreshFrame
<1>6. CASE /\ ds'.cmd = "evaluate" /\ ~ConstructDataset /\ ~ForwardEvaluate /\ ~SubmitWrite
           /\ \A t \in DOMAIN task : ~QueueTask(t) /\ ~StartTask(t) /\ ~EndWrite(t)
  <2>1. ds' = ds
    BY <1>6, SameBatches
  <2>2. LoadBatch \/ Drain \/ EndPass \/ LastDrained \/ Leave \/ SetCancel \/ UNCHANGED vars
    BY <1>0, <1>6, <2>1 DEF Phase, Pooled, Next, Command, Pool, TrainItem, ForwardRun, WriteRun,
       AllTaken, Collect, EndSimulation
  <2>3. UNCHANGED <<fires, writes, files, task>>
    BY <2>2 DEF LoadBatch, Drain, DrainOldest, EndPass, LastDrained, Leave, SetCancel,
       vars, loopVars, poolVars
  <2>4. pc' \in {"drain", "leave_failed", "failed"} \/ pc \notin {"drain", "leave_failed", "failed"}
    BY <2>2 DEF LoadBatch, Drain, DrainOldest, EndPass, LastDrained, Leave, SetCancel, vars
  <2> QED
    BY <1>6, <2>3, <2>4, FreshFrame
<1>7. CASE ds'.cmd # "evaluate"
  BY <1>7 DEF FreshOK
<1> QED
  BY <1>1, <1>2, <1>3, <1>4, <1>5, <1>6, <1>7

\* Every sample is in a batch.
LEMMA BatchOfSample ==
    ASSUME DataTypes, ~ds.burned, NEW k \in Samples
    PROVE  \E b \in 0 .. Batches - 1 : k - Start(b) \in 1 .. AtMost(ds.batch, Length - Start(b))
                                        /\ Start(b) \in Int
<1>1. PICK m \in Nat \ {0} : m = ds.batch
  BY AcceptedTypes DEF DataTypes
<1>2. PICK L \in Nat : L = Length
  BY BatchesNat
<1>3. k \in 1 .. L
  BY <1>2, LenProperties DEF DataTypes, Samples, Length
<1>4. PICK n \in Nat : n = Batches /\ n = (L + m - 1) \div m
  BY <1>1, <1>2, BatchesNat DEF Batches
<1>5. L <= n * m
  BY <1>4, BatchEnds
<1>6. PICK b \in Nat : b = (k - 1) \div m
  <2>1. k - 1 \in Nat
    BY <1>3
  <2> QED
    BY <2>1
<1>7. b * m \in Nat /\ b * m <= k - 1 /\ k - 1 < (b + 1) * m
  <2>1. k - 1 \in Nat /\ m > 0
    BY <1>3
  <2> QED
    BY <1>6, <2>1
<1>8. b < n
  <2> SUFFICES ASSUME n <= b PROVE FALSE
    OBVIOUS
  <2>1. n * m <= b * m
    <3>1. PICK d \in Nat : b = n + d
      <4>1. b - n \in Nat /\ b = n + (b - n)
        OBVIOUS
      <4> QED
        BY <4>1
    <3>2. d * m \in Nat /\ n * m \in Nat /\ b * m = n * m + d * m
      BY <3>1
    <3> QED
      BY <3>2
  <2> QED
    BY <1>3, <1>5, <1>7, <2>1
<1>9. (b + 1) * m = b * m + m
  OBVIOUS
<1>10. PICK s \in Nat : s = b * m
  BY <1>7
<1>11. Start(b) = s /\ k - s \in 1 .. m /\ k - s \in 1 .. L - s
  BY <1>1, <1>3, <1>7, <1>9, <1>10 DEF Start
<1>12. k - Start(b) \in 1 .. AtMost(ds.batch, Length - Start(b))
  BY <1>1, <1>2, <1>10, <1>11 DEF AtMost
<1> QED
  BY <1>4, <1>8, <1>10, <1>11, <1>12

\* evaluate.py: behind the pool every raster shows the last prediction.
LEMMA EvaluatedRow ==
    ASSUME RastersHoldWindows, Core, WritersOK, EvaluatedOK, DrainedOK, FreshOK, FillEnds,
           ds.cmd = "evaluate", Batches >= ds.workers, pc = "done"
    PROVE  \A k \in Samples : /\ k \in DOMAIN files
                              /\ files[k] = CentralBurn(fires[k][RoleOf(0)], k)
<1> SUFFICES ASSUME NEW k \in Samples
             PROVE  /\ k \in DOMAIN files
                    /\ files[k] = CentralBurn(fires[k][RoleOf(0)], k)
  OBVIOUS
<1>1. /\ DataTypes /\ ds \in Datasets /\ ~ds.burned /\ ~Pooled
      /\ Batches \in Nat /\ Length \in Nat /\ Len(task) \in Nat /\ DOMAIN task = 1 .. Len(task)
  BY BatchesNat, LenProperties, AcceptedTypes DEF Core, DataInv, DataTypes, Pooled, Loop
<1>2. /\ position = Batches /\ pending = <<>>
      /\ \A t \in DOMAIN task : t <= Len(task) - Len(pending) => task[t] = "done"
  BY DEF DrainedOK
<1>3. \A t \in DOMAIN task : task[t] = "done"
  BY <1>1, <1>2, EmptySeq
<1>4. PICK base \in Nat : PassAt(base)
  BY DEF WritersOK
<1>5. base = Len(task) - Batches
  BY <1>2, <1>4 DEF PassAt
<1>6. PICK b \in 0 .. Batches - 1 :
        k - Start(b) \in 1 .. AtMost(ds.batch, Length - Start(b)) /\ Start(b) \in Int
  BY <1>1, BatchOfSample
<1>7. PICK t \in DOMAIN task : t = base + 1 + b /\ t > base
  <2>1. base + 1 + b \in 1 .. Len(task) /\ base + 1 + b > base
    BY <1>1, <1>5, <1>6
  <2> QED
    BY <1>1, <2>1
<1>8. OfBatch(b, writes[t])
  <2>1. t - base - 1 = b
    BY <1>6, <1>7
  <2>2. OfBatch(t - base - 1, writes[t])
    BY <1>4, <1>7 DEF PassAt
  <2> QED
    BY <2>1, <2>2
<1>9. PICK j \in DOMAIN writes[t] : writes[t][j].sample = k
  <2>1. k - Start(b) \in DOMAIN writes[t]
    BY <1>6, <1>8 DEF OfBatch
  <2>2. writes[t][k - Start(b)].sample = Start(b) + (k - Start(b))
    BY <1>8, <2>1 DEF OfBatch
  <2>3. k \in Int
    BY <1>1, LenProperties DEF Samples, DataTypes
  <2> QED
    BY <1>6, <2>1, <2>2, <2>3
<1>10. Recent(t)
  BY <1>1, <1>5, <1>7 DEF Recent
<1>11. k \in DOMAIN files /\ files[k] = Shown(k)
  BY <1>3, <1>9, <1>10 DEF FreshOK
<1>12. k \in DOMAIN fires /\ First \in DOMAIN fires[k] /\ FiresOnWindow
  BY <1>11 DEF EvaluatedOK
<1>13. Shown(k) = CentralBurn(fires[k][First], k)
  BY <1>1, <1>12, CentralBurnStamped DEF Shown
<1>14. RoleOf(0) = First
  BY <1>1, FirstRole
<1> QED
  BY <1>11, <1>13, <1>14

LEMMA SimulatedRow ==
    ASSUME Core, SimulatedOK, OutputOK, ds.cmd = "evaluate_pt", pc = "done"
    PROVE  \A k \in Samples : /\ k \in DOMAIN files
                              /\ files[k] = CentralBurn(fires[k][RoleOf(0)], k)
<1>1. Pooled /\ \A t \in DOMAIN task : task[t] = "taken"
  BY DEF Pooled, OutputOK
<1>2. /\ DOMAIN task = Samples
      /\ DOMAIN fires = {t \in DOMAIN task : task[t] \in {"done", "taken"}}
      /\ DOMAIN files = DOMAIN fires
      /\ \A t \in DOMAIN fires : files[t] = fires[t][RoleOf(0)].burned
  BY <1>1 DEF SimulatedOK
<1>3. \A f, k : CentralBurn(f, k) = f.burned
  BY <1>1 DEF CentralBurn, CentralPart, OnRaster
<1> QED
  BY <1>1, <1>2, <1>3

\* There are as many batches as workers, so that no write overtakes another.
EnoughBatches == ds.cmd = "evaluate" => Batches >= ds.workers

LEMMA RowAlways == Spec => [](RowOK /\ DrainedOK /\ FreshOK)
<1>1. Init => RowOK /\ DrainedOK /\ FreshOK
  <2> SUFFICES ASSUME Init PROVE RowOK /\ DrainedOK /\ FreshOK
    OBVIOUS
  <2>1. DOMAIN task = {} /\ pc = "construct" /\ row = FALSE
    BY EmptySeq DEF Init
  <2> QED
    BY <2>1 DEF RowOK, DrainedOK, FreshOK
<1>2. Core /\ ServedBatch /\ WritersOK /\ Results /\ RowOK /\ DrainedOK /\ FreshOK /\ [Next]_vars
        => RowOK' /\ DrainedOK' /\ FreshOK'
  BY RowStep, DrainedStep, FreshStep DEF Results
<1> QED
  BY <1>1, <1>2, CoreAlways, WritersAlways, ResultsAlways, PTL DEF Spec

(***************************************************************************)
(* For windows no larger than the raster and whatever is predicted: when   *)
(* evaluate adds its row to throughput.csv, every ignition's raster is     *)
(* there and shows the central burn of what was predicted for it last,     *)
(* however many passes wrote it and however the writers were scheduled, as *)
(* long as there are as many batches as writers and no fill ran out of     *)
(* rounds; with pyretechnics, the raster shows what was simulated.         *)
(***************************************************************************)
THEOREM RowOfWholeEvaluation ==
    RastersHoldWindows => (Spec => [](FillEnds /\ EnoughBatches => RowMeansWritten))
<1> SUFFICES ASSUME RastersHoldWindows
             PROVE  Spec => [](FillEnds /\ EnoughBatches => RowMeansWritten)
  OBVIOUS
<1>1. Core /\ WritersOK /\ Results /\ OutputOK /\ RowOK /\ DrainedOK /\ FreshOK
        => (FillEnds /\ EnoughBatches => RowMeansWritten)
  <2> SUFFICES ASSUME Core, WritersOK, Results, OutputOK, RowOK, DrainedOK, FreshOK,
                      FillEnds, EnoughBatches, row
               PROVE  \A k \in Samples : /\ k \in DOMAIN files
                                         /\ files[k] = CentralBurn(fires[k][RoleOf(0)], k)
    BY DEF RowMeansWritten
  <2>1. pc = "done" /\ ds.cmd \in {"evaluate", "evaluate_pt"}
    BY DEF RowOK
  <2> QED
    BY <2>1, EvaluatedRow, SimulatedRow DEF Results, EnoughBatches
<1> QED
  BY <1>1, CoreAlways, WritersAlways, ResultsAlways, OutputAlways, RowAlways, PTL

=============================================================================
