------------------------- MODULE TrainingData_proofs -------------------------
(***************************************************************************)
(* Proofs about TrainingData: files of two runs never mix, the marker      *)
(* means complete data, and the rows of a table are those of the           *)
(* ignitions, for any number of ignitions, durations and runs, any size of *)
(* the batches and any order of the results.                               *)
(***************************************************************************)
EXTENDS TrainingData, FiniteSetTheorems, SequenceTheorems, TLAPS

Working == {"submit", "wait", "table", "cbp"}
Names == {"baseline", "legalmax"}

\* Files are of one run, of the current one while it writes.
RunOK ==
    /\ pc \in {"idle", "remove", "inputs"} \cup Working
    /\ run \in 0 .. MaxRuns
    /\ pc # "idle" => run # 0
    /\ \A f \in files : f.run \in 1 .. MaxRuns
    /\ files # {} => exists
    /\ pc \in Working => exists
    /\ SingleRun
    /\ pc \notin {"idle", "remove"} => \A f \in files : f.run = run

InputsIn == \A k \in DOMAIN Inputs : Inputs[k] \in Written
FiresIn(t) == \A i \in Ignitions : Fire(t, i) \in Written
DoneWith(t) ==
    /\ Table(t) \in Written
    /\ IF collate THEN t = "baseline" => Cbp(t) \in Written ELSE FiresIn(t)

\* How far the data is, step by step, while nothing is being removed.
Progress ==
    /\ pc = "inputs" => \A t \in Names : Table(t) \notin Written
    /\ pc \in Working => InputsIn
    /\ pc \in Working /\ treatment = 2 => DoneWith("baseline")
    /\ pc = "wait" /\ ~collate =>
         \A task \in Tasks : \/ task \in pending \ ready
                             \/ Fire(Treatments[treatment], task[1]) \in Written
    /\ pc = "table" /\ ~collate => FiresIn(Treatments[treatment])
    /\ pc = "cbp" => collate /\ Table(Treatments[treatment]) \in Written
    /\ Table("legalmax") \in Written =>
         InputsIn /\ DoneWith("baseline") /\ DoneWith("legalmax")
Whole == ~torn /\ pc # "remove" => Progress

\* The results collected: each task once, and all of them for the table.
RowsOK ==
    /\ rows \in Seq(Tasks)
    /\ \A j, k \in 1 .. Len(rows) : rows[j] = rows[k] => j = k
    /\ pc \in {"wait", "table"} => Range(rows) = Tasks \ pending
    /\ pc = "table" => pending = {}

\* All tasks, by ignition and duration.
Sorted(s, T) ==
    /\ s \in Seq(T)
    /\ Range(s) = T
    /\ \A j, k \in DOMAIN s : j < k => Before(s[j], s[k])
TablesOK ==
    /\ \A t \in Names : Table(t) \in Written => Sorted(tables[t], Tasks)
    /\ tables \in [Names -> Seq(Tasks)]

TypesOK ==
    /\ collate \in BOOLEAN /\ exists \in BOOLEAN /\ torn \in BOOLEAN
    /\ treatment \in 1 .. 2
    /\ pc \in {"remove", "inputs"} => treatment = 1
    /\ ready \subseteq pending /\ pending \subseteq Tasks

IInv == TypesOK /\ RunOK /\ Whole /\ RowsOK /\ TablesOK

-----------------------------------------------------------------------------
\* Paths and writes

LEMMA TreatmentFacts ==
    /\ DOMAIN Treatments = 1 .. 2 /\ Len(Treatments) = 2
    /\ Treatments[1] = "baseline" /\ Treatments[2] = "legalmax"
    /\ Range(Treatments) = Names
<1>1. /\ DOMAIN Treatments = 1 .. 2 /\ Len(Treatments) = 2
      /\ Treatments[1] = "baseline" /\ Treatments[2] = "legalmax"
  BY DEF Treatments
<1>2. 1 .. 2 = {1, 2}
  OBVIOUS
<1> QED
  BY <1>1, <1>2 DEF Range, Names

LEMMA InputFacts == DOMAIN Inputs = 1 .. 4 /\ Len(Inputs) = 4
BY DEF Inputs

\* A table is no other file.
LEMMA Paths ==
    /\ \A k \in DOMAIN Inputs, t \in Names : Inputs[k] # Table(t)
    /\ \A t, u \in Names : Table(t) = Table(u) => t = u
    /\ \A t, u \in Names, i \in Ignitions : Fire(t, i) # Table(u)
    /\ \A t, u \in Names : Cbp(t) # Table(u)
<1>1. \A k \in DOMAIN Inputs, t \in Names : Inputs[k] # Table(t)
  <2> SUFFICES ASSUME NEW k \in 1 .. 4, NEW t \in Names PROVE Inputs[k] # Table(t)
    BY InputFacts
  <2>1. Inputs[k] \in {<<"fuels", "baseline">>, <<"fuels", "legalmax">>, <<"topo">>, <<"locations">>}
    BY DEF Inputs
  <2> QED
    BY <2>1 DEF Table
<1>2. \A t, u \in Names : Table(t) = Table(u) => t = u
  BY DEF Table
<1>3. \A t, u \in Names, i \in Ignitions : Fire(t, i) # Table(u)
  BY DEF Table, Fire
<1>4. \A t, u \in Names : Cbp(t) # Table(u)
  BY DEF Table, Cbp
<1> QED
  BY <1>1, <1>2, <1>3, <1>4

LEMMA WriteFacts ==
    ASSUME NEW path, Write(path)
    PROVE  /\ Written' = Written \cup {path}
           /\ \A f \in files' : f \in files \/ f.run = run
           /\ files' # {}
<1>1. \A f \in files' : f \in files \/ f = [path |-> path, run |-> run]
  BY DEF Write
<1>2. [path |-> path, run |-> run] \in files'
  BY DEF Write
<1>3. \A f \in files : f.path # path => f \in files'
  BY DEF Write
<1>4. [path |-> path, run |-> run].path = path /\ [path |-> path, run |-> run].run = run
  OBVIOUS
<1> QED
  BY <1>1, <1>2, <1>3, <1>4 DEF Written

\* A write by the current run.
LEMMA WriteKeepsRun ==
    ASSUME RunOK, NEW path, Write(path), UNCHANGED run, pc \notin {"idle", "remove"},
           pc' \in {"idle", "inputs"} \cup Working, exists'
    PROVE  RunOK'
<1>1. run \in 1 .. MaxRuns
  BY TrainingDataAssumption DEF RunOK, TrainingDataAssumption
<1>2. \A f \in files' : f.run = run
  BY WriteFacts DEF RunOK
<1> QED
  BY <1>1, <1>2 DEF RunOK, SingleRun

-----------------------------------------------------------------------------
\* Sorted rows

LEMMA TasksFinite == IsFiniteSet(Tasks)
<1>1. IsFiniteSet(Ignitions)
  BY FS_Interval, TrainingDataAssumption DEF Ignitions, TrainingDataAssumption
<1> QED
  BY <1>1, FS_Product, TrainingDataAssumption DEF Tasks, TrainingDataAssumption

\* Any two tasks are in one order.
LEMMA TaskOrder ==
    /\ \A a, b \in Tasks : a = b \/ Before(a, b) \/ Before(b, a)
    /\ \A a \in Tasks : ~Before(a, a)
    /\ \A a, b, c \in Tasks : Before(a, b) /\ Before(b, c) => Before(a, c)
<1>1. \A a \in Tasks : a[1] \in Nat /\ a[2] \in Nat /\ a = <<a[1], a[2]>>
  <2>1. Ignitions \subseteq Nat /\ Durations \subseteq Nat
    BY TrainingDataAssumption DEF Ignitions, TrainingDataAssumption
  <2> SUFFICES ASSUME NEW i \in Ignitions, NEW d \in Durations, NEW a, a = <<i, d>>
               PROVE  a[1] \in Nat /\ a[2] \in Nat /\ a = <<a[1], a[2]>>
    BY DEF Tasks
  <2> QED
    BY <2>1
<1> QED
  BY <1>1 DEF Before

\* Every set of tasks has a sorted sequence: in a smallest set without one,
\* the last task could be put behind the sorted others.
LEMMA SortedExists == \A T \in SUBSET Tasks : \E s : Sorted(s, T)
<1> DEFINE Bad == {T \in SUBSET Tasks : ~ \E s : Sorted(s, T)}
<1> SUFFICES ASSUME Bad # {} PROVE FALSE
  OBVIOUS
<1>1. IsWellFoundedOn(StrictSubsetOrdering(Tasks), FiniteSubsetsOf(Tasks))
  BY FS_StrictSubsetOrderingWellFounded
<1>2. Bad \subseteq FiniteSubsetsOf(Tasks)
  BY TasksFinite, FS_Subset DEF FiniteSubsetsOf
<1>3. PICK T \in Bad : \A U \in Bad : <<U, T>> \notin StrictSubsetOrdering(Tasks)
  <2> HIDE DEF Bad
  <2> QED
    BY <1>1, <1>2, WFMin
<1>4. \A U \in SUBSET Tasks : U \subseteq T /\ U # T => \E s : Sorted(s, U)
  BY <1>3 DEF StrictSubsetOrdering
<1>5. \A m \in T : (\A a \in T : a # m => Before(a, m)) => FALSE
  <2> SUFFICES ASSUME NEW m \in T, \A a \in T : a # m => Before(a, m) PROVE FALSE
    OBVIOUS
  <2>1. PICK s : Sorted(s, T \ {m})
    BY <1>3, <1>4
  <2> DEFINE g == Append(s, m)
  <2>2. /\ s \in Seq(T) /\ Len(s) \in Nat /\ DOMAIN s = 1 .. Len(s)
        /\ \A k \in 1 .. Len(s) : s[k] \in T \ {m}
    BY <2>1, LenProperties, ElementOfSeq DEF Sorted
  <2>3. /\ g \in Seq(T) /\ DOMAIN g = 1 .. Len(s) + 1
        /\ \A k \in 1 .. Len(s) : g[k] = s[k]
        /\ g[Len(s) + 1] = m
    BY <2>2
  <2>4. Range(g) = T
    <3>1. \A a \in T : a # m => \E k \in 1 .. Len(s) : s[k] = a
      BY <2>1, <2>2 DEF Sorted, Range
    <3>2. \A k \in 1 .. Len(s) + 1 : k \in 1 .. Len(s) \/ k = Len(s) + 1
      BY <2>2
    <3>3. Len(s) + 1 \in 1 .. Len(s) + 1 /\ 1 .. Len(s) \subseteq 1 .. Len(s) + 1
      BY <2>2
    <3> HIDE DEF g
    <3>4. \A a \in T : \E k \in DOMAIN g : g[k] = a
      BY <2>3, <3>1, <3>3
    <3>5. \A k \in DOMAIN g : g[k] \in T
      BY <2>2, <2>3, <3>2
    <3> QED
      BY <3>4, <3>5 DEF Range
  <2>5. \A j, k \in DOMAIN g : j < k => Before(g[j], g[k])
    <3> SUFFICES ASSUME NEW j \in 1 .. Len(s) + 1, NEW k \in 1 .. Len(s) + 1, j < k
                 PROVE  Before(g[j], g[k])
      BY <2>3
    <3>1. j \in 1 .. Len(s)
      BY <2>2
    <3>2. CASE k \in 1 .. Len(s)
      <4>1. Before(s[j], s[k])
        BY <2>1, <2>2, <3>1, <3>2 DEF Sorted
      <4> HIDE DEF g
      <4> QED
        BY <2>3, <3>1, <3>2, <4>1
    <3>3. CASE k = Len(s) + 1
      <4>1. Before(s[j], m)
        BY <2>2, <3>1
      <4> HIDE DEF g
      <4> QED
        BY <2>3, <3>1, <3>3, <4>1
    <3> QED
      BY <2>2, <3>2, <3>3
  <2>6. Sorted(g, T)
    <3> HIDE DEF g
    <3> QED
      BY <2>3, <2>4, <2>5 DEF Sorted
  <2> QED
    BY <1>3, <2>6
<1>6. T # {}
  <2>1. Sorted(<<>>, {})
    BY EmptySeq DEF Sorted, Range
  <2> QED
    BY <1>3, <2>1
<1>7. PICK x \in T : TRUE
  BY <1>6
<1>8. PICK s : Sorted(s, T \ {x})
  BY <1>3, <1>4, <1>7
<1>9. T \subseteq Tasks
  BY <1>3
<1>10. CASE Len(s) = 0
  <2>1. T \ {x} = {}
    BY <1>8, <1>10 DEF Sorted, Range
  <2> QED
    BY <1>5, <1>7, <2>1
<1>11. CASE Len(s) # 0
  <2>1. Len(s) \in Nat \ {0} /\ DOMAIN s = 1 .. Len(s)
    BY <1>8, <1>11, LenProperties DEF Sorted
  <2>2. s[Len(s)] \in T
    BY <1>8, <2>1, ElementOfSeq DEF Sorted
  <2>3. \A a \in T : a # x /\ a # s[Len(s)] => Before(a, s[Len(s)])
    <3> SUFFICES ASSUME NEW a \in T, a # x, a # s[Len(s)] PROVE Before(a, s[Len(s)])
      OBVIOUS
    <3>1. PICK k \in 1 .. Len(s) : s[k] = a
      BY <1>8, <2>1 DEF Sorted, Range
    <3>2. k < Len(s)
      BY <2>1, <3>1
    <3> QED
      BY <1>8, <2>1, <3>1, <3>2 DEF Sorted
  <2>4. CASE Before(x, s[Len(s)])
    BY <1>5, <2>2, <2>3, <2>4
  <2>5. CASE ~Before(x, s[Len(s)])
    <3>1. x = s[Len(s)] \/ Before(s[Len(s)], x)
      BY <1>7, <1>9, <2>2, <2>5, TaskOrder
    <3>2. \A a \in T : a # x => Before(a, x)
      BY <1>7, <1>9, <2>2, <2>3, <3>1, TaskOrder
    <3> QED
      BY <1>5, <1>7, <3>2
  <2> QED
    BY <2>4, <2>5
<1> QED
  BY <1>10, <1>11

\* SortedRows is such a sequence once every task has its row: it has as many.
LEMMA RowsSorted ==
    ASSUME RowsOK, pc = "table"
    PROVE  Sorted(SortedRows(rows), Tasks)
<1>1. /\ rows \in Seq(Tasks) /\ Range(rows) = Tasks /\ Len(rows) \in Nat
      /\ DOMAIN rows = 1 .. Len(rows)
      /\ \A j, k \in 1 .. Len(rows) : rows[j] = rows[k] => j = k
  BY LenProperties DEF RowsOK
<1>2. PICK s : Sorted(s, Tasks)
  BY SortedExists
<1>3. /\ s \in Seq(Tasks) /\ Range(s) = Tasks /\ Len(s) \in Nat /\ DOMAIN s = 1 .. Len(s)
      /\ \A j, k \in 1 .. Len(s) : j < k => Before(s[j], s[k])
      /\ \A k \in 1 .. Len(s) : s[k] \in Tasks
  BY <1>2, LenProperties, ElementOfSeq DEF Sorted
<1>4. \A j, k \in 1 .. Len(s) : s[j] = s[k] => j = k
  BY <1>3, TaskOrder
<1>5. rows \in Bijection(1 .. Len(rows), Tasks)
  <2>1. \A t \in Tasks : \E k \in 1 .. Len(rows) : rows[k] = t
    BY <1>1 DEF Range
  <2>2. rows \in [1 .. Len(rows) -> Tasks]
    BY <1>1
  <2> QED
    BY <1>1, <2>1, <2>2 DEF Bijection, Injection, Surjection, IsInjective
<1>6. s \in Bijection(1 .. Len(s), Tasks)
  <2>1. \A t \in Tasks : \E k \in 1 .. Len(s) : s[k] = t
    BY <1>3 DEF Range
  <2>2. s \in [1 .. Len(s) -> Tasks]
    BY <1>3
  <2> QED
    BY <1>4, <2>1, <2>2 DEF Bijection, Injection, Surjection, IsInjective
<1>7. Len(s) = Len(rows)
  <2>0. \A n \in Nat : Cardinality(1 .. n) = n /\ IsFiniteSet(1 .. n)
    BY FS_Interval
  <2>1. Cardinality(1 .. Len(rows)) = Len(rows) /\ IsFiniteSet(1 .. Len(rows))
    BY <1>1, <2>0
  <2>2. Cardinality(1 .. Len(s)) = Len(s) /\ IsFiniteSet(1 .. Len(s))
    BY <1>3, <2>0
  <2>3. Cardinality(Tasks) = Cardinality(1 .. Len(rows))
    BY <1>5, <2>1, FS_Bijection DEF ExistsBijection
  <2>4. Cardinality(Tasks) = Cardinality(1 .. Len(s))
    BY <1>6, <2>2, FS_Bijection DEF ExistsBijection
  <2> QED
    BY <2>1, <2>2, <2>3, <2>4
<1>8. s \in [DOMAIN rows -> Range(rows)]
  BY <1>1, <1>3, <1>7
<1>9. /\ Range(s) = Range(rows)
      /\ \A j, k \in DOMAIN s : j < k => Before(s[j], s[k])
  BY <1>1, <1>3
<1> DEFINE r == SortedRows(rows)
<1>10. /\ r \in [DOMAIN rows -> Range(rows)] /\ Range(r) = Range(rows)
       /\ \A j, k \in DOMAIN r : j < k => Before(r[j], r[k])
  BY <1>8, <1>9 DEF SortedRows
<1> HIDE DEF r
<1>11. r \in Seq(Tasks)
  BY <1>1, <1>10
<1>12. Sorted(r, Tasks)
  BY <1>1, <1>10, <1>11 DEF Sorted
<1> QED
  BY <1>12 DEF r

\* Every nonempty set of naturals has a least element.
LEMMA LeastNat ==
    ASSUME NEW S \in SUBSET Nat, S # {}
    PROVE  \E m \in S : \A k \in S : m <= k
<1> DEFINE T == {1 .. n : n \in S}
<1>1. IsWellFoundedOn(StrictSubsetOrdering(Nat), FiniteSubsetsOf(Nat))
  BY FS_StrictSubsetOrderingWellFounded
<1>2. T \subseteq FiniteSubsetsOf(Nat)
  <2>1. \A n \in S : IsFiniteSet(1 .. n)
    BY FS_Interval
  <2>2. \A n \in S : 1 .. n \in SUBSET Nat
    OBVIOUS
  <2> QED
    BY <2>1, <2>2 DEF FiniteSubsetsOf
<1>3. T # {}
  OBVIOUS
<1>4. PICK x \in T : \A y \in T : <<y, x>> \notin StrictSubsetOrdering(Nat)
  <2> HIDE DEF T
  <2> QED
    BY <1>1, <1>2, <1>3, WFMin
<1>5. PICK m \in S : x = 1 .. m
  BY <1>4
<1>6. ASSUME NEW k \in S, k < m PROVE FALSE
  <2>1. /\ 1 .. k \in T /\ 1 .. k \subseteq 1 .. m
        /\ 1 .. k \in SUBSET Nat /\ 1 .. m \in SUBSET Nat
    BY <1>6
  <2>2. m \in 1 .. m /\ m \notin 1 .. k
    BY <1>6
  <2>3. <<1 .. k, 1 .. m>> \in StrictSubsetOrdering(Nat)
    BY <2>1, <2>2 DEF StrictSubsetOrdering
  <2> QED
    BY <1>4, <1>5, <2>1, <2>3
<1> QED
  BY <1>6

\* With one duration the row of ignition i is the one at position i + 1: the
\* first ignition elsewhere would leave its place to a lower one, twice there.
LEMMA RowsByPosition ==
    ASSUME NEW s, Sorted(s, Tasks), NEW d \in Nat, Durations = {d}
    PROVE  \A i \in Ignitions : i + 1 \in DOMAIN s /\ s[i + 1] = <<i, d>>
<1> DEFINE Bad == {i \in Ignitions : ~(i + 1 \in DOMAIN s /\ s[i + 1] = <<i, d>>)}
<1> SUFFICES ASSUME Bad # {} PROVE FALSE
  OBVIOUS
<1>1. Ignitions \subseteq Nat
  BY TrainingDataAssumption DEF Ignitions, TrainingDataAssumption
<1>2. PICK i \in Bad : \A k \in Bad : i <= k
  <2>1. Bad \in SUBSET Nat
    BY <1>1
  <2> HIDE DEF Bad
  <2> QED
    BY <2>1, LeastNat
<1>3. i \in Nat /\ i \in Ignitions /\ ~(i + 1 \in DOMAIN s /\ s[i + 1] = <<i, d>>)
  BY <1>1, <1>2
<1>4. \A k \in Ignitions : k < i => k + 1 \in DOMAIN s /\ s[k + 1] = <<k, d>>
  BY <1>1, <1>2
<1>5. \A k \in Nat : k < i => k \in Ignitions
  BY <1>3, TrainingDataAssumption DEF Ignitions, TrainingDataAssumption
<1>6. /\ Range(s) = Tasks /\ Len(s) \in Nat /\ DOMAIN s = 1 .. Len(s)
      /\ \A j, k \in 1 .. Len(s) : j < k => Before(s[j], s[k])
      /\ \A k \in 1 .. Len(s) : s[k] \in Tasks
  BY LenProperties, ElementOfSeq DEF Sorted
<1>7. <<i, d>> \in Tasks
  BY <1>3 DEF Tasks
<1>8. PICK j \in 1 .. Len(s) : s[j] = <<i, d>>
  BY <1>6, <1>7 DEF Range
<1>9. i + 1 < j
  <2>1. j # i + 1
    BY <1>3, <1>6, <1>8
  <2>2. ASSUME j < i + 1 PROVE FALSE
    <3>1. j - 1 \in Nat /\ j - 1 < i /\ (j - 1) + 1 = j
      BY <1>3, <1>6, <1>8, <2>2
    <3>2. s[j] = <<j - 1, d>>
      BY <1>4, <1>5, <3>1
    <3> QED
      BY <1>8, <3>1, <3>2
  <2> QED
    BY <1>3, <1>6, <1>8, <2>1, <2>2
<1>10. i + 1 \in 1 .. Len(s)
  BY <1>3, <1>6, <1>8, <1>9
<1>11. PICK v \in Nat : v \in Ignitions /\ s[i + 1] = <<v, d>>
  <2>1. s[i + 1] \in Ignitions \X {d}
    BY <1>6, <1>10 DEF Tasks
  <2>2. PICK v \in Ignitions, e \in {d} : s[i + 1] = <<v, e>>
    BY <2>1
  <2> QED
    BY <1>1, <2>2
<1>12. v < i
  <2>1. Before(s[i + 1], s[j])
    BY <1>6, <1>9, <1>10
  <2> QED
    BY <1>3, <1>8, <1>11, <2>1 DEF Before
<1>13. v + 1 \in 1 .. Len(s) /\ s[v + 1] = s[i + 1]
  BY <1>4, <1>6, <1>11, <1>12
<1>14. Before(s[v + 1], s[i + 1])
  <2>1. v + 1 < i + 1
    BY <1>3, <1>12
  <2> QED
    BY <1>6, <1>10, <1>13, <2>1
<1> QED
  BY <1>6, <1>10, <1>13, <1>14, TaskOrder

-----------------------------------------------------------------------------
\* Every step keeps the invariant

LEMMA Grown ==
    ASSUME Written \subseteq Written', UNCHANGED collate
    PROVE  /\ InputsIn => InputsIn'
           /\ \A t \in Names : FiresIn(t) => FiresIn(t)'
           /\ \A t \in Names : DoneWith(t) => DoneWith(t)'
<1>1. InputsIn => InputsIn'
  BY DEF InputsIn
<1>2. \A t \in Names : FiresIn(t) => FiresIn(t)'
  BY DEF FiresIn
<1> QED
  BY <1>1, <1>2 DEF DoneWith

LEMMA InitIInv == Init => IInv
<1> SUFFICES ASSUME Init PROVE IInv
  OBVIOUS
<1>1. Written = {} /\ files = {} /\ pc = "idle" /\ run = 0 /\ rows = <<>> /\ Len(rows) = 0
  BY EmptySeq DEF Init, Written
<1>2. tables \in [Names -> Seq(Tasks)]
  BY EmptySeq, TreatmentFacts DEF Init
<1>3. RunOK
  BY <1>1, TrainingDataAssumption DEF RunOK, SingleRun, Working, TrainingDataAssumption
<1>4. Whole
  BY <1>1 DEF Whole, Progress, Working
<1>5. RowsOK
  BY <1>1, EmptySeq DEF RowsOK
<1>6. TypesOK
  <2>1. collate \in BOOLEAN /\ exists \in BOOLEAN /\ torn \in BOOLEAN
    BY Zenon DEF Init
  <2>2. treatment \in 1 .. 2 /\ ready \subseteq pending /\ pending \subseteq Tasks
    BY DEF Init
  <2> QED
    BY <1>1, <2>1, <2>2 DEF TypesOK
<1> QED
  BY <1>1, <1>2, <1>3, <1>4, <1>5, <1>6 DEF IInv, TablesOK

LEMMA BeginStep ==
    ASSUME IInv, NEW overwrite \in BOOLEAN, NEW collated \in BOOLEAN, Begin(overwrite, collated)
    PROVE  IInv'
<1>1. /\ pc = "idle" /\ run < MaxRuns /\ run' = run + 1 /\ collate' = collated
      /\ pc' = IF exists THEN "remove" ELSE "inputs"
      /\ treatment' = 1 /\ pending' = {} /\ ready' = {} /\ rows' = <<>>
      /\ UNCHANGED <<exists, files, tables, torn>>
  BY DEF Begin
<1>2. Written' = Written
  BY <1>1 DEF Written
<1>3. ~exists => files = {} /\ Written = {}
  BY DEF IInv, RunOK, Written
<1>4. TypesOK'
  BY <1>1 DEF IInv, TypesOK
<1>5. RunOK'
  <2>1. run' \in 0 .. MaxRuns /\ run' # 0
    BY <1>1, TrainingDataAssumption DEF IInv, RunOK, TrainingDataAssumption
  <2>2. pc' \in {"remove", "inputs"}
    BY <1>1
  <2> QED
    BY <1>1, <1>3, <2>1, <2>2 DEF IInv, RunOK, SingleRun, Working
<1>6. Whole'
  BY <1>1, <1>2, <1>3 DEF Whole, Progress, Working
<1>7. RowsOK'
  <2>1. Len(rows') = 0 /\ rows' \in Seq(Tasks)
    BY <1>1, EmptySeq
  <2> QED
    BY <1>1, <2>1 DEF RowsOK
<1>8. TablesOK'
  BY <1>1, <1>2 DEF IInv, TablesOK
<1> QED
  BY <1>4, <1>5, <1>6, <1>7, <1>8 DEF IInv

LEMMA RemoveStep ==
    ASSUME IInv, RemoveData
    PROVE  IInv'
<1>1. /\ pc = "remove" /\ UNCHANGED <<run, collate, treatment, pending, ready, rows, tables>>
      /\ files' \subseteq files
      /\ \/ pc' = "remove" /\ exists' = exists /\ torn' = torn
         \/ files' = {} /\ pc' = "inputs" /\ exists' = FALSE /\ torn' = FALSE
  BY DEF RemoveData, taskVars
<1>2. Written' \subseteq Written
  BY <1>1 DEF Written
<1>3. TypesOK'
  BY <1>1 DEF IInv, TypesOK
<1>4. RunOK'
  BY <1>1 DEF IInv, RunOK, SingleRun, Working
<1>5. Whole'
  <2>1. pc' = "inputs" => Written' = {}
    BY <1>1 DEF Written
  <2> QED
    BY <1>1, <2>1 DEF Whole, Progress, Working
<1>6. RowsOK'
  BY <1>1 DEF IInv, RowsOK
<1>7. TablesOK'
  BY <1>1, <1>2 DEF IInv, TablesOK
<1> QED
  BY <1>3, <1>4, <1>5, <1>6, <1>7 DEF IInv

LEMMA InputStep ==
    ASSUME IInv, WriteInput
    PROVE  IInv'
<1>1. /\ pc = "inputs" /\ exists' = TRUE
      /\ UNCHANGED <<run, collate, treatment, pending, ready, rows, tables, torn>>
  BY DEF WriteInput, taskVars
<1>2. PICK k \in DOMAIN Inputs :
         /\ \A j \in 1 .. k - 1 : Inputs[j] \in Written
         /\ Write(Inputs[k])
         /\ pc' = IF k = Len(Inputs) THEN "submit" ELSE "inputs"
  BY DEF WriteInput
<1>3. Written' = Written \cup {Inputs[k]}
  BY <1>2, WriteFacts
<1>4. TypesOK'
  BY <1>1, <1>2 DEF IInv, TypesOK
<1>5. RunOK'
  BY <1>1, <1>2, WriteKeepsRun DEF IInv, Working
<1>6. ~torn => /\ treatment = 1
               /\ \A t \in Names : Table(t) \notin Written'
               /\ pc' = "submit" => InputsIn'
  <2>1. ~torn => treatment = 1 /\ \A t \in Names : Table(t) \notin Written
    BY <1>1 DEF IInv, TypesOK, Whole, Progress
  <2>2. pc' = "submit" => InputsIn'
    <3> SUFFICES ASSUME pc' = "submit", NEW j \in DOMAIN Inputs PROVE Inputs[j] \in Written'
      BY DEF InputsIn
    <3>1. k = 4 /\ j \in 1 .. 4
      BY <1>2, InputFacts
    <3> QED
      BY <1>2, <1>3, <3>1
  <2> QED
    BY <1>3, <2>1, <2>2, Paths
<1>7. Whole'
  BY <1>1, <1>2, <1>6 DEF IInv, TypesOK, Whole, Progress, Working, Names
<1>8. RowsOK'
  BY <1>1, <1>2 DEF IInv, RowsOK
<1>9. TablesOK'
  BY <1>1, <1>3, Paths DEF IInv, TablesOK
<1> QED
  BY <1>4, <1>5, <1>7, <1>8, <1>9 DEF IInv

LEMMA SubmitStep ==
    ASSUME IInv, SubmitTasks
    PROVE  IInv'
<1>1. /\ pc = "submit" /\ pc' = "wait" /\ pending' = Tasks /\ ready' = {} /\ rows' = <<>>
      /\ UNCHANGED <<run, collate, exists, files, treatment, tables, torn>>
  BY DEF SubmitTasks
<1>2. Written' = Written
  BY <1>1 DEF Written
<1>3. TypesOK'
  BY <1>1 DEF IInv, TypesOK
<1>4. RunOK'
  BY <1>1 DEF IInv, RunOK, SingleRun, Working
<1>5. Whole'
  <2> SUFFICES ASSUME ~torn PROVE Progress'
    BY <1>1 DEF Whole
  <2>1. Progress
    BY <1>1 DEF IInv, Whole
  <2> QED
    BY <1>1, <1>2, <2>1, Grown DEF Progress, Working, Names
<1>6. RowsOK'
  <2>1. Len(rows') = 0 /\ rows' \in Seq(Tasks) /\ Range(rows') = {}
    BY <1>1, EmptySeq DEF Range
  <2> QED
    BY <1>1, <2>1 DEF RowsOK
<1>7. TablesOK'
  BY <1>1, <1>2 DEF IInv, TablesOK
<1> QED
  BY <1>3, <1>4, <1>5, <1>6, <1>7 DEF IInv

LEMMA EndTaskStep ==
    ASSUME IInv, NEW task \in Tasks, EndTask(task)
    PROVE  IInv'
<1> DEFINE path == Fire(Treatments[treatment], task[1])
<1>1. /\ pc = "wait" /\ pc' = "wait" /\ task \in pending \ ready
      /\ ready' = ready \cup {task}
      /\ UNCHANGED <<run, collate, exists, treatment, pending, rows, tables, torn>>
      /\ IF collate THEN UNCHANGED files ELSE Write(path)
  BY DEF EndTask
<1>2. IF collate THEN Written' = Written /\ files' = files
                 ELSE Written' = Written \cup {path}
  <2> HIDE DEF path
  <2> QED
    BY <1>1, WriteFacts DEF Written
<1>3. /\ Treatments[treatment] \in Names
      /\ \A t \in Names : path # Table(t)
  <2>1. task[1] \in Ignitions
    BY DEF Tasks
  <2>2. Treatments[treatment] \in Names
    BY TreatmentFacts DEF IInv, TypesOK, Names
  <2> QED
    BY <2>1, <2>2, Paths
<1>4. TypesOK'
  BY <1>1 DEF IInv, TypesOK
<1>5. RunOK'
  <2>1. CASE collate
    BY <1>1, <2>1 DEF IInv, RunOK, SingleRun, Working
  <2>2. CASE ~collate
    <3> HIDE DEF path
    <3> QED
      BY <1>1, <2>2, WriteKeepsRun DEF IInv, RunOK, Working
  <2> QED
    BY <2>1, <2>2
<1>6. Whole'
  <2> SUFFICES ASSUME ~torn PROVE Progress'
    BY <1>1 DEF Whole
  <2>1. Progress
    BY <1>1 DEF IInv, Whole
  <2>2. Written \subseteq Written' /\ \A t \in Names : Table(t) \in Written' => Table(t) \in Written
    BY <1>2, <1>3
  <2>3. ~collate => \A u \in Tasks : \/ u \in pending' \ ready'
                                    \/ Fire(Treatments[treatment], u[1]) \in Written'
    <3> SUFFICES ASSUME ~collate, NEW u \in Tasks, u \notin pending \ ready'
                 PROVE  Fire(Treatments[treatment], u[1]) \in Written'
      BY <1>1
    <3>1. u = task \/ u \notin pending \ ready
      BY <1>1
    <3> QED
      BY <1>1, <1>2, <2>1, <3>1 DEF Progress
  <2> HIDE DEF path
  <2>4. InputsIn => InputsIn'
    BY <1>1, <2>2, Grown
  <2>5. \A t \in Names : DoneWith(t) => DoneWith(t)'
    BY <1>1, <2>2, Grown
  <2> QED
    BY <1>1, <2>1, <2>2, <2>3, <2>4, <2>5 DEF Progress, Working, Names
<1>7. RowsOK'
  BY <1>1 DEF IInv, RowsOK
<1>8. TablesOK'
  <2> HIDE DEF path
  <2> QED
    BY <1>1, <1>2, <1>3 DEF IInv, TablesOK
<1> QED
  BY <1>4, <1>5, <1>6, <1>7, <1>8 DEF IInv

LEMMA ConcatTasks ==
    ASSUME NEW s \in Seq(Tasks), NEW t \in Seq(Tasks)
    PROVE  /\ s \o t \in Seq(Tasks) /\ Len(s \o t) = Len(s) + Len(t)
           /\ DOMAIN (s \o t) = 1 .. Len(s) + Len(t)
           /\ \A k \in 1 .. Len(s) + Len(t) :
                (s \o t)[k] = IF k <= Len(s) THEN s[k] ELSE t[k - Len(s)]
<1>1. s \o t \in Seq(Tasks) /\ Len(s \o t) = Len(s) + Len(t)
  BY ConcatProperties
<1>2. \A k \in 1 .. Len(s) + Len(t) :
        (s \o t)[k] = IF k <= Len(s) THEN s[k] ELSE t[k - Len(s)]
  BY ConcatProperties
<1> QED
  BY <1>1, <1>2, LenProperties

LEMMA CollectStep ==
    ASSUME IInv, Collect
    PROVE  IInv'
<1>1. pc = "wait" /\ UNCHANGED <<run, collate, exists, files, treatment, tables, torn>>
  BY DEF Collect
<1>2. PICK done \in SUBSET ready :
         /\ pending' = pending \ done
         /\ ready' = ready \ done
         /\ \E results \in SetToSeqs(done) : rows' = rows \o results
         /\ pc' = IF pending' = {} THEN "table" ELSE "wait"
  BY DEF Collect
<1>3. PICK results \in SetToSeqs(done) : rows' = rows \o results
  BY <1>2
<1>4. Written' = Written
  BY <1>1 DEF Written
<1>5. done \subseteq pending /\ done \subseteq Tasks
  BY DEF IInv, TypesOK
<1>6. TypesOK'
  BY <1>1, <1>2 DEF IInv, TypesOK
<1>7. RunOK'
  BY <1>1, <1>2 DEF IInv, RunOK, SingleRun, Working
<1>8. Whole'
  <2> SUFFICES ASSUME ~torn PROVE Progress'
    BY <1>1 DEF Whole
  <2>1. Progress
    BY <1>1 DEF IInv, Whole
  <2>2. pending' \ ready' \subseteq pending \ ready /\ pending \ ready \subseteq pending' \ ready'
    BY <1>2
  <2>3. pc' = "table" /\ ~collate => FiresIn(Treatments[treatment])'
    <3> SUFFICES ASSUME pc' = "table", ~collate, NEW i \in Ignitions
                 PROVE  Fire(Treatments[treatment], i) \in Written
      BY <1>1, <1>4 DEF FiresIn
    <3>1. pending \ ready = {}
      BY <1>2, <2>2
    <3>2. PICK d \in Durations : TRUE
      BY TrainingDataAssumption DEF TrainingDataAssumption
    <3>3. <<i, d>> \in Tasks /\ <<i, d>>[1] = i
      BY DEF Tasks
    <3> QED
      BY <1>1, <2>1, <3>1, <3>3 DEF Progress
  <2>4. InputsIn => InputsIn'
    BY <1>1, <1>4, Grown
  <2>5. \A t \in Names : DoneWith(t) => DoneWith(t)'
    BY <1>1, <1>4, Grown
  <2> QED
    BY <1>1, <1>2, <1>4, <2>1, <2>2, <2>3, <2>4, <2>5 DEF Progress, Working, Names
<1>9. RowsOK'
  <2> DEFINE n == Cardinality(done)
  <2>1. IsFiniteSet(done) /\ n \in Nat
    BY <1>5, TasksFinite, FS_Subset, FS_CardinalityType
  <2>2. /\ results \in [1 .. n -> done]
        /\ \A j, k \in 1 .. n : j # k => results[j] # results[k]
    BY <1>3 DEF SetToSeqs
  <2> HIDE DEF n
  <2>3. results \in Seq(Tasks) /\ Len(results) = n /\ DOMAIN results = 1 .. n
    BY <1>5, <2>1, <2>2
  <2>4. \A t \in done : \E k \in 1 .. n : results[k] = t
    <3>1. results \in Injection(1 .. n, done)
      BY <2>2 DEF Injection, IsInjective
    <3>2. Cardinality(1 .. n) = n /\ IsFiniteSet(1 .. n)
      BY <2>1, FS_Interval
    <3>3. results \in Surjection(1 .. n, done)
      BY <2>1, <3>1, <3>2, FS_Injection DEF n
    <3> QED
      BY <3>3 DEF Surjection
  <2>5. /\ rows \in Seq(Tasks) /\ Len(rows) \in Nat /\ DOMAIN rows = 1 .. Len(rows)
        /\ \A j, k \in 1 .. Len(rows) : rows[j] = rows[k] => j = k
        /\ {rows[k] : k \in 1 .. Len(rows)} = Tasks \ pending
    BY <1>1, LenProperties DEF IInv, RowsOK, Range
  <2>6. /\ rows' \in Seq(Tasks) /\ Len(rows') = Len(rows) + n
        /\ DOMAIN rows' = 1 .. Len(rows) + n
        /\ \A k \in 1 .. Len(rows) + n :
             rows'[k] = IF k <= Len(rows) THEN rows[k] ELSE results[k - Len(rows)]
    BY <1>3, <2>1, <2>3, <2>5, ConcatTasks
  <2>7. \A k \in 1 .. Len(rows) + n :
           \/ k \in 1 .. Len(rows) /\ rows'[k] = rows[k]
           \/ k \notin 1 .. Len(rows) /\ k - Len(rows) \in 1 .. n
              /\ rows'[k] = results[k - Len(rows)]
    BY <2>1, <2>5, <2>6
  <2>8. \A k \in 1 .. Len(rows) : rows[k] \notin done
    BY <1>5, <2>5
  <2>9. \A k \in 1 .. n : results[k] \in done
    BY <2>2
  <2>10. \A j, k \in 1 .. Len(rows) + n : rows'[j] = rows'[k] => j = k
    <3> SUFFICES ASSUME NEW j \in 1 .. Len(rows) + n, NEW k \in 1 .. Len(rows) + n,
                        rows'[j] = rows'[k]
                 PROVE  j = k
      OBVIOUS
    <3>1. CASE j \in 1 .. Len(rows) /\ k \in 1 .. Len(rows)
      BY <2>5, <2>7, <3>1
    <3>2. CASE j \notin 1 .. Len(rows) /\ k \notin 1 .. Len(rows)
      <4>1. j - Len(rows) = k - Len(rows)
        BY <2>2, <2>7, <3>2
      <4> QED
        BY <2>1, <2>5, <4>1
    <3>3. CASE j \in 1 .. Len(rows) /\ k \notin 1 .. Len(rows)
      BY <2>7, <2>8, <2>9, <3>3
    <3>4. CASE j \notin 1 .. Len(rows) /\ k \in 1 .. Len(rows)
      BY <2>7, <2>8, <2>9, <3>4
    <3> QED
      BY <3>1, <3>2, <3>3, <3>4
  <2>11. Range(rows') = (Tasks \ pending) \cup done
    <3>1. \A k \in 1 .. Len(rows) + n : rows'[k] \in (Tasks \ pending) \cup done
      BY <2>5, <2>7, <2>9
    <3>2. \A t \in Tasks \ pending : \E k \in 1 .. Len(rows) + n : rows'[k] = t
      <4> SUFFICES ASSUME NEW t \in Tasks \ pending
                   PROVE  \E k \in 1 .. Len(rows) + n : rows'[k] = t
        OBVIOUS
      <4>1. PICK k \in 1 .. Len(rows) : rows[k] = t
        BY <2>5
      <4>2. k \in 1 .. Len(rows) + n
        BY <2>1, <2>5
      <4> QED
        BY <2>7, <4>1, <4>2
    <3>3. \A t \in done : \E k \in 1 .. Len(rows) + n : rows'[k] = t
      <4> SUFFICES ASSUME NEW t \in done PROVE \E k \in 1 .. Len(rows) + n : rows'[k] = t
        OBVIOUS
      <4>1. PICK k \in 1 .. n : results[k] = t
        BY <2>4
      <4>2. /\ k + Len(rows) \in 1 .. Len(rows) + n /\ k + Len(rows) \notin 1 .. Len(rows)
            /\ (k + Len(rows)) - Len(rows) = k
        BY <2>1, <2>5
      <4> QED
        BY <2>7, <4>1, <4>2
    <3> QED
      BY <2>6, <3>1, <3>2, <3>3 DEF Range
  <2>12. (Tasks \ pending) \cup done = Tasks \ pending'
    BY <1>2, <1>5
  <2> QED
    BY <1>2, <2>6, <2>10, <2>11, <2>12 DEF RowsOK
<1>10. TablesOK'
  BY <1>1, <1>4 DEF IInv, TablesOK
<1> QED
  BY <1>6, <1>7, <1>8, <1>9, <1>10 DEF IInv


\* The table or the raster of a treatment is written last: then it is done,
\* and the run goes on to the other one or ends.
LEMMA NextFacts ==
    ASSUME treatment \in 1 .. 2, NextTreatment
    PROVE  \/ treatment = 1 /\ treatment' = 2 /\ pc' = "submit"
           \/ treatment = 2 /\ treatment' = 2 /\ pc' = "idle"
BY TreatmentFacts DEF NextTreatment

LEMMA TableStep ==
    ASSUME IInv, WriteTable
    PROVE  IInv'
<1>1. PICK t \in Names : /\ t = Treatments[treatment]
                         /\ treatment = 1 => t = "baseline"
                         /\ treatment = 2 => t = "legalmax"
                         /\ treatment \in 1 .. 2
  BY TreatmentFacts DEF IInv, TypesOK, Names
<1>2. /\ pc = "table" /\ Write(Table(t))
      /\ tables' = [tables EXCEPT ![t] = SortedRows(rows)]
      /\ UNCHANGED <<run, collate, exists, pending, ready, rows, torn>>
  BY <1>1 DEF WriteTable
<1>3. \/ collate /\ pc' = "cbp" /\ treatment' = treatment
      \/ ~collate /\ treatment = 1 /\ treatment' = 2 /\ pc' = "submit"
      \/ ~collate /\ treatment = 2 /\ treatment' = 2 /\ pc' = "idle"
  <2>1. IF collate THEN pc' = "cbp" /\ UNCHANGED treatment ELSE NextTreatment
    BY DEF WriteTable
  <2>2. treatment \in 1 .. 2
    BY DEF IInv, TypesOK
  <2> QED
    BY <2>1, <2>2, NextFacts
<1>4. Written' = Written \cup {Table(t)}
  BY <1>2, WriteFacts
<1>5. \A u \in Names : Table(u) \in Written' => u = t \/ Table(u) \in Written
  BY <1>1, <1>4, Paths
<1>6. TypesOK'
  BY <1>2, <1>3 DEF IInv, TypesOK
<1>7. RunOK'
  BY <1>2, <1>3, WriteKeepsRun DEF IInv, RunOK, Working
<1>8. Whole'
  <2> SUFFICES ASSUME ~torn PROVE Progress'
    BY <1>2 DEF Whole
  <2>1. Progress
    BY <1>2 DEF IInv, Whole
  <2>2. InputsIn' /\ \A u \in Names : DoneWith(u) => DoneWith(u)'
    BY <1>2, <1>4, <2>1, Grown DEF Progress, Working
  <2>3. ~collate => DoneWith(t)'
    <3>1. ~collate => FiresIn(t)'
      BY <1>2, <1>1, <1>4, <2>1, Grown DEF Progress
    <3> QED
      BY <1>2, <1>4, <3>1 DEF DoneWith
  <2>4. t = "legalmax" => DoneWith("baseline")'
    BY <1>2, <1>1, <2>1, <2>2 DEF Progress, Working, Names
  <2>5. collate /\ t = "legalmax" => DoneWith(t)'
    BY <1>2, <1>4 DEF DoneWith
  <2>6. Table("legalmax") \in Written' =>
          InputsIn' /\ DoneWith("baseline")' /\ DoneWith("legalmax")'
    <3>1. CASE t = "legalmax"
      BY <2>2, <2>3, <2>4, <2>5, <3>1
    <3>2. CASE t # "legalmax"
      BY <1>5, <2>1, <2>2, <3>2 DEF Progress, Names
    <3> QED
      BY <3>1, <3>2
  <2>7. pc' \in Working /\ treatment' = 2 => DoneWith("baseline")'
    BY <1>2, <1>3, <1>1, <2>3, <2>4 DEF Working
  <2>8. pc' = "cbp" => collate' /\ (Table(Treatments[treatment]) \in Written)'
    BY <1>2, <1>3, <1>1, <1>4
  <2>9. pc' \notin {"inputs", "wait", "table"}
    BY <1>3
  <2> QED
    BY <1>2, <2>2, <2>6, <2>7, <2>8, <2>9 DEF Progress
<1>9. RowsOK'
  BY <1>2, <1>3 DEF IInv, RowsOK
<1>10. TablesOK'
  <2>1. Sorted(SortedRows(rows), Tasks)
    BY <1>2, RowsSorted DEF IInv
  <2>2. SortedRows(rows) \in Seq(Tasks)
    BY <2>1 DEF Sorted
  <2>3. tables' \in [Names -> Seq(Tasks)]
    BY <1>2, <1>1, <2>2 DEF IInv, TablesOK
  <2>4. \A u \in Names : tables'[u] = IF u = t THEN SortedRows(rows) ELSE tables[u]
    BY <1>2, <1>1 DEF IInv, TablesOK
  <2>5. \A u \in Names : Table(u) \in Written' => Sorted(tables'[u], Tasks)
    BY <1>5, <2>1, <2>4 DEF IInv, TablesOK
  <2> QED
    BY <2>3, <2>5 DEF TablesOK
<1> QED
  BY <1>6, <1>7, <1>8, <1>9, <1>10 DEF IInv

LEMMA CbpStep ==
    ASSUME IInv, WriteCbp
    PROVE  IInv'
<1>1. PICK t \in Names : /\ t = Treatments[treatment]
                         /\ treatment = 1 => t = "baseline"
                         /\ treatment = 2 => t = "legalmax"
                         /\ treatment \in 1 .. 2
  BY TreatmentFacts DEF IInv, TypesOK, Names
<1>2. /\ pc = "cbp" /\ Write(Cbp(t))
      /\ UNCHANGED <<run, collate, exists, pending, ready, rows, tables, torn>>
  BY <1>1 DEF WriteCbp
<1>3. \/ treatment = 1 /\ treatment' = 2 /\ pc' = "submit"
      \/ treatment = 2 /\ treatment' = 2 /\ pc' = "idle"
  BY NextFacts DEF WriteCbp, IInv, TypesOK
<1>4. Written' = Written \cup {Cbp(t)}
  BY <1>2, WriteFacts
<1>5. \A u \in Names : Table(u) \in Written' => Table(u) \in Written
  BY <1>1, <1>4, Paths
<1>6. TypesOK'
  BY <1>2, <1>3 DEF IInv, TypesOK
<1>7. RunOK'
  BY <1>2, <1>3, WriteKeepsRun DEF IInv, RunOK, Working
<1>8. Whole'
  <2> SUFFICES ASSUME ~torn PROVE Progress'
    BY <1>2 DEF Whole
  <2>1. Progress
    BY <1>2 DEF IInv, Whole
  <2>2. InputsIn' /\ \A u \in Names : DoneWith(u) => DoneWith(u)'
    BY <1>2, <1>4, <2>1, Grown DEF Progress, Working
  <2>3. collate /\ Table(t) \in Written
    BY <1>2, <1>1, <2>1 DEF Progress
  <2>4. DoneWith(t)'
    BY <1>2, <1>4, <2>3 DEF DoneWith
  <2>5. treatment = 2 => DoneWith("baseline")'
    BY <1>2, <2>1, <2>2 DEF Progress, Working, Names
  <2>6. treatment' = 2 => DoneWith("baseline")'
    BY <1>3, <1>1, <2>4, <2>5
  <2>7. Table("legalmax") \in Written' =>
          InputsIn' /\ DoneWith("baseline")' /\ DoneWith("legalmax")'
    BY <1>5, <2>1, <2>2 DEF Progress, Names
  <2>8. pc' \notin {"inputs", "wait", "table", "cbp"}
    BY <1>3
  <2> QED
    BY <2>2, <2>6, <2>7, <2>8 DEF Progress
<1>9. RowsOK'
  BY <1>2, <1>3 DEF IInv, RowsOK
<1>10. TablesOK'
  BY <1>2, <1>5 DEF IInv, TablesOK
<1> QED
  BY <1>6, <1>7, <1>8, <1>9, <1>10 DEF IInv

LEMMA DieStep ==
    ASSUME IInv, Die
    PROVE  IInv'
<1>1. /\ pc # "idle" /\ pc' = "idle" /\ torn' = (torn \/ pc = "remove")
      /\ UNCHANGED <<run, collate, exists, files, treatment, pending, ready, rows, tables>>
  BY DEF Die, taskVars
<1>2. Written' = Written
  BY <1>1 DEF Written
<1>3. TypesOK'
  <2>1. torn' \in BOOLEAN
    BY <1>1, Zenon
  <2> QED
    BY <1>1, <2>1 DEF IInv, TypesOK
<1>4. RunOK'
  BY <1>1 DEF IInv, RunOK, SingleRun, Working
<1>5. Whole'
  <2> SUFFICES ASSUME ~torn, pc # "remove" PROVE Progress'
    BY <1>1 DEF Whole
  <2>1. Progress
    BY DEF IInv, Whole
  <2> QED
    BY <1>1, <1>2, <2>1, Grown DEF Progress, Working, Names
<1>6. RowsOK'
  BY <1>1 DEF IInv, RowsOK
<1>7. TablesOK'
  BY <1>1, <1>2 DEF IInv, TablesOK
<1> QED
  BY <1>3, <1>4, <1>5, <1>6, <1>7 DEF IInv

LEMMA StutterIInv ==
    ASSUME IInv, UNCHANGED vars
    PROVE  IInv'
<1>1. UNCHANGED <<pc, run, collate, exists, files, treatment, pending, ready, rows, tables, torn>>
  BY DEF vars
<1>2. Written' = Written
  BY <1>1 DEF Written
<1>3. TypesOK' /\ RowsOK'
  BY <1>1 DEF IInv, TypesOK, RowsOK
<1>4. RunOK'
  BY <1>1 DEF IInv, RunOK, SingleRun, Working
<1>5. Whole'
  <2> SUFFICES ASSUME ~torn, pc # "remove" PROVE Progress'
    BY <1>1 DEF Whole
  <2>1. Progress
    BY DEF IInv, Whole
  <2>2. /\ InputsIn => InputsIn'
        /\ \A u \in Names : FiresIn(u) => FiresIn(u)'
        /\ \A u \in Names : DoneWith(u) => DoneWith(u)'
    BY <1>1, <1>2, Grown
  <2>3. Treatments[treatment] \in Names
    BY TreatmentFacts DEF IInv, TypesOK, Names
  <2> QED
    BY <1>1, <1>2, <2>1, <2>2, <2>3 DEF Progress, Working, Names
<1>6. TablesOK'
  BY <1>1, <1>2 DEF IInv, TablesOK
<1> QED
  BY <1>3, <1>4, <1>5, <1>6 DEF IInv

LEMMA StepIInv == IInv /\ [Next]_vars => IInv'
<1> SUFFICES ASSUME IInv, [Next]_vars PROVE IInv'
  OBVIOUS
<1>1. CASE \E overwrite, collated \in BOOLEAN : Begin(overwrite, collated)
  BY <1>1, BeginStep
<1>2. CASE Step
  BY <1>2, RemoveStep, InputStep, SubmitStep, CollectStep, TableStep, CbpStep, EndTaskStep
     DEF Step
<1>3. CASE Die
  BY <1>3, DieStep
<1>4. CASE UNCHANGED vars
  BY <1>4, StutterIInv
<1> QED
  BY <1>1, <1>2, <1>3, <1>4 DEF Next

LEMMA IInvAlways == Spec => []IInv
BY InitIInv, StepIInv, PTL DEF Spec

-----------------------------------------------------------------------------
\* Theorems

\* Every variable keeps its type: rows and tables hold tasks, and nothing
\* ends that is not pending.
THEOREM DataTypes == Spec => []TypeOK
<1>1. IInv => TypeOK
  <2> SUFFICES ASSUME IInv PROVE TypeOK
    OBVIOUS
  <2>1. /\ pc \in {"idle", "remove", "inputs", "submit", "wait", "table", "cbp"}
        /\ run \in 0 .. MaxRuns
        /\ \A f \in files : f.run \in 1 .. MaxRuns
        /\ files # {} => exists
    BY DEF IInv, RunOK, Working
  <2>2. collate \in BOOLEAN /\ exists \in BOOLEAN /\ torn \in BOOLEAN
    BY Zenon DEF IInv, TypesOK
  <2>3. treatment \in DOMAIN Treatments /\ ready \subseteq pending /\ pending \subseteq Tasks
    BY TreatmentFacts DEF IInv, TypesOK
  <2>4. rows \in Seq(Tasks) /\ tables \in [Range(Treatments) -> Seq(Tasks)]
    BY TreatmentFacts DEF IInv, RowsOK, TablesOK
  <2> QED
    BY <2>1, <2>2, <2>3, <2>4, Zenon DEF TypeOK
<1> QED
  BY <1>1, IInvAlways, PTL

\* The files of a directory are of one run, whatever runs died before it and
\* wherever: a run removes all of an existing directory or refuses it.
THEOREM FilesOfOneRun == Spec => []SingleRun
<1>1. IInv => SingleRun
  BY DEF IInv, RunOK
<1> QED
  BY <1>1, IInvAlways, PTL

\* The outputs table of legalmax, the marker the scripts look for, is there
\* with every file of its run, unless a run died in the removal.
THEOREM MarkerOfCompleteData == Spec => []MarkerMeansComplete
<1>1. IInv => MarkerMeansComplete
  <2> SUFFICES ASSUME IInv, Table("legalmax") \in Written, ~torn, pc # "remove"
               PROVE  CompleteFiles \subseteq Written
    BY DEF MarkerMeansComplete
  <2>1. InputsIn /\ DoneWith("baseline") /\ DoneWith("legalmax")
    BY DEF IInv, Whole, Progress
  <2>2. {Inputs[k] : k \in DOMAIN Inputs} \subseteq Written
    BY <2>1 DEF InputsIn
  <2>3. \A k \in DOMAIN Treatments : Treatments[k] \in Names
    BY TreatmentFacts DEF Names
  <2>4. \A t \in Names : DoneWith(t)
    BY <2>1 DEF Names
  <2>5. {Table(Treatments[k]) : k \in DOMAIN Treatments} \subseteq Written
    BY <2>3, <2>4 DEF DoneWith
  <2>6. collate => Cbp("baseline") \in Written
    BY <2>1 DEF DoneWith
  <2>7. ~collate => \A k \in DOMAIN Treatments, i \in Ignitions : Fire(Treatments[k], i) \in Written
    BY <2>3, <2>4 DEF DoneWith, FiresIn
  <2> QED
    BY <2>2, <2>5, <2>6, <2>7 DEF CompleteFiles
<1> QED
  BY <1>1, IInvAlways, PTL

\* VarLoc finds the row of an ignition at the ignition's position, in
\* whatever order the results came, when there is one duration.
THEOREM RowsOfIgnitions == Spec => []WindsByPosition
<1>1. IInv => WindsByPosition
  <2> SUFFICES ASSUME IInv, Cardinality(Durations) = 1,
                      NEW t \in Names, Table(t) \in Written, NEW i \in Ignitions
               PROVE  tables[t][i + 1][1] = i
    BY TreatmentFacts DEF WindsByPosition
  <2>1. PICK d : Durations = {d}
    BY FS_Singleton, TrainingDataAssumption DEF TrainingDataAssumption
  <2>2. d \in Nat
    BY <2>1, TrainingDataAssumption DEF TrainingDataAssumption
  <2>3. Sorted(tables[t], Tasks)
    BY DEF IInv, TablesOK
  <2>4. tables[t][i + 1] = <<i, d>>
    BY <2>1, <2>2, <2>3, RowsByPosition
  <2> QED
    BY <2>4
<1> QED
  BY <1>1, IInvAlways, PTL

=============================================================================
