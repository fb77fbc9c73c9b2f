------------------------------- MODULE Dataset -------------------------------
(***************************************************************************)
(* VarLoc (datasets/varloc.py): one window of fuels, and for training of   *)
(* burns, for each ignition.  The constructor reads the fuels of one or    *)
(* two roles, takes the ignitions from a file or samples them, puts the    *)
(* treatment's fuels inside the treatment area only, and may cache the     *)
(* burns.  Items are then served in the order of the loader.               *)
(*                                                                         *)
(* Of the input channels only the class of the fuel (fbfm) is kept: it is  *)
(* the one that is blanked in place outside the circle (line 490), where   *)
(* the window is a view of the dataset's own raster.  The other channels   *)
(* are copied first.  Normalisation, topography and jitter are left out.   *)
(* A pixel of a fire_type raster is named by its role, its ignition number *)
(* and its cell.                                                           *)
(***************************************************************************)
EXTENDS Burns, Sequences, Functions

CONSTANTS MaxResample,  \* MAX_IGNITION_RESAMPLE
          NoArea        \* treatment_area: null

\* Classes of fuel: none where the code is not in the map, N does not burn,
\* those above do; the raster may have no data.
NoData == -1
None == 0
N == 1

VARIABLES ds,        \* the dataset's configuration and rasters, as read
          ignitions, \* row and column of each ignition
          tries,     \* samples drawn so far
          fuels,     \* self.fuels: role -> cell -> class
          burns,     \* self.burns: role -> windows of cells, <<>> if not cached
          items      \* the samples of the batch served last

dataVars == <<ds, ignitions, tries, fuels, burns, items>>

Roles == Range(ds.roles)
Cells == CellsOf(ds)
Sampled == ds.points = <<>>

\* What the constructor, run and the collation of treatments assert of their
\* arguments, and that only burns are cached; a dataset that has burns gives no
\* bounds, which run and evaluate read.
Accepted(d) ==
    /\ {d.h, d.w, d.ws, d.batch, d.sims, d.workers} \subseteq Nat \ {0}
    /\ d.target \in Nat
    /\ d.roles \in Seq({"baseline", "treatment"}) /\ IsInjective(d.roles) /\ d.roles # <<>>
    /\ DOMAIN d.raw = Range(d.roles)
    /\ \A r \in DOMAIN d.raw : d.raw[r] \in [CellsOf(d) -> Nat \cup {NoData}]
    /\ d.points \in Seq(Int \X Int) /\ d.draws \subseteq Seq(Int \X Int)
    /\ d.cmd \in {"train", "run_dl", "run_pt", "evaluate", "evaluate_pt"}
    /\ d.area # NoArea => Range(d.roles) = {"baseline", "treatment"}
    /\ d.cmd \in {"run_dl", "run_pt"} => d.area # NoArea
    /\ {d.burned, d.cache} \subseteq BOOLEAN
    /\ d.cache => d.burned
    /\ d.cmd # "train" => ~d.burned

-----------------------------------------------------------------------------
\* The constructor

\* _remap_fbfm: a code that is not mapped, no data too, becomes 0.
Encoded(raw) == [c \in DOMAIN raw |-> IF raw[c] = NoData THEN None ELSE raw[c]]

\* Mutant: one role is enough.
BurnableInOne(p) == p \in Cells /\ \E r \in Roles : fuels[r][p] \notin {None, N}

\* _select_burnable: on the raster and burnable in every role, as read.
Burnable(p) == p \in Cells /\ \A r \in Roles : fuels[r][p] \notin {None, N}

\* sampled[burnable]: the points that are, in their order.
BurnablePoints(points) ==
    LET kept == {k \in DOMAIN points : Burnable(points[k])}
        nth(n) == CHOOSE k \in kept : Cardinality({j \in kept : j <= k}) = n
    IN  [n \in 1 .. Cardinality(kept) |-> points[nth(n)]]

\* _collate_treatments: baseline outside the area.
Collated ==
    IF ds.area = NoArea THEN fuels
    ELSE [fuels EXCEPT !["treatment"] =
            [c \in Cells |-> IF c \in ds.area THEN @[c] ELSE fuels["baseline"][c]]]

WindowCells(i) ==
    {c \in Cells : InWindow(c[1], i[1], ds.h, ds.ws) /\ InWindow(c[2], i[2], ds.w, ds.ws)}

\* _build_arr_y_raw: the directory is named by the ignition number.
BurnWindow(role, k) ==
    [c \in WindowCells(ignitions'[k]) |-> <<role, ds.numbers[k], c>>]

\* Mutant: the directory is named by the position.
CacheByPosition ==
    [r \in Roles |-> IF ~ds.cache THEN <<>> ELSE
       [k \in DOMAIN ignitions' |-> [c \in WindowCells(ignitions'[k]) |-> <<r, k, c>>]]]

CachedBurns ==
    [r \in Roles |-> IF ~ds.cache THEN <<>> ELSE
       [k \in DOMAIN ignitions' |-> BurnWindow(r, k)]]

DataInit ==
    /\ ignitions = <<>>
    /\ tries = 0
    /\ fuels = [r \in Roles |-> Encoded(ds.raw[r])]
    /\ burns = [r \in Roles |-> <<>>]
    /\ items = <<>>

\* _locate_ignitions, _collate_treatments and _cache_burns.
Construct ==
    /\ fuels' = Collated
    /\ burns' = CachedBurns
    /\ UNCHANGED <<ds, items>>

\* Ignitions of a csv file.
ReadIgnitions ==
    /\ ~Sampled
    /\ ignitions' = ds.points
    /\ UNCHANGED tries
    /\ Construct

ExhaustedAfter(n) == n > MaxResample

\* _sample_ignitions: a sample of the region, then others while there are too
\* few burnable points.
DrawPoints(points) ==
    /\ Sampled
    /\ LET drawn == ignitions \o BurnablePoints(points)
       IN  IF Len(drawn) < ds.target /\ ~ExhaustedAfter(tries + 1)
           THEN ignitions' = drawn
           ELSE ignitions' = SubSeq(drawn, 1, AtMost(Len(drawn), ds.target))
    /\ tries' = tries + 1

EnoughDrawn == Len(ignitions') >= ds.target \/ ExhaustedAfter(tries')

-----------------------------------------------------------------------------
\* __getitem__

\* __len__: with burns every ignition is there for each role.
Length == IF ds.burned THEN Len(ignitions) * Len(ds.roles) ELSE Len(ignitions)

\* The ignition and the role of an index.
SampleIndex(idx) == (IF ds.burned THEN idx \div Len(ds.roles) ELSE idx) + 1
RoleOf(idx) == ds.roles[(IF ds.burned THEN idx % Len(ds.roles) ELSE 0) + 1]

\* The position p of the padded window around i lies on this cell.
CellAt(p, i) ==
    <<p[1] - PadBelow(i[1], ds.h, ds.ws) + Lo(i[1], ds.ws),
      p[2] - PadBelow(i[2], ds.w, ds.ws) + Lo(i[2], ds.ws)>>

Padded(window, i, blank) ==
    [p \in Square(ds.ws) |->
       IF CellAt(p, i) \in DOMAIN window THEN window[CellAt(p, i)] ELSE blank]

Circle == {p \in Square(ds.ws) : ds.circle => InCircle(p[1], p[2], ds.ws)}

\* The mask is of the first role, or of the role of the burns.
MaskOf(role, i) ==
    {p \in Circle : CellAt(p, i) \in WindowCells(i) /\ ds.raw[role][CellAt(p, i)] # NoData}

\* _build_arr_x: the window, blank outside the circle.
FuelWindow(layer, i) ==
    LET padded == Padded([c \in WindowCells(i) |-> layer[c]], i, None)
    IN  [p \in Square(ds.ws) |-> IF p \in Circle THEN padded[p] ELSE None]

\* With a treatment area both layers are stacked, else the item has its role's.
ServedRoles(idx) == IF ds.area # NoArea THEN Roles ELSE {RoleOf(idx)}

\* A window that needs no padding is a view: it is blanked in the raster.
BlankedBy(idx, r) ==
    LET i == ignitions[SampleIndex(idx)]
    IN  IF r \notin ServedRoles(idx)
             \/ Diff(i[1], ds.h, ds.ws) > 0 \/ Diff(i[2], ds.w, ds.ws) > 0
        THEN {} ELSE {CellAt(p, i) : p \in Square(ds.ws) \ Circle}

\* self.fuels after the first n items of a batch.
LayersAfter(indexes, n) ==
    [r \in Roles |-> [c \in Cells |->
       IF \E k \in 1 .. n : c \in BlankedBy(indexes[k], r) THEN None ELSE fuels[r][c]]]

ItemOf(idx, layers) ==
    LET k == SampleIndex(idx)
        i == ignitions[k]
        role == RoleOf(idx)
        window == IF ds.cache THEN burns[role][k]
                  ELSE [c \in WindowCells(i) |-> <<role, ds.numbers[k], c>>]
    IN  [sample |-> k, role |-> role, at |-> i,
         x |-> [r \in ServedRoles(idx) |-> FuelWindow(layers[r], i)],
         y |-> IF ds.burned THEN Padded(window, i, <<>>) ELSE <<>>,
         mask |-> MaskOf(role, i)]

\* A batch of the loader, item after item.
ServeBatch(indexes) ==
    /\ items' = [k \in DOMAIN indexes |-> ItemOf(indexes[k], LayersAfter(indexes, k - 1))]
    /\ fuels' = LayersAfter(indexes, Len(indexes))
    /\ UNCHANGED <<ds, ignitions, tries, burns>>

-----------------------------------------------------------------------------
\* Properties

\* The cell at a position, counted from the ignition in the middle.
CellFrom(item, p) ==
    <<item.at[1] + p[1] - Half(ds.ws), item.at[2] + p[2] - Half(ds.ws)>>

(***************************************************************************)
(* Whatever borders clamp the window, and whether burns are cached or not, *)
(* a position that the mask keeps shows in every channel the same cell of  *)
(* the raster, the burn of this ignition under this role, and treatment    *)
(* and baseline differ in the treatment area only.                         *)
(***************************************************************************)
ItemAligned ==
    \A k \in DOMAIN items : \A p \in items[k].mask :
        LET item == items[k]
            c == CellFrom(item, p)
        IN  /\ c \in Cells
            /\ ds.raw[item.role][c] # NoData
            /\ ds.burned => item.y[p] = <<item.role, ds.numbers[item.sample], c>>
            /\ \A r \in DOMAIN item.x :
                 item.x[r][p] # item.x[item.role][p] => c \in ds.area

(***************************************************************************)
(* Each sampled ignition is on the raster and burns in both roles, there   *)
(* are never more than were asked for, and fewer only when no resampling   *)
(* is left.                                                                *)
(***************************************************************************)
IgnitionsFit ==
    Sampled =>
        /\ \A k \in DOMAIN ignitions :
             /\ ignitions[k] \in Cells
             /\ \A r \in Roles : ds.raw[r][ignitions[k]] > N
        /\ items # <<>> => Len(ignitions) <= ds.target
        /\ items # <<>> /\ Len(ignitions) < ds.target => tries = MaxResample + 1

\* The comment of _collate_treatments: the treatment layer is the treatment's
\* fuels inside the area, and the baseline's outside.
LayersStay ==
    items # <<>> /\ ds.area # NoArea =>
        \A k \in DOMAIN items : \A p \in items[k].mask :
            LET c == CellFrom(items[k], p)
                source == IF c \in ds.area THEN "treatment" ELSE "baseline"
            IN  items[k].x["treatment"][p] = Encoded(ds.raw[source])[c]

=============================================================================
