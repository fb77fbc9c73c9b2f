-------------------------------- MODULE Burns --------------------------------
(***************************************************************************)
(* What is done with one predicted or simulated fire on its way to a       *)
(* raster: the component of the window's centre (run.py, evaluate.py), the *)
(* classification of crown change, the test against the treatment area and *)
(* the sum over fires, by the emulator (utils.py batched_agg) and by       *)
(* pyretechnics (pt.py change_task, run.py _run_pt).                       *)
(*                                                                         *)
(* A fire is a record of two sets: the pixels that burned, fire_type 1 to  *)
(* 3, and those of them that crowned, fire_type 2 or 3.  A grid g has the  *)
(* height g.h and the width g.w; a window on it has g.ws rows and columns. *)
(***************************************************************************)
EXTENDS Windows, FiniteSets

CellsOf(g) == (0 .. g.h - 1) \X (0 .. g.w - 1)
Square(ws) == (0 .. ws - 1) \X (0 .. ws - 1)

Touching(p, q) == p[1] - q[1] \in -1 .. 1 /\ p[2] - q[2] \in -1 .. 1

-----------------------------------------------------------------------------
\* The component of the centre

\* The 3x3 pixels in the middle.
Centre(ws) == {p \in Square(ws) : Touching(p, <<ws \div 2, ws \div 2>>)}

\* Mutant: one round for every two rows.
FewRounds(ws) == ws \div 3

\* The convolutions are bounded by three times the size of the window.
Rounds(ws) == 3 * ws

\* The pixels that burned among those of the seed and their neighbours.
Grown(seed, burned) == {p \in burned : \E q \in seed : Touching(p, q)}

\* Convolution after convolution, until nothing is added or the rounds are over.
CentreComponent(burned, ws) ==
    LET fill[k \in 0 .. Rounds(ws)] ==
          [seed \in SUBSET burned |->
             IF k = 0 \/ Grown(seed, burned) = seed THEN seed
             ELSE fill[k - 1][Grown(seed, burned)]]
    IN  fill[Rounds(ws)][Centre(ws) \cap burned]

-----------------------------------------------------------------------------
\* From the window around the cell i to the raster

\* Mutant: the source offset of the crop is forgotten.
UncroppedCells(positions, i, g) ==
    {c \in CellsOf(g) :
       /\ InWindow(c[1], i[1], g.h, g.ws) /\ InWindow(c[2], i[2], g.w, g.ws)
       /\ <<c[1] - Lo(i[1], g.ws), c[2] - Lo(i[2], g.ws)>> \in positions}

\* The cells on which the crop of the window stamps one of the positions.
StampedCells(positions, i, g) ==
    {c \in CellsOf(g) :
       /\ InWindow(c[1], i[1], g.h, g.ws) /\ InWindow(c[2], i[2], g.w, g.ws)
       /\ <<StampedFrom(c[1], i[1], g.h, g.ws),
            StampedFrom(c[2], i[2], g.w, g.ws)>> \in positions}

FireTouches(burned, area, i, g) == StampedCells(burned, i, g) \cap area # {}

\* Crown fire in the treatment only, and in the baseline only.
ToCrown(base, treat) == treat.crowned \ base.crowned
FromCrown(base, treat) == base.crowned \ treat.crowned

-----------------------------------------------------------------------------
\* Sums over fires: for each class of change the fires that have it at a cell

NoFires(g) == [none |-> [c \in CellsOf(g) |-> 0],
               to |-> [c \in CellsOf(g) |-> 0],
               from |-> [c \in CellsOf(g) |-> 0]]

\* cells names those of each fire.
AddOn(sum, cells) ==
    [c \in DOMAIN sum |-> sum[c] + Cardinality({k \in DOMAIN cells : c \in cells[k]})]

\* The cells of each class of change of the window around i; what has no class
\* in the window is unchanged there.
Unchanged(base, treat, i, g) ==
    StampedCells(Square(g.ws) \ (ToCrown(base, treat) \cup FromCrown(base, treat)), i, g)

\* Mutant: a fire is no background outside its window.
AddWindow(agg, base, treat, at, g) ==
    [none |-> AddOn(agg.none,
       [k \in DOMAIN base |-> Unchanged(base[k], treat[k], at[k], g)]),
     to |-> AddOn(agg.to,
       [k \in DOMAIN base |-> StampedCells(ToCrown(base[k], treat[k]), at[k], g)]),
     from |-> AddOn(agg.from,
       [k \in DOMAIN base |-> StampedCells(FromCrown(base[k], treat[k]), at[k], g)])]

\* batched_agg of the fires that base and treat hold for each sample: background
\* everywhere but in their windows, and there the class of each pixel.
AddEmulated(agg, base, treat, at, g) ==
    [none |-> AddOn(agg.none,
       [k \in DOMAIN base |->
          (CellsOf(g) \ StampedCells(Square(g.ws), at[k], g))
            \cup Unchanged(base[k], treat[k], at[k], g)]),
     to |-> AddOn(agg.to,
       [k \in DOMAIN base |-> StampedCells(ToCrown(base[k], treat[k]), at[k], g)]),
     from |-> AddOn(agg.from,
       [k \in DOMAIN base |-> StampedCells(FromCrown(base[k], treat[k]), at[k], g)])]

\* change_task returns the box of what burned; _run_pt adds the box.
BoxOf(cells) ==
    LET between(k) == UNION {p[k] .. q[k] : p, q \in cells}
    IN  between(1) \X between(2)

AddSimulated(agg, base, treat) ==
    LET box == BoxOf(base.burned \cup treat.burned)
    IN  [agg EXCEPT !.to = AddOn(@, <<ToCrown(base, treat) \cap box>>),
                    !.from = AddOn(@, <<FromCrown(base, treat) \cap box>>)]

\* The pixels that no kept simulation touched count as no change.
CloseSimulated(agg, kept) ==
    [agg EXCEPT !.none = [c \in DOMAIN @ |-> kept - agg.to[c] - agg.from[c]]]

=============================================================================
