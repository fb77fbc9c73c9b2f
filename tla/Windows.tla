------------------------------ MODULE Windows -------------------------------
(***************************************************************************)
(* The square window around a cell of a raster (datasets/utils.py): its    *)
(* bounds, clamped to the raster, the padding that restores its size, and  *)
(* the crop that puts a predicted window back on the raster.  Rows and     *)
(* columns are treated alike, so one axis of n cells is modelled; a window *)
(* of a raster is a pair of them.  A window with a circle mask keeps the   *)
(* pixels closer to the centre than the border (utils.py circle_mask).     *)
(***************************************************************************)
EXTENDS Integers

AtLeast(a, b) == IF a >= b THEN a ELSE b
AtMost(a, b) == IF a <= b THEN a ELSE b

-----------------------------------------------------------------------------
\* compute_bounds: the cells lo .. hi - 1 around y.

Half(ws) == ws \div 2
Odd(ws) == ws % 2

Lo(y, ws) == AtLeast(0, y - Half(ws))

Hi(y, n, ws) == AtMost(y + Half(ws) + Odd(ws), n)

\* compute_padding and VarLoc._pad: what is missing goes below the window when
\* it touches the lower border, else above it.
Diff(y, n, ws) == ws - (Hi(y, n, ws) - Lo(y, ws))

PadBelow(y, n, ws) ==
    IF Lo(y, ws) = 0 THEN AtLeast(0, Diff(y, n, ws)) ELSE 0

PadAbove(y, n, ws) ==
    IF Lo(y, ws) = 0 THEN 0 ELSE AtLeast(0, Diff(y, n, ws))

\* The length of the padded window, and where it holds the raster's cell r.
PaddedSize(y, n, ws) ==
    PadBelow(y, n, ws) + (Hi(y, n, ws) - Lo(y, ws)) + PadAbove(y, n, ws)

PositionOf(r, y, n, ws) == PadBelow(y, n, ws) + (r - Lo(y, ws))

\* compute_crop_region: where the part that maps onto the raster begins.
CropSource(y, n, ws) ==
    IF Diff(y, n, ws) > 0 /\ Lo(y, ws) = 0 THEN Diff(y, n, ws) ELSE 0

\* The position whose prediction the crop stamps on the cell r.
StampedFrom(r, y, n, ws) == CropSource(y, n, ws) + (r - Lo(y, ws))

InWindow(r, y, n, ws) == Lo(y, ws) <= r /\ r < Hi(y, n, ws)

-----------------------------------------------------------------------------
\* Twice the distance of a position from the middle of the window, squared, is
\* compared with twice that of the border.
InCircle(i, j, ws) ==
    (2 * i - (ws - 1)) * (2 * i - (ws - 1)) + (2 * j - (ws - 1)) * (2 * j - (ws - 1))
        < (ws - 1) * (ws - 1)

-----------------------------------------------------------------------------
\* Properties of a window of ws cells around y on an axis of n cells

(***************************************************************************)
(* Padding restores the size the network needs, and the crop is the        *)
(* inverse of padding: every cell of the window gets the prediction made   *)
(* for it, at every border and for every size of raster and window.        *)
(***************************************************************************)
StampsBack(y, n, ws) ==
    /\ PaddedSize(y, n, ws) = ws
    /\ \A r \in 0 .. n - 1 : InWindow(r, y, n, ws) =>
         /\ StampedFrom(r, y, n, ws) = PositionOf(r, y, n, ws)
         /\ PositionOf(r, y, n, ws) \in 0 .. ws - 1

(***************************************************************************)
(* The ignition is in the middle of its padded window, where the flood     *)
(* fill starts and the circle is drawn, unless the window exceeds the      *)
(* raster above and reaches its first cell: then all the padding goes      *)
(* below, even if none is missing there (y = Half(ws), n < ws).            *)
(***************************************************************************)
Centred(y, n, ws) ==
    y > Half(ws) \/ y + Half(ws) + Odd(ws) <= n
        => PositionOf(y, y, n, ws) = Half(ws)

=============================================================================
