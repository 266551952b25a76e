----------------------------- MODULE CropGeometry -----------------------------
(***************************************************************************)
(* From a Docling bounding box to the rectangle of pixels that is looked   *)
(* at (emargement/pipelinev2.py, lines 311 to 392).                        *)
(*                                                                         *)
(* A box has the fields l, t, r, b of Docling's BoundingBox, in units of   *)
(* 1 / Unit, so that the three coordinate systems the code tells apart     *)
(* (fractions of the page, percentages or points, pixels) are integers.    *)
(* The code's float quotients are taken exactly; int(...) truncates        *)
(* towards zero.  A rectangle is [x0, y0, x1, y1], half open.              *)
(***************************************************************************)
EXTENDS Integers

CONSTANTS
  Unit,      \* the value of coordinate 1.0
  NoBox,     \* None: no bounding box, or a rectangle too small to be used
  GridRows,  \* the rows Docling may find on a page
  Sizes      \* the sizes <<width, height>> of images, in pixels

VARIABLES
  row,       \* a row of the grid: the boxes of two of its cells
  size,      \* the size of the image
  cut        \* what is cut out for the row: where it comes from, the rectangle

vars == <<row, size, cut>>

ASSUME UnitAssumption == Unit \in Nat \ {0}

Boxes == [l : Int, t : Int, r : Int, b : Int]
Rects == [x0 : Int, y0 : Int, x1 : Int, y1 : Int]

ASSUME NoBoxAssumption == NoBox \notin Boxes /\ NoBox \notin Rects

(* The first cell of a row, and its signature cell.                        *)
Row == [first : Boxes \cup {NoBox}, cell : Boxes \cup {NoBox}]

ASSUME PageAssumption == GridRows \subseteq Row /\ Sizes \subseteq Nat \X Nat

Pad     == 6
MinSide == 8

-----------------------------------------------------------------------------
(* int(n / d) for d > 0: Python truncates towards zero, \div rounds down.  *)
Trunc(n, d) == IF n >= 0 THEN n \div d ELSE -((-n) \div d)

LargerOf(m, n)  == IF m >= n THEN m ELSE n
SmallerOf(m, n) == IF m <= n THEN m ELSE n

(* The system of a box is guessed from its own values, box by box.         *)
System(box) ==
  LET far == LargerOf(box.r, box.b)
  IN  IF LargerOf(LargerOf(box.l, box.t), far) <= Unit THEN "fraction"
      ELSE IF far < 100 * Unit  THEN "percent"
      ELSE IF far < 2000 * Unit THEN "points"
      ELSE "pixels"

(* Mutant: every box is normalised by its own largest coordinate.          *)
FullScaleOwn(box) == LargerOf(box.r, box.b)

(* The value a coordinate of the box must have to lie on the far edge of   *)
(* the image; for points, it is the largest coordinate of this very box.   *)
FullScale(box) ==
  CASE System(box) = "fraction" -> Unit
    [] System(box) = "percent"  -> 100 * Unit
    [] System(box) = "points"   -> LargerOf(box.r, box.b)

ToPixel(box, v, side) ==
  IF System(box) = "pixels" THEN Trunc(v, Unit) ELSE Trunc(v * side, FullScale(box))

Rect(x0, y0, x1, y1) == [x0 |-> x0, y0 |-> y0, x1 |-> x1, y1 |-> y1]

TooSmall(rect) == rect.x1 - rect.x0 < MinSide \/ rect.y1 - rect.y0 < MinSide

(* Mutants: the margin is added after the clamp.                           *)
PaddedAfterClamp(rect, w, h) ==
  Rect(LargerOf(0, rect.x0) - Pad, LargerOf(0, rect.y0) - Pad,
       SmallerOf(w, rect.x1) + Pad, SmallerOf(h, rect.y1) + Pad)

(* The margin around the cell, clamped to the image.                       *)
Padded(rect, w, h) ==
  Rect(LargerOf(0, rect.x0 - Pad), LargerOf(0, rect.y0 - Pad),
       SmallerOf(w, rect.x1 + Pad), SmallerOf(h, rect.y1 + Pad))

ResolveBbox(box, w, h) ==
  IF box = NoBox THEN NoBox
  ELSE LET rect == Padded(Rect(ToPixel(box, box.l, w), ToPixel(box, box.t, h),
                               ToPixel(box, box.r, w), ToPixel(box, box.b, h)), w, h)
       IN  IF TooSmall(rect) THEN NoBox ELSE rect

-----------------------------------------------------------------------------
(* The two crops process_folder tries, as rectangles of the image.         *)

CropFromBbox(box, w, h) == ResolveBbox(box, w, h)

(* The signature column as a fraction of the width of row_box: from 75 %   *)
(* of it, over 12 % of it.                                                 *)
ColFrom == 75
ColTo   == 87

CropFromRowPosition(row_box, w, h) ==
  LET line == ResolveBbox(row_box, w, h)
  IN  IF line = NoBox THEN NoBox
      ELSE LET row_w == line.x1 - line.x0
               rect  == Rect(LargerOf(0, line.x0 + (row_w * ColFrom) \div 100), line.y0,
                             SmallerOf(w, line.x0 + (row_w * ColTo) \div 100), line.y1)
           IN  IF TooSmall(rect) THEN NoBox ELSE rect

-----------------------------------------------------------------------------
(* Cutting out the signature of one row of the grid.                       *)

Cut(from, rect) == [from |-> from, rect |-> rect]
NotCut          == Cut("pending", NoBox)

Init == /\ row \in GridRows
        /\ size \in Sizes
        /\ cut = NotCut

(* Tentative 1: the box of the signature cell.                             *)
CutCell ==
  /\ cut = NotCut
  /\ CropFromBbox(row.cell, size[1], size[2]) # NoBox
  /\ cut' = Cut("cell", CropFromBbox(row.cell, size[1], size[2]))
  /\ UNCHANGED <<row, size>>

(* Tentative 2: what is passed as the box of the row is the box of its     *)
(* first cell.                                                             *)
CutRow ==
  /\ cut = NotCut
  /\ CropFromBbox(row.cell, size[1], size[2]) = NoBox
  /\ cut' = Cut("row", CropFromRowPosition(row.first, size[1], size[2]))
  /\ UNCHANGED <<row, size>>

Next == CutCell \/ CutRow

Spec == Init /\ [][Next]_vars

-----------------------------------------------------------------------------
(* A rectangle that an image of w by h pixels holds and that has at least  *)
(* MinSide pixels a side, so that the crop is never of size zero.          *)
Holds(w, h, rect) ==
  /\ 0 <= rect.x0 /\ rect.x0 + MinSide <= rect.x1 /\ rect.x1 <= w
  /\ 0 <= rect.y0 /\ rect.y0 + MinSide <= rect.y1 /\ rect.y1 <= h

(* Two boxes that do not overlap are not swapped by the conversion, and    *)
(* their pixels overlap by no more than the margins.                       *)
PlacesKept(a, b, w, h) ==
  LET p == ResolveBbox(a, w, h)
      q == ResolveBbox(b, w, h)
  IN  p # NoBox /\ q # NoBox =>
        /\ a.r <= b.l => p.x1 - q.x0 <= 2 * Pad
        /\ a.b <= b.t => p.y1 - q.y0 <= 2 * Pad

CellsKeepPlaces == /\ PlacesKept(row.first, row.cell, size[1], size[2])
                   /\ PlacesKept(row.cell, row.first, size[1], size[2])

(* The unit a box is really in.  These are facts about the box, not what   *)
(* System makes of it.  The first percent of a page is left out: a box     *)
(* within it looks like fractions to any reader.                           *)
FarEdge(box)    == LargerOf(box.r, box.b)
UpTo(box, most) == box.l <= most /\ box.t <= most /\ FarEdge(box) <= most
InFractions(box) == box # NoBox /\ UpTo(box, Unit)
InPercent(box)   == box # NoBox /\ UpTo(box, 100 * Unit) /\ FarEdge(box) > Unit

(* Whatever box Docling returns (negative, inverted, larger than the page, *)
(* in any of its units), what is cut out lies within the image and has at  *)
(* least MinSide pixels a side: detect_signature_cv never sees an empty    *)
(* crop, and the slice img[y0:y1, x0:x1] never counts from the far edge.   *)
CropInImage == cut.rect # NoBox => Holds(size[1], size[2], cut.rect)

(* Two cells of a page that is given in fractions, or in percentages, keep *)
(* their places on the image, one left of or above the other, whichever    *)
(* branch of resolve_bbox reads each of them: the box that reaches 100 %   *)
(* is read as points.  Of boxes in points or pixels nothing is claimed.    *)
PlacesKeptOnPage ==
  (\/ InFractions(row.first) /\ InFractions(row.cell)
   \/ InPercent(row.first) /\ InPercent(row.cell)) => CellsKeepPlaces
=============================================================================
