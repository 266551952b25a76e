-------------------------- MODULE CropGeometryProofs --------------------------
(* For every page, every image size and every unit: what is cut out of an  *)
(* image lies within it, and the cells of a page in fractions or in        *)
(* percentages keep their places.                                          *)
EXTENDS CropGeometry, TLAPS

(* int(n / d) is an integer: what is converted can be compared, whatever   *)
(* the sign of the coordinate.                                             *)
LEMMA TruncInt ==
  ASSUME NEW n \in Int, NEW d \in Int, d > 0
  PROVE  Trunc(n, d) \in Int
BY DEF Trunc

(* The scale of a box is positive in every system: the code divides by the *)
(* largest coordinate of a box only when that is at least 100.             *)
LEMMA FullScalePositive ==
  ASSUME NEW box \in Boxes, System(box) # "pixels"
  PROVE  FullScale(box) \in Int /\ FullScale(box) > 0
<1> DEFINE far == LargerOf(box.r, box.b)
<1>1. far \in Int
  BY DEF Boxes, LargerOf
<1>2. CASE System(box) = "fraction"
  BY <1>2, UnitAssumption DEF FullScale
<1>3. CASE System(box) = "percent"
  BY <1>3, UnitAssumption DEF FullScale
<1>4. CASE System(box) = "points"
  <2>1. ~(far < 100 * Unit)
    BY <1>4 DEF System
  <2>2. far > 0
    BY <1>1, <2>1, UnitAssumption
  <2> QED BY <1>1, <1>4, <2>2 DEF FullScale
<1> QED BY <1>2, <1>3, <1>4 DEF System

(* A coordinate of a box becomes an integer number of pixels.              *)
LEMMA ToPixelInt ==
  ASSUME NEW box \in Boxes, NEW v \in Int, NEW side \in Nat
  PROVE  ToPixel(box, v, side) \in Int
<1>1. CASE System(box) = "pixels"
  BY <1>1, TruncInt, UnitAssumption DEF ToPixel
<1>2. CASE System(box) # "pixels"
  <2>1. v * side \in Int
    OBVIOUS
  <2> QED BY <1>2, <2>1, FullScalePositive, TruncInt DEF ToPixel
<1> QED BY <1>1, <1>2

(* resolve_bbox returns None or a rectangle that the image holds.          *)
LEMMA ResolvedInImage ==
  ASSUME NEW box \in Boxes \cup {NoBox}, NEW w \in Nat, NEW h \in Nat,
         ResolveBbox(box, w, h) # NoBox
  PROVE  /\ ResolveBbox(box, w, h) \in Rects
         /\ Holds(w, h, ResolveBbox(box, w, h))
<1>1. box \in Boxes
  BY DEF ResolveBbox
<1> DEFINE x0 == ToPixel(box, box.l, w)
           y0 == ToPixel(box, box.t, h)
           x1 == ToPixel(box, box.r, w)
           y1 == ToPixel(box, box.b, h)
           raw == Rect(x0, y0, x1, y1)
<1>2. x0 \in Int /\ y0 \in Int /\ x1 \in Int /\ y1 \in Int
  BY <1>1, ToPixelInt DEF Boxes
<1>3. ResolveBbox(box, w, h) = Padded(raw, w, h) /\ ~TooSmall(Padded(raw, w, h))
  BY <1>1 DEF ResolveBbox
<1> HIDE DEF x0, y0, x1, y1
<1>4. Padded(raw, w, h) \in Rects
  BY <1>2 DEF Padded, Rect, Rects, LargerOf, SmallerOf, Pad
<1>5. Holds(w, h, Padded(raw, w, h))
  BY <1>2, <1>3 DEF Padded, Rect, LargerOf, SmallerOf, Pad, TooSmall, MinSide, Holds
<1> QED BY <1>3, <1>4, <1>5

(* crop_from_row_position returns None or a rectangle of the image.        *)
LEMMA FallbackInImage ==
  ASSUME NEW box \in Boxes \cup {NoBox}, NEW w \in Nat, NEW h \in Nat,
         CropFromRowPosition(box, w, h) # NoBox
  PROVE  Holds(w, h, CropFromRowPosition(box, w, h))
<1> DEFINE line  == ResolveBbox(box, w, h)
           row_w == line.x1 - line.x0
           left  == line.x0 + (row_w * ColFrom) \div 100
           right == line.x0 + (row_w * ColTo) \div 100
           rect  == Rect(LargerOf(0, left), line.y0, SmallerOf(w, right), line.y1)
<1>1. line # NoBox /\ CropFromRowPosition(box, w, h) = rect /\ ~TooSmall(rect)
  BY DEF CropFromRowPosition
<1>2. line \in Rects /\ Holds(w, h, line)
  BY <1>1, ResolvedInImage
<1> HIDE DEF line
<1>3. /\ line.x0 \in Int /\ line.x1 \in Int /\ line.y0 \in Int /\ line.y1 \in Int
      /\ row_w \in Int /\ row_w >= 0
  BY <1>2 DEF Rects, Holds, MinSide
<1>4. left \in Int /\ right \in Int
  BY <1>3 DEF ColFrom, ColTo
<1> HIDE DEF left, right
<1>5. Holds(w, h, rect)
  BY <1>1, <1>2, <1>3, <1>4 DEF Rect, LargerOf, SmallerOf, TooSmall, MinSide, Holds
<1> QED BY <1>1, <1>5 DEF line

(* The variables keep the inputs of the search in their sets, and a cut    *)
(* rectangle lies in the image.                                            *)
CutInv ==
  /\ row \in Row
  /\ size[1] \in Nat /\ size[2] \in Nat
  /\ CropInImage

LEMMA InitCut == Init => CutInv
BY PageAssumption DEF Init, CutInv, NotCut, Cut, CropInImage

LEMMA NextCut == CutInv /\ [Next]_vars => CutInv'
<1> SUFFICES ASSUME CutInv, [Next]_vars PROVE CutInv'
  OBVIOUS
<1> USE DEF CutInv
<1>0. row.first \in Boxes \cup {NoBox} /\ row.cell \in Boxes \cup {NoBox}
  BY DEF Row
<1>1. CASE CutCell
  <2>1. CropInImage'
    BY <1>0, <1>1, ResolvedInImage DEF CutCell, Cut, CropInImage, CropFromBbox
  <2> QED BY <1>1, <2>1 DEF CutCell
<1>2. CASE CutRow
  <2>1. CropInImage'
    BY <1>0, <1>2, FallbackInImage DEF CutRow, Cut, CropInImage
  <2> QED BY <1>2, <2>1 DEF CutRow
<1>3. CASE UNCHANGED vars
  BY <1>3 DEF vars, CropInImage
<1> QED BY <1>1, <1>2, <1>3 DEF Next

(* Whatever boxes Docling returns and whatever the size of the image, the  *)
(* crop handed to the detector lies within the image and is at least 8     *)
(* pixels a side (resolve_bbox and crop_from_row_position).                *)
THEOREM CutInsideImage == Spec => []CropInImage
<1>1. CutInv => CropInImage
  BY DEF CutInv
<1> QED BY InitCut, NextCut, <1>1, PTL DEF Spec

-----------------------------------------------------------------------------
(* int(n / d) keeps the order of the numerators.                           *)
LEMMA TruncMonotone ==
  ASSUME NEW m \in Int, NEW n \in Int, m <= n, NEW d \in Int, d > 0
  PROVE  Trunc(m, d) <= Trunc(n, d)
<1>1. ASSUME NEW i \in Nat, NEW j \in Nat, i <= j
      PROVE  0 <= i \div d /\ i \div d <= j \div d /\ i \div d \in Int
  BY <1>1
<1>2. CASE m >= 0
  BY <1>1, <1>2 DEF Trunc
<1>3. CASE m < 0 /\ n >= 0
  <2>1. 0 <= (-m) \div d /\ (-m) \div d \in Int /\ 0 <= n \div d /\ n \div d \in Int
    BY <1>1, <1>3
  <2> QED  BY <1>3, <2>1 DEF Trunc
<1>4. CASE n < 0
  <2>1. /\ (-n) \div d \in Int /\ (-m) \div d \in Int
        /\ (-n) \div d <= (-m) \div d
    BY <1>1, <1>4
  <2> QED  BY <1>4, <2>1 DEF Trunc
<1> QED  BY <1>2, <1>3, <1>4

(* Where a coordinate that lies on the far edge of the page has the value  *)
(* full, and the box is not read as pixels.                                *)
Scaled(box, full) ==
  System(box) # "pixels" /\ FullScale(box) = full

(* Whichever branch reads it, a box in fractions has the scale of its      *)
(* page.                                                                   *)
LEMMA FractionsScaled ==
  ASSUME NEW box \in Boxes, InFractions(box)
  PROVE  Scaled(box, Unit)
<1>1. /\ box.l \in Int /\ box.t \in Int /\ box.r \in Int /\ box.b \in Int
      /\ box.l <= Unit /\ box.t <= Unit /\ LargerOf(box.r, box.b) <= Unit
  BY DEF Boxes, InFractions, UpTo, FarEdge
<1>2. System(box) = "fraction"
  BY <1>1, UnitAssumption DEF System, LargerOf
<1> QED BY <1>2 DEF Scaled, FullScale

(* So has a box in percentages: the one that reaches 100 % is read as      *)
(* points, and divided by its own far edge, 100.                           *)
LEMMA PercentScaled ==
  ASSUME NEW box \in Boxes, InPercent(box)
  PROVE  Scaled(box, 100 * Unit)
<1> DEFINE far == LargerOf(box.r, box.b)
<1>1. far \in Int /\ box.l \in Int /\ box.t \in Int /\ Unit < far /\ far <= 100 * Unit
  BY UnitAssumption DEF Boxes, LargerOf, InPercent, UpTo, FarEdge
<1>2. ~(LargerOf(LargerOf(box.l, box.t), far) <= Unit)
  <2> HIDE DEF far
  <2> QED BY <1>1, UnitAssumption DEF LargerOf
<1>3. CASE far < 100 * Unit
  <2>1. System(box) = "percent"
    BY <1>2, <1>3 DEF System
  <2> QED BY <2>1 DEF Scaled, FullScale
<1>4. CASE far = 100 * Unit
  <2>1. ~(far < 100 * Unit) /\ far < 2000 * Unit
    BY <1>4, UnitAssumption
  <2>2. System(box) = "points"
    BY <1>2, <2>1 DEF System
  <2> QED BY <1>4, <2>2 DEF Scaled, FullScale
<1> QED BY <1>1, <1>3, <1>4, UnitAssumption

(* Two boxes with one scale are converted by one monotone function.        *)
LEMMA OneScaleMonotone ==
  ASSUME NEW full, NEW a \in Boxes, NEW b \in Boxes, Scaled(a, full), Scaled(b, full),
         NEW m \in Int, NEW n \in Int, m <= n, NEW side \in Nat
  PROVE  ToPixel(a, m, side) <= ToPixel(b, n, side)
<1>1. full \in Int /\ full > 0
  BY FullScalePositive DEF Scaled
<1>2. m * side \in Int /\ n * side \in Int /\ m * side <= n * side
  OBVIOUS
<1>3. Trunc(m * side, full) <= Trunc(n * side, full)
  BY <1>1, <1>2, TruncMonotone
<1> QED  BY <1>3 DEF ToPixel, Scaled

(* Two boxes with one scale are not swapped.                               *)
LEMMA OneScaleKeepsPlaces ==
  ASSUME NEW full, NEW a \in Boxes, NEW b \in Boxes, Scaled(a, full), Scaled(b, full),
         NEW w \in Nat, NEW h \in Nat
  PROVE  PlacesKept(a, b, w, h)
<1> SUFFICES ASSUME ResolveBbox(a, w, h) # NoBox, ResolveBbox(b, w, h) # NoBox
             PROVE  /\ a.r <= b.l => ResolveBbox(a, w, h).x1 - ResolveBbox(b, w, h).x0 <= 2 * Pad
                    /\ a.b <= b.t => ResolveBbox(a, w, h).y1 - ResolveBbox(b, w, h).y0 <= 2 * Pad
  BY DEF PlacesKept
<1> DEFINE ax1 == ToPixel(a, a.r, w)
           ay1 == ToPixel(a, a.b, h)
           bx0 == ToPixel(b, b.l, w)
           by0 == ToPixel(b, b.t, h)
<1>1. /\ a.r \in Int /\ a.b \in Int /\ b.l \in Int /\ b.t \in Int
      /\ a # NoBox /\ b # NoBox
  BY NoBoxAssumption DEF Boxes
<1>2. ax1 \in Int /\ ay1 \in Int /\ bx0 \in Int /\ by0 \in Int
  BY <1>1, ToPixelInt
<1>3. (a.r <= b.l => ax1 <= bx0) /\ (a.b <= b.t => ay1 <= by0)
  BY <1>1, OneScaleMonotone
<1>4. /\ ResolveBbox(a, w, h).x1 = SmallerOf(w, ax1 + Pad)
      /\ ResolveBbox(a, w, h).y1 = SmallerOf(h, ay1 + Pad)
      /\ ResolveBbox(b, w, h).x0 = LargerOf(0, bx0 - Pad)
      /\ ResolveBbox(b, w, h).y0 = LargerOf(0, by0 - Pad)
  BY <1>1 DEF ResolveBbox, Padded, Rect
<1> HIDE DEF ax1, ay1, bx0, by0
<1>5. /\ SmallerOf(w, ax1 + Pad) <= ax1 + Pad /\ SmallerOf(w, ax1 + Pad) \in Int
      /\ SmallerOf(h, ay1 + Pad) <= ay1 + Pad /\ SmallerOf(h, ay1 + Pad) \in Int
      /\ bx0 - Pad <= LargerOf(0, bx0 - Pad) /\ LargerOf(0, bx0 - Pad) \in Int
      /\ by0 - Pad <= LargerOf(0, by0 - Pad) /\ LargerOf(0, by0 - Pad) \in Int
  BY <1>2 DEF SmallerOf, LargerOf, Pad
<1> QED  BY <1>1, <1>2, <1>3, <1>4, <1>5 DEF Pad

(* For any boxes, unit and image size: two cells of a page that Docling    *)
(* gives in fractions, or in percentages, keep their places, left and      *)
(* right, above and below, but for the margins, whichever branch of        *)
(* resolve_bbox reads each of them.                                        *)
THEOREM CellsKeepTheirPlaces == Spec => []PlacesKeptOnPage
<1>1. CutInv => PlacesKeptOnPage
  <2> SUFFICES ASSUME CutInv,
                      \/ InFractions(row.first) /\ InFractions(row.cell)
                      \/ InPercent(row.first) /\ InPercent(row.cell)
               PROVE  CellsKeepPlaces
    BY DEF PlacesKeptOnPage
  <2>1. row.first \in Boxes /\ row.cell \in Boxes /\ size[1] \in Nat /\ size[2] \in Nat
    BY DEF CutInv, Row, InFractions, InPercent
  <2>2. PICK full : Scaled(row.first, full) /\ Scaled(row.cell, full)
    BY <2>1, FractionsScaled, PercentScaled
  <2> QED  BY <2>1, <2>2, OneScaleKeepsPlaces DEF CellsKeepPlaces
<1> QED BY InitCut, NextCut, <1>1, PTL DEF Spec
=============================================================================
