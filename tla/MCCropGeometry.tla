---------------------------- MODULE MCCropGeometry ----------------------------
(* Checks the crops over boxes around the limits of each coordinate system *)
(* (Unit = 10: a coordinate 15 is 1.5), for two cells of a row at a time.  *)
EXTENDS CropGeometry

Near  == {-30, 0, 5, 400, 2000}
Far   == {3, 8, 10, 11, 400, 998, 1000, 5000, 19990, 20000}
Ys    == {<<0, 10>>, <<2, 8>>, <<100, 990>>, <<4000, 6000>>}

MCBoxes ==
  {[l |-> l, t |-> y[1], r |-> r, b |-> y[2]] : l \in Near, r \in Far, y \in Ys}

MCRows == [first : MCBoxes \cup {NoBox}, cell : MCBoxes \cup {NoBox}]

MCSizes == {<<40, 60>>, <<600, 250>>}
=============================================================================
