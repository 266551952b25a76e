------------------------- MODULE MCSignatureDetection -------------------------
(* Checks the detector over a grid of crops around each of its thresholds. *)
EXTENDS DetectorCall

Inks    == {0, 1, 7, 8, 9, 17, 18, 34, 35, 36, 400, 1000}
MCCrops == {c \in [ink : Inks, contours : 0..3] : c.ink = 0 => c.contours = 0}
=============================================================================
