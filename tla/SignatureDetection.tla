-------------------------- MODULE SignatureDetection --------------------------
(***************************************************************************)
(* The hybrid signature detector of emargement/pipelinev2.py: a classical  *)
(* OpenCV measure decides, and a crop it finds ambiguous is put to the     *)
(* local vision model, or decided by the measure's confidence when the run *)
(* has no vision model.                                                    *)
(*                                                                         *)
(* A crop is what the decision reads of an image: its ink density, in      *)
(* per-mille of the pixels, and the number of contours large enough to     *)
(* count.  Confidences are multiples of 1 / One, so that every quotient    *)
(* the code takes (density / INK_HIGH, density / INK_LOW, 0.5, 0.3) is an  *)
(* integer.                                                                *)
(***************************************************************************)
EXTENDS Integers

CONSTANTS
  InkLow,       \* INK_LOW  (0.008 in the code, 8 here)
  InkHigh,      \* INK_HIGH (0.035 in the code, 35 here)
  NoCrop,       \* None: neither the cell nor its row could be located
  EmptyCrop,    \* an image of size zero
  NoReply       \* the request to the vision model raised an exception

ASSUME InkAssumption == /\ InkLow \in Nat \ {0}
                        /\ InkHigh \in Nat
                        /\ InkLow < InkHigh

Verdicts == {"oui", "non", "inconnu"}
Methods  == {"cv", "vision", "cv+vision", "no_crop"}

(* Ink without a pixel has no contour. *)
Inked == {c \in [ink : 0..1000, contours : Nat] : c.ink = 0 => c.contours = 0}
Crops == Inked \cup {NoCrop, EmptyCrop}

(* What detect_signature_vision looks for in the first 30 characters of an *)
(* answer: does it hold "yes", does it hold "no".  "I do not know" holds   *)
(* "no".                                                                   *)
Answers == [yes : BOOLEAN, no : BOOLEAN]
Replies == Answers \cup {NoReply}

ASSUME CropAssumption == /\ NoCrop \notin Inked
                         /\ EmptyCrop \notin Inked
                         /\ NoCrop # EmptyCrop
                         /\ NoReply \notin Answers

One == 10 * InkLow * InkHigh

Result(verdict, method, confidence) ==
  [verdict |-> verdict, method |-> method, confidence |-> confidence]

Capped(confidence) == IF confidence > One THEN One ELSE confidence

-----------------------------------------------------------------------------
(* The decision of OpenCV.                                                 *)

(* Mutants: the contour count is not required of a signature; or a crop    *)
(* with more ink than a signature is taken for a smudge.                   *)
DetectCvSmudge(crop) ==
  IF crop = EmptyCrop THEN Result("inconnu", "cv", 0)
  ELSE IF crop.ink >= InkHigh /\ crop.contours = 2
       THEN Result("oui", "cv", Capped(10 * crop.ink * InkLow))
  ELSE IF crop.ink <= InkLow \/ crop.contours # 1
       THEN Result("non", "cv", Capped(One - 10 * crop.ink * InkHigh))
  ELSE Result("ambigu", "cv", Capped(10 * crop.ink * InkLow))

DetectCv(crop) ==
  IF crop = EmptyCrop THEN Result("inconnu", "cv", 0)
  ELSE IF crop.ink >= InkHigh /\ crop.contours >= 2
       THEN Result("oui", "cv", Capped(10 * crop.ink * InkLow))
  ELSE IF crop.ink <= InkLow \/ crop.contours = 0
       THEN Result("non", "cv", Capped(One - 10 * crop.ink * InkHigh))
  ELSE Result("ambigu", "cv", Capped(10 * crop.ink * InkLow))

-----------------------------------------------------------------------------
(* The decision of the vision model.  "yes" is looked for before "no".     *)

DetectVision(reply) ==
  IF reply = NoReply THEN Result("inconnu", "vision", 0)
  ELSE Result(IF reply.yes THEN "oui" ELSE IF reply.no THEN "non" ELSE "inconnu",
              "vision", One \div 2)

-----------------------------------------------------------------------------
(* detect_signature                                                        *)

AsksVision(crop, ollama_ok) ==
  crop # NoCrop /\ DetectCv(crop).verdict = "ambigu" /\ ollama_ok

Confirmed(cv, vision) ==
  IF vision.verdict = cv.verdict \/ vision.verdict # "inconnu"
  THEN Result(vision.verdict, "cv+vision", vision.confidence)
  ELSE Result("inconnu", "cv+vision", 3 * InkLow * InkHigh)

Guessed(cv) ==
  Result(IF 2 * cv.confidence >= One THEN "oui" ELSE "non", "cv", cv.confidence)

(* Mutants: a request that fails is answered by the measure's guess, as if *)
(* there were no vision model; the vision model is asked about every crop. *)
DetectSignatureGuesses(crop, ollama_ok, reply) ==
  IF crop = NoCrop THEN Result("inconnu", "no_crop", 0)
  ELSE IF AsksVision(crop, ollama_ok) /\ reply # NoReply
       THEN Confirmed(DetectCv(crop), DetectVision(reply))
  ELSE IF DetectCv(crop).verdict = "ambigu" THEN Guessed(DetectCv(crop))
  ELSE DetectCv(crop)

DetectSignatureAsksAlways(crop, ollama_ok, reply) ==
  IF crop = NoCrop THEN Result("inconnu", "no_crop", 0)
  ELSE IF ollama_ok THEN Confirmed(DetectCv(crop), DetectVision(reply))
  ELSE IF DetectCv(crop).verdict = "ambigu" THEN Guessed(DetectCv(crop))
  ELSE DetectCv(crop)

DetectSignature(crop, ollama_ok, reply) ==
  IF crop = NoCrop THEN Result("inconnu", "no_crop", 0)
  ELSE IF AsksVision(crop, ollama_ok) THEN Confirmed(DetectCv(crop), DetectVision(reply))
  ELSE IF DetectCv(crop).verdict = "ambigu" THEN Guessed(DetectCv(crop))
  ELSE DetectCv(crop)

-----------------------------------------------------------------------------
(* What may be written for a crop: every verdict the detector can give it, *)
(* whatever the vision model answers, in a run that has one or has not.    *)
AllowedFor(crop, ollama_ok) ==
  {DetectSignature(crop, ollama_ok, reply).verdict : reply \in Replies}
=============================================================================
