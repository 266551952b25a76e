------------------------------ MODULE DetectorCall ------------------------------
(***************************************************************************)
(* One call of detect_signature: a crop of any ink comes in, and whatever  *)
(* the vision model answers, or does not, one result goes out.             *)
(***************************************************************************)
EXTENDS SignatureDetection

CONSTANT SomeCrops    \* the crops that images give

ASSUME SomeCropsAssumption == SomeCrops \subseteq Inked

VARIABLES crop, ollama_ok, reply, result

vars == <<crop, ollama_ok, reply, result>>

NoResult == Result("pending", "none", 0)

Init == /\ crop \in SomeCrops \cup {NoCrop, EmptyCrop}
        /\ ollama_ok \in BOOLEAN
        /\ reply \in Replies
        /\ result = NoResult

Detect == /\ result = NoResult
          /\ result' = DetectSignature(crop, ollama_ok, reply)
          /\ UNCHANGED <<crop, ollama_ok, reply>>

Next == Detect

Spec == Init /\ [][Next]_vars

-----------------------------------------------------------------------------
Decided == result # NoResult

Unsure == crop # NoCrop /\ DetectCv(crop).verdict = "ambigu"

(* Every result is one the SignatureResult comments admit: the internal    *)
(* verdict "ambigu" of detect_signature_cv never leaves detect_signature,  *)
(* the vision model is named only by a run that may use it, and a crop     *)
(* whose request fails in such a run is "inconnu", never guessed.          *)
ResultOK ==
  Decided => /\ result.verdict \in Verdicts
             /\ result.method \in Methods
             /\ result.method = "cv+vision" => ollama_ok
             /\ Unsure /\ ollama_ok /\ reply = NoReply => result.verdict = "inconnu"

(* Where OpenCV is sure, no answer of the vision model, and no absence of  *)
(* one, changes the verdict: vision only breaks ties.                      *)
VisionOnlyBreaksTies ==
  Decided /\ crop # NoCrop /\ DetectCv(crop).verdict # "ambigu" =>
    \A ok \in BOOLEAN, r \in Replies :
      DetectSignature(crop, ok, r).verdict = result.verdict

(* Without a vision model the detector is monotone: a crop with at least   *)
(* as much ink and as many strokes as one judged signed is judged signed.  *)
(* The two thresholds, the contour count and the median guess of the       *)
(* ambiguous zone must fit together for this.                              *)
MoreInkStaysSigned ==
  Decided /\ ~ollama_ok /\ result.verdict = "oui" =>
    \A c \in SomeCrops :
      c.ink >= crop.ink /\ c.contours >= crop.contours =>
        DetectSignature(c, FALSE, reply).verdict = "oui"
=============================================================================
