------------------------ MODULE SignatureDetectionProofs ------------------------
(***************************************************************************)
(* Proofs about detect_signature, for any crops, any answers of the vision *)
(* model and any two thresholds in their order.                            *)
(***************************************************************************)
EXTENDS DetectorCall, TLAPS

(* A call that is over has returned what detect_signature computes.        *)
CallInv ==
  /\ crop \in Inked \cup {NoCrop, EmptyCrop}
  /\ ollama_ok \in BOOLEAN
  /\ reply \in Replies
  /\ Decided => result = DetectSignature(crop, ollama_ok, reply)

LEMMA CallAlways == Spec => []CallInv
<1>1. Init => CallInv
  BY SomeCropsAssumption DEF Init, CallInv, Decided
<1>2. CallInv /\ [Next]_vars => CallInv'
  <2> SUFFICES ASSUME CallInv, [Next]_vars PROVE CallInv'
    OBVIOUS
  <2>1. CASE Detect
    BY <2>1 DEF Detect, CallInv, Decided
  <2>2. CASE UNCHANGED vars
    BY <2>2 DEF vars, CallInv, Decided
  <2> QED  BY <2>1, <2>2 DEF Next
<1> QED  BY <1>1, <1>2, PTL DEF Spec

-----------------------------------------------------------------------------
(***************************************************************************)
(* The decision.                                                           *)
(***************************************************************************)

LEMMA CvResult ==
  ASSUME NEW c
  PROVE  /\ DetectCv(c).verdict \in Verdicts \cup {"ambigu"}
         /\ DetectCv(c).method = "cv"
BY DEF DetectCv, Result, Verdicts

(* The three ways to a result: no crop, the vision model, OpenCV alone.    *)
LEMMA DetectorResult ==
  ASSUME NEW c, NEW ok \in BOOLEAN, NEW r \in Replies
  PROVE  /\ DetectSignature(c, ok, r).verdict \in Verdicts
         /\ DetectSignature(c, ok, r).method \in Methods
         /\ DetectSignature(c, ok, r).method = "cv+vision" => ok
         /\ AsksVision(c, ok) /\ r = NoReply
              => DetectSignature(c, ok, r).verdict = "inconnu"
<1>1. CASE c = NoCrop
  BY <1>1 DEF DetectSignature, AsksVision, Result, Verdicts, Methods
<1>2. CASE c # NoCrop /\ AsksVision(c, ok)
  <2>1. DetectVision(r).verdict \in Verdicts /\ ok
    BY <1>2 DEF DetectVision, Result, Verdicts, AsksVision
  <2>2. r = NoReply => DetectVision(r).verdict = "inconnu"
    BY DEF DetectVision, Result
  <2> QED  BY <1>2, <2>1, <2>2 DEF DetectSignature, Confirmed, Result, Verdicts, Methods
<1>3. CASE c # NoCrop /\ ~AsksVision(c, ok) /\ DetectCv(c).verdict = "ambigu"
  BY <1>3 DEF DetectSignature, Guessed, Result, Verdicts, Methods
<1>4. CASE c # NoCrop /\ ~AsksVision(c, ok) /\ DetectCv(c).verdict # "ambigu"
  BY <1>4, CvResult DEF DetectSignature, Methods
<1> QED  BY <1>1, <1>2, <1>3, <1>4

(* Every result can be written, the vision model is named only by a run    *)
(* that has one, and a request that fails is not made a guess: "ambigu"    *)
(* never leaves detect_signature.                                          *)
THEOREM ResultsAreWritable == Spec => []ResultOK
<1>1. CallInv => ResultOK
  BY DetectorResult DEF CallInv, ResultOK, Unsure, AsksVision
<1> QED  BY <1>1, CallAlways, PTL

(* Where OpenCV is sure, neither an answer of the vision model nor its     *)
(* absence changes the verdict.                                            *)
THEOREM VisionIsATieBreaker == Spec => []VisionOnlyBreaksTies
<1>1. CallInv => VisionOnlyBreaksTies
  <2> SUFFICES ASSUME CallInv, Decided, crop # NoCrop, DetectCv(crop).verdict # "ambigu",
                      NEW ok \in BOOLEAN, NEW r \in Replies
               PROVE  DetectSignature(crop, ok, r).verdict = result.verdict
    BY DEF VisionOnlyBreaksTies
  <2>1. DetectSignature(crop, ok, r) = DetectCv(crop)
    BY DEF DetectSignature, AsksVision
  <2>2. DetectSignature(crop, ollama_ok, reply) = DetectCv(crop)
    BY DEF DetectSignature, AsksVision
  <2> QED  BY <2>1, <2>2 DEF CallInv
<1> QED  BY <1>1, CallAlways, PTL

-----------------------------------------------------------------------------
(* The guess of the ambiguous zone is a threshold on the ink: half of      *)
(* InkHigh.                                                                *)
LEMMA GuessIsHalfTheInk ==
  ASSUME NEW ink \in Nat
  PROVE  2 * Capped(10 * ink * InkLow) >= One <=> 2 * ink >= InkHigh
<1> DEFINE x == ink * InkLow
           y == InkLow * InkHigh
<1>1. /\ x \in Nat /\ y \in Nat
      /\ 10 * ink * InkLow = 10 * x /\ One = 10 * y
  BY InkAssumption DEF One
<1>2. 2 * x >= y <=> 2 * ink >= InkHigh
  BY InkAssumption
<1>3. x > y => 2 * ink >= InkHigh
  BY InkAssumption
<1> HIDE DEF x, y
<1> QED  BY <1>1, <1>2, <1>3 DEF Capped

(* Without a vision model, "oui" is three thresholds.                      *)
LEMMA SignedWithoutVision ==
  ASSUME NEW c \in Inked, NEW r \in Replies
  PROVE  DetectSignature(c, FALSE, r).verdict = "oui"
           <=> \/ c.ink >= InkHigh /\ c.contours >= 2
               \/ c.ink > InkLow /\ c.contours # 0 /\ 2 * c.ink >= InkHigh
<1>1. /\ c # NoCrop /\ c # EmptyCrop
      /\ c.ink \in Nat /\ c.contours \in Nat /\ InkLow \in Nat /\ InkHigh \in Nat
  BY CropAssumption, InkAssumption DEF Inked
<1>2. DetectSignature(c, FALSE, r)
        = IF DetectCv(c).verdict = "ambigu" THEN Guessed(DetectCv(c)) ELSE DetectCv(c)
  BY <1>1 DEF DetectSignature, AsksVision
<1> DEFINE conf == Capped(10 * c.ink * InkLow)
           rest == Capped(One - 10 * c.ink * InkHigh)
           sure == c.ink >= InkHigh /\ c.contours >= 2
           bare == c.ink <= InkLow \/ c.contours = 0
<1>3. DetectCv(c) = IF sure THEN Result("oui", "cv", conf)
                    ELSE IF bare THEN Result("non", "cv", rest)
                    ELSE Result("ambigu", "cv", conf)
  BY <1>1 DEF DetectCv
<1>4. 2 * conf >= One <=> 2 * c.ink >= InkHigh
  BY <1>1, GuessIsHalfTheInk
<1>5. bare <=> ~(c.ink > InkLow /\ c.contours # 0)
  BY <1>1
<1> HIDE DEF conf, rest, sure, bare
<1>6. CASE sure
  <2>1. DetectCv(c) = Result("oui", "cv", conf)
    BY <1>3, <1>6
  <2>2. DetectCv(c).verdict = "oui"
    BY <2>1 DEF Result
  <2>3. DetectSignature(c, FALSE, r).verdict = "oui"
    BY <1>2, <2>2
  <2> QED  BY <1>6, <2>3 DEF sure
<1>7. CASE ~sure /\ bare
  <2>1. DetectCv(c) = Result("non", "cv", rest)
    BY <1>3, <1>7
  <2>2. DetectCv(c).verdict = "non"
    BY <2>1 DEF Result
  <2>3. DetectSignature(c, FALSE, r).verdict = "non"
    BY <1>2, <2>2
  <2> QED  BY <1>5, <1>7, <2>3 DEF sure
<1>8. CASE ~sure /\ ~bare
  <2>1. DetectCv(c) = Result("ambigu", "cv", conf)
    BY <1>3, <1>8
  <2>2. DetectCv(c).verdict = "ambigu" /\ DetectCv(c).confidence = conf
    BY <2>1 DEF Result
  <2>3. DetectSignature(c, FALSE, r).verdict = IF 2 * conf >= One THEN "oui" ELSE "non"
    <3>1. DetectSignature(c, FALSE, r) = Guessed(DetectCv(c))
      BY <1>2, <2>2
    <3>2. Guessed(DetectCv(c)).verdict
            = IF 2 * DetectCv(c).confidence >= One THEN "oui" ELSE "non"
      BY DEF Guessed, Result
    <3> QED  BY <2>2, <3>1, <3>2
  <2>4. DetectSignature(c, FALSE, r).verdict = "oui" <=> 2 * c.ink >= InkHigh
    BY <1>4, <2>3
  <2> QED  BY <1>5, <1>8, <2>4 DEF sure
<1> QED  BY <1>6, <1>7, <1>8

(* Whatever the two thresholds are, a crop with at least as much ink and   *)
(* as many strokes as one judged signed is judged signed.                  *)
THEOREM MoreInkIsStillSigned == Spec => []MoreInkStaysSigned
<1>1. CallInv => MoreInkStaysSigned
  <2> SUFFICES ASSUME CallInv, Decided, ~ollama_ok, result.verdict = "oui",
                      NEW c \in SomeCrops, c.ink >= crop.ink, c.contours >= crop.contours
               PROVE  DetectSignature(c, FALSE, reply).verdict = "oui"
    BY DEF MoreInkStaysSigned
  <2>1. result = DetectSignature(crop, FALSE, reply)
    BY DEF CallInv
  <2>2. crop \in Inked
    <3>1. crop # NoCrop /\ crop # EmptyCrop
      BY <2>1 DEF DetectSignature, AsksVision, DetectCv, Result
    <3> QED  BY <3>1 DEF CallInv
  <2>3. c \in Inked
    BY SomeCropsAssumption
  <2>4. /\ crop.ink \in Nat /\ crop.contours \in Nat /\ c.ink \in Nat /\ c.contours \in Nat
        /\ InkLow \in Nat /\ InkHigh \in Nat
    BY <2>2, <2>3, InkAssumption DEF Inked
  <2>5. \/ crop.ink >= InkHigh /\ crop.contours >= 2
        \/ crop.ink > InkLow /\ crop.contours # 0 /\ 2 * crop.ink >= InkHigh
    BY <2>1, <2>2, SignedWithoutVision DEF CallInv
  <2>6. \/ c.ink >= InkHigh /\ c.contours >= 2
        \/ c.ink > InkLow /\ c.contours # 0 /\ 2 * c.ink >= InkHigh
    BY <2>4, <2>5
  <2> QED  BY <2>3, <2>6, SignedWithoutVision DEF CallInv
<1> QED  BY <1>1, CallAlways, PTL
=============================================================================
