------------------------ MODULE FrameProcessingProofs ------------------------
(***************************************************************************)
(* Proofs about FrameProcessing for any two views, pairs, registrations,   *)
(* colliders, budgets and numbers of rigs and frames: the points that are  *)
(* fused were put where the fitter is told; what the fitter learns of the  *)
(* subject comes from validated colliders and only gets better; a collider *)
(* is labelled "observed" only when points measured it; two opposing views *)
(* make one body; and both decoders accept what is published.              *)
(*                                                                         *)
(* A view that is not rebuilt by a registration keeps the placement it was *)
(* reconstructed with, so while the views wait it must still be the        *)
(* effective one (Placed): nothing that decides it may change meanwhile.   *)
(* Between the fit and the publication the work must be all that a frame   *)
(* is made of (WellFitted): fits whose labels and lessons are measurements *)
(* of this cloud (IsFit), their verdicts, a cloud within the budget and    *)
(* landmarks a frame may carry.  That a frame is readable is then a chain  *)
(* of facts about the wire: a validated collider and a valid landmark are  *)
(* what the decoders accept, and the two buffers partition the payload.    *)
(*                                                                         *)
(* An opposing assembly applies its warp to the points below the heights   *)
(* it was measured at.  It meets the front at these heights because they   *)
(* rise - a constrained profile spans half a metre - so that interpolation *)
(* returns what was measured.                                              *)
(*                                                                         *)
(* The last part is about FrameLink, for any message and any clocks that   *)
(* are farther apart than a jump: what the ingest and the mod accept is    *)
(* whole (buffers that a decoder accepts are Tiled: one behind the other   *)
(* from the first to the last byte); backend and mod accept the same       *)
(* messages, each side's checks taken apart into what they say of the      *)
(* message; and what a clock estimator keeps are round trips of one clock. *)
(***************************************************************************)
EXTENDS FrameProcessing, FrameLink, FiniteSetTheorems, SequenceTheorems, WellFoundedInduction, TLAPS

-----------------------------------------------------------------------------
(* Sequences and verdicts. *)

LEMMA HasFirst ==
  ASSUME NEW s, IsSequence(s), s # <<>>
  PROVE  1 \in DOMAIN s
<1> DEFINE R == Range(s)
<1>1. s \in Seq(R)
  BY DEF IsSequence
<1> HIDE DEF R
<1>2. Len(s) \in Nat /\ DOMAIN s = 1 .. Len(s) /\ Len(s) # 0
  BY <1>1
<1> QED BY <1>2

LEMMA LongEnough ==
  ASSUME NEW s, IsSequence(s), Len(s) >= 2
  PROVE  1 \in DOMAIN s /\ 2 \in DOMAIN s
<1> DEFINE R == Range(s)
<1>1. s \in Seq(R)
  BY DEF IsSequence
<1> HIDE DEF R
<1>2. Len(s) \in Nat /\ DOMAIN s = 1 .. Len(s)
  BY <1>1
<1> QED BY <1>2

\* What a collider may be: its anatomical cap is a length on the wire.
LEMMA Caps ==
  ASSUME NEW i \in DOMAIN Required
  PROVE  Required[i].cap \in Int /\ Required[i].cap <= MaxSize /\ MaxSize \in Int
<1>1. MaxSize \in Nat /\ Required[i].cap \in 1 .. MaxSize
  BY WireAssumption, Zenon
<1> QED BY <1>1
-----------------------------------------------------------------------------
(* What a fit returns. *)

Guessed == {"subject_default", "global_default"}

LEMMA Ranks == Rank["observed"] = 2 /\ Rank["subject_default"] = 1 /\ Rank["global_default"] = 0
BY DEF Rank, Sources

LEMMA GuessesAreWeak ==
  ASSUME NEW sources, sources \subseteq Guessed, sources # {}
  PROVE  Weakest(sources) \in Guessed
<1>1. \E s \in sources : \A t \in sources : Rank[s] <= Rank[t]
  <2>1. CASE "global_default" \in sources
    BY <2>1, Ranks DEF Guessed
  <2>2. CASE "global_default" \notin sources
    <3>1. sources = {"subject_default"}
      BY <2>2 DEF Guessed
    <3> QED BY <3>1, Ranks
  <2> QED BY <2>1, <2>2
<1>2. Weakest(sources) \in sources
  BY <1>1 DEF Weakest
<1> QED BY <1>2

LEMMA GuessOutweighs ==
  ASSUME NEW t \in Guessed
  PROVE  Weakest({"observed", t}) # "observed"
<1>1. Rank[t] < Rank["observed"] /\ Rank[t] \in Int /\ Rank["observed"] \in Int
  BY Ranks DEF Guessed
<1>2. \E s \in {"observed", t} : \A u \in {"observed", t} : Rank[s] <= Rank[u]
  BY <1>1
<1>3. Rank[Weakest({"observed", t})] <= Rank[t]
  BY <1>2 DEF Weakest
<1> QED BY <1>1, <1>3

\* What is known of the subject.
IsEstimate(est) == est \in [value : Int, source : Sources, samples : {est.samples}, spread : Nat]

IsSubject(known) == \A d \in Dimensions : IsEstimate(known[d])

LEMMA Guesses ==
  ASSUME NEW known, IsSubject(known), NEW d \in Dimensions
  PROVE  /\ AsSubjectDefault(known, d).source \in Guessed
         /\ AsSubjectDefault(known, d).value \in Int
<1>1. known[d] \in [value : Int, source : Sources, samples : {known[d].samples}, spread : Nat]
  BY DEF IsSubject, IsEstimate
<1>2. known[d].source \in Sources /\ known[d].value \in Int
  BY <1>1
<1>3. /\ [known[d] EXCEPT !.source = "subject_default"].source = "subject_default"
      /\ [known[d] EXCEPT !.source = "subject_default"].value = known[d].value
  BY <1>1
<1> QED BY <1>2, <1>3 DEF AsSubjectDefault, Guessed, Sources

IsLesson(u) ==
    /\ u = [of |-> u.of, est |-> u.est]
    /\ IsEstimate(u.est) /\ u.est.source = "observed"

IsPlace(place, spec) ==
    place.spread \in Nat /\ \A k \in DOMAIN spec.dimensions : place.measured[k] \in Int

(***************************************************************************)
(* The label of a fit says whether points measured it, and a lesson is a   *)
(* measurement by as many points as the part needs, n at most.             *)
(***************************************************************************)
Honest(fit, spec) ==
    fit.collider.enabled /\ spec.id # "torso.pelvis" =>
        (fit.collider.source = "observed" <=> fit.updates # <<>>)

Teaches(fit, spec, n) ==
    \A k \in DOMAIN fit.updates :
        IsLesson(fit.updates[k]) /\ fit.updates[k].est.samples \in MinSupport[spec.part] .. n

Named(collider, spec) ==
    /\ collider.id = spec.id
    /\ collider.enabled \in BOOLEAN /\ (collider.enabled => collider.size \in Int)

IsFit(fit, spec, n) == Named(fit.collider, spec) /\ Honest(fit, spec) /\ Teaches(fit, spec, n)

LEMMA NothingTaught ==
  ASSUME NEW fit, fit.updates = <<>>, NEW spec, NEW n
  PROVE  Teaches(fit, spec, n)
BY DEF Teaches

LEMMA FittedSays ==
  ASSUME NEW i \in DOMAIN Required, NEW place, NEW size \in Int, NEW source, NEW base
  PROVE  /\ Fitted(Required[i], place, size, source, base).source = source
         /\ Named(Fitted(Required[i], place, size, source, base), Required[i])
<1>1. Required[i].cap \in Int
  BY Caps
<1>2. Fitted(Required[i], place, size, source, base).size \in Int
  BY <1>1 DEF Fitted, Least
<1> QED BY <1>2 DEF Named, Fitted

LEMMA UnplacedFit ==
  ASSUME NEW spec, NEW n
  PROVE  IsFit(FitUnplaced(spec), spec, n)
<1>1. Teaches(FitUnplaced(spec), spec, n)
  BY NothingTaught DEF FitUnplaced
<1> QED BY <1>1 DEF IsFit, Honest, Named, FitUnplaced, Disabled

LEMMA SubjectFit ==
  ASSUME NEW i \in DOMAIN Required, NEW place, NEW known, IsSubject(known), NEW n
  PROVE  IsFit(FitFromSubject(Required[i], place, known), Required[i], n)
<1> DEFINE spec == Required[i]
           guesses == [k \in DOMAIN spec.dimensions |-> AsSubjectDefault(known, spec.dimensions[k])]
           sources == {guesses[k].source : k \in DOMAIN guesses}
           fit == FitFromSubject(spec, place, known)
<1>1. IsSequence(spec.dimensions) /\ spec.dimensions # <<>> /\ Range(spec.dimensions) \subseteq Dimensions
  BY FittingAssumption DEF Dimensions
<1>2. \A k \in DOMAIN spec.dimensions : spec.dimensions[k] \in Dimensions
  BY <1>1 DEF Range
<1>3. 1 \in DOMAIN spec.dimensions
  BY <1>1, HasFirst
<1>4. sources \subseteq Guessed /\ sources # {} /\ guesses[1].value \in Int
  BY <1>2, <1>3, Guesses
<1>5. Weakest(sources) \in Guessed
  <2> HIDE DEF sources
  <2> QED BY <1>4, GuessesAreWeak
<1>6. /\ fit.collider = Fitted(spec, place, guesses[1].value, Weakest(sources), place.base)
      /\ fit.updates = <<>>
  BY DEF FitFromSubject
<1>7. fit.collider.source = Weakest(sources) /\ Named(fit.collider, spec)
  <2> HIDE DEF fit, sources, guesses
  <2> QED BY <1>4, <1>6, FittedSays
<1>8. fit.collider.source # "observed"
  BY <1>5, <1>7 DEF Guessed
<1> HIDE DEF fit, sources, guesses, spec
<1>9. IsFit(fit, spec, n)
  BY <1>6, <1>7, <1>8, NothingTaught DEF IsFit, Honest
<1> QED BY <1>9 DEF fit, spec

LEMMA MeasuredFit ==
  ASSUME NEW i \in DOMAIN Required, NEW place, IsPlace(place, Required[i]), NEW n \in Nat,
         NEW points \in Nat, points >= MinSupport[Required[i].part], points <= n
  PROVE  IsFit(FitMeasured(Required[i], place, points), Required[i], n)
<1> DEFINE spec == Required[i]
           fit == FitMeasured(spec, place, points)
           learned(k) == IF spec.part \in {"limb", "head"} THEN Least(place.measured[k], spec.cap)
                         ELSE place.measured[k]
<1>1. IsSequence(spec.dimensions) /\ spec.dimensions # <<>> /\ MinSupport[spec.part] \in Nat
  BY FittingAssumption
<1>2. 1 \in DOMAIN spec.dimensions
  BY <1>1, HasFirst
<1>3. spec.cap \in Int
  BY Caps
<1>4. place.measured[1] \in Int /\ \A k \in DOMAIN spec.dimensions : learned(k) \in Int
  BY <1>2, <1>3 DEF IsPlace, Least
<1>5. fit.collider = Fitted(spec, place, place.measured[1], "observed", place.quality)
  BY DEF FitMeasured
<1>6. fit.collider.source = "observed" /\ Named(fit.collider, spec)
  <2> HIDE DEF fit
  <2> QED BY <1>4, <1>5, FittedSays
<1>7. points \in MinSupport[spec.part] .. n
  BY <1>1
<1>8. CASE spec.id # "torso.pelvis"
  <2>1. /\ DOMAIN fit.updates = DOMAIN spec.dimensions
        /\ \A k \in DOMAIN spec.dimensions :
              fit.updates[k] = [of |-> spec.dimensions[k],
                                est |-> Estimate(learned(k), points, place.spread)]
    BY <1>8 DEF FitMeasured
  <2>2. fit.updates # <<>>
    BY <1>2, <2>1
  <2> HIDE DEF learned
  <2>3. ASSUME NEW k \in DOMAIN fit.updates
        PROVE  IsLesson(fit.updates[k]) /\ fit.updates[k].est.samples = points
    <3>1. learned(k) \in Int /\ place.spread \in Nat
      BY <1>4, <2>1, <2>3 DEF IsPlace
    <3>2. fit.updates[k] = [of |-> spec.dimensions[k],
                            est |-> Estimate(learned(k), points, place.spread)]
      BY <2>1, <2>3
    <3> HIDE DEF fit
    <3> QED BY <3>1, <3>2 DEF IsLesson, IsEstimate, Estimate, Sources
  <2> HIDE DEF fit, spec
  <2>4. IsFit(fit, spec, n)
    BY <1>6, <1>7, <2>2, <2>3 DEF IsFit, Honest, Teaches
  <2> QED BY <2>4 DEF fit, spec
<1>9. CASE spec.id = "torso.pelvis"
  <2>1. fit.updates = <<>>
    BY <1>9 DEF FitMeasured
  <2> HIDE DEF fit, spec
  <2>2. IsFit(fit, spec, n)
    BY <1>6, <1>9, <2>1, NothingTaught DEF IsFit, Honest
  <2> QED BY <2>2 DEF fit, spec
<1> QED BY <1>8, <1>9

LEMMA SurfaceFit ==
  ASSUME NEW i \in DOMAIN Required, NEW place, IsPlace(place, Required[i]),
         NEW n \in Nat, NEW points \in Nat, points <= n, NEW known, IsSubject(known)
  PROVE  IsFit(FitFromSurface(Required[i], place, points, known), Required[i], n)
BY UnplacedFit, SubjectFit, MeasuredFit DEF FitFromSurface

LEMMA HandFit ==
  ASSUME NEW i \in DOMAIN Required, Required[i].part = "hand",
         NEW place, IsPlace(place, Required[i]),
         NEW n \in Nat, NEW points \in Nat, points <= n, NEW known, IsSubject(known)
  PROVE  IsFit(FitHand(Required[i], place, points, known), Required[i], n)
<1> DEFINE spec == Required[i]
           fit == FitHand(spec, place, points, known)
           thickness == AsSubjectDefault(known, spec.dimensions[2])
           source == Weakest({"observed", thickness.source})
           sized == [collider |-> Fitted(spec, place, place.measured[1], source, place.quality),
                     updates |-> <<>>]
<1>1. /\ IsSequence(spec.dimensions) /\ Len(spec.dimensions) >= 2
      /\ Range(spec.dimensions) \subseteq Dimensions
  BY FittingAssumption DEF Dimensions
<1>2. 1 \in DOMAIN spec.dimensions /\ 2 \in DOMAIN spec.dimensions
  BY <1>1, LongEnough
<1>3. spec.dimensions[2] \in Dimensions /\ place.measured[1] \in Int
  BY <1>1, <1>2 DEF Range, IsPlace
<1>4. thickness.source \in Guessed
  BY <1>3, Guesses
<1>5. source # "observed"
  <2> HIDE DEF thickness
  <2> QED BY <1>4, GuessOutweighs
<1> HIDE DEF source
<1>6. sized.collider.source = source /\ Named(sized.collider, spec) /\ sized.updates = <<>>
  BY <1>3, FittedSays
<1>7. \/ fit = FitUnplaced(spec)
      \/ fit = FitFromSubject(spec, place, known)
      \/ points >= MinSupport[spec.part] /\ fit = FitMeasured(spec, place, points)
      \/ fit = sized
  BY DEF FitHand, source
<1> HIDE DEF fit, sized
<1>8. sized.collider.enabled /\ spec.id # "torso.pelvis" =>
        (sized.collider.source = "observed" <=> sized.updates # <<>>)
  BY <1>5, <1>6
<1>9. IsFit(sized, spec, n)
  BY <1>6, <1>8, NothingTaught DEF IsFit, Honest
<1>10. IsFit(fit, spec, n)
  BY <1>7, <1>9, UnplacedFit, SubjectFit, MeasuredFit
<1> QED BY <1>10 DEF fit

\* The points of a collider are points of the cloud.
LEMMA PointsCounted ==
  ASSUME NEW spec, NEW body, NEW known, IsFiniteSet(body.cloud)
  PROVE  /\ PointsOf(spec, body, known) \in Nat
         /\ PointsOf(spec, body, known) <= Cardinality(body.cloud)
<1> DEFINE mine == {p \in body.cloud :
                      /\ AssignPoints(p, BodySegments(body), body, known) \in spec.segments
                      /\ spec.id \in p.within}
<1>1. mine \subseteq body.cloud /\ PointsOf(spec, body, known) = Cardinality(mine)
  BY DEF PointsOf
<1> HIDE DEF mine
<1> QED BY <1>1, FS_Subset, FS_CardinalityType

\* Whatever a fitter does, what it says it measured is a measurement.
LEMMA OneFit ==
  ASSUME NEW i \in DOMAIN Required, NEW body, IsFiniteSet(body.cloud),
         IsPlace(body.place[Required[i].id], Required[i]),
         NEW known, IsSubject(known), NEW planted
  PROVE  IsFit(FitOne(Required[i], body, known, planted), Required[i], Cardinality(body.cloud))
<1> DEFINE spec == Required[i]
           place == body.place[spec.id]
           points == PointsOf(spec, body, known)
           n == Cardinality(body.cloud)
           fit == FitOne(spec, body, known, planted)
<1>1. points \in Nat /\ n \in Nat /\ points <= n
  BY PointsCounted, FS_CardinalityType
<1>2. \/ spec.part = "hand" /\ fit = FitHand(spec, place, points, known)
      \/ fit = FitUnplaced(spec)
      \/ fit = FitFromSurface(spec, place, points, known)
  BY DEF FitOne, FitFoot
<1> HIDE DEF points, n, place, fit
<1>3. IsPlace(place, spec)
  BY DEF place
<1>4. fit = FitFromSurface(spec, place, points, known) => IsFit(fit, spec, n)
  BY <1>1, <1>3, SurfaceFit
<1>5. spec.part = "hand" /\ fit = FitHand(spec, place, points, known) => IsFit(fit, spec, n)
  BY <1>1, <1>3, HandFit
<1>6. IsFit(fit, spec, n)
  BY <1>2, <1>4, <1>5, UnplacedFit
<1> QED BY <1>6 DEF n, fit

\* No two fitters return the same collider, so each is its own verdict.
LEMMA Typed ==
  ASSUME NEW fitted, DOMAIN fitted = DOMAIN Required,
         \A k \in DOMAIN Required : fitted[k].id = Required[k].id, NEW i \in DOMAIN Required
  PROVE  FinalizeColliderSet(fitted)[i] = ValidateFitted(fitted[i], Required[i])
<1> DEFINE mine == {k \in DOMAIN fitted : fitted[k].id = Required[i].id}
<1>1. mine = {i}
  BY WireAssumption
<1>2. FinalizeColliderSet(fitted)[i] =
        IF Cardinality(mine) = 1 THEN ValidateFitted(fitted[CHOOSE k \in mine : TRUE], Required[i])
        ELSE Disabled(Required[i])
  BY DEF FinalizeColliderSet
<1> HIDE DEF mine
<1>3. Cardinality(mine) = 1 /\ (CHOOSE k \in mine : TRUE) = i
  BY <1>1, FS_Singleton
<1> QED BY <1>2, <1>3
-----------------------------------------------------------------------------
(* Verdicts. *)

LEMMA LessWellFounded ==
  \E R : IsWellFoundedOn(R, Nat) /\ \A x, y \in Nat : <<y, x>> \in R <=> y < x
<1> DEFINE R == OpToRel(<, Nat)
<1>1. IsWellFoundedOn(R, Nat)
  BY NatLessThanWellFounded
<1>2. \A x, y \in Nat : <<y, x>> \in R <=> y < x
  BY DEF OpToRel
<1> QED BY <1>1, <1>2, Zenon

LEMMA LeastNumber ==
  ASSUME NEW T, T \subseteq Nat, T # {}
  PROVE  \E x \in T : \A y \in T : x <= y
<1>1. PICK R : IsWellFoundedOn(R, Nat) /\ \A x, y \in Nat : <<y, x>> \in R <=> y < x
  BY LessWellFounded
<1>2. PICK x \in T : \A y \in T : ~ (<<y, x>> \in R)
  BY <1>1, WFMin
<1>3. ASSUME NEW y \in T PROVE x <= y
  <2>1. x \in Nat /\ y \in Nat
    OBVIOUS
  <2>2. ~(y < x)
    BY <1>1, <1>2, <2>1, Zenon
  <2> QED BY <2>1, <2>2
<1> QED BY <1>3

LEMMA MinIsLeast ==
  ASSUME NEW T, T \subseteq Nat, T # {}
  PROVE  Min(T) \in T /\ \A y \in T : Min(T) <= y
<1>1. \E x \in T : \A y \in T : x <= y
  BY LeastNumber
<1> QED BY <1>1 DEF Min

LEMMA FirstOk ==
  ASSUME NEW codes, \A i \in DOMAIN codes : codes[i] = "ok"
  PROVE  First(codes) = "ok"
BY DEF First

LEMMA PairOk ==
  ASSUME NEW a, NEW b, a = "ok", b = "ok"
  PROVE  First(<<a, b>>) = "ok"
<1> DEFINE codes == <<a, b>>
<1>1. \A k \in DOMAIN codes : codes[k] = "ok"
  OBVIOUS
<1> HIDE DEF codes
<1>2. First(codes) = "ok"
  BY <1>1, FirstOk
<1> QED BY <1>2 DEF codes

LEMMA AllOk ==
  ASSUME NEW codes, DOMAIN codes \subseteq Nat, First(codes) = "ok", NEW i \in DOMAIN codes
  PROVE  codes[i] = "ok"
<1> DEFINE raised == {j \in DOMAIN codes : codes[j] # "ok"}
<1>1. raised # {} => Min(raised) \in raised
  <2>1. raised \subseteq Nat
    OBVIOUS
  <2> HIDE DEF raised
  <2> QED BY <2>1, MinIsLeast
<1>2. First(codes) = IF raised = {} THEN "ok" ELSE codes[Min(raised)]
  BY DEF First
<1>3. \A j \in raised : codes[j] # "ok"
  OBVIOUS
<1>4. raised = {}
  <2> HIDE DEF raised
  <2> QED BY <1>1, <1>2, <1>3
<1> QED BY <1>4

LEMMA FiniteOk ==
  ASSUME NEW v, v \notin {"not_vector", "non_finite"}
  PROVE  FiniteVec(v) = "ok"
<1> DEFINE codes == <<Check(v # "not_vector", "invalid_message"),
                      Check(v # "non_finite", "non_finite_geometry")>>
<1>1. \A k \in DOMAIN codes : codes[k] = "ok"
  BY DEF Check
<1> HIDE DEF codes
<1>2. First(codes) = "ok"
  BY <1>1, FirstOk
<1> QED BY <1>2 DEF codes, FiniteVec

-----------------------------------------------------------------------------
(* Validated colliders on the wire. *)

\* A collider of the set that is enabled is one the decoders accept.
IsSound(c, spec) ==
    /\ c.enabled \in BOOLEAN
    /\ c.id = spec.id /\ c.type = spec.type
    /\ c.enabled => /\ c.vectors = "finite" /\ SizeInRange(c.size)
                    /\ c.type = "obb" => c.axes = "orthonormal"

LEMMA ValidatedIsSound ==
  ASSUME NEW i \in DOMAIN Required, NEW c, Named(c, Required[i])
  PROVE  IsSound(ValidateFitted(c, Required[i]), Required[i])
<1> DEFINE spec == Required[i]
<1>1. CASE ValidateFitted(c, spec) = Disabled(spec)
  BY <1>1 DEF IsSound, Disabled
<1>2. CASE c.enabled /\ CheckCommon(c, spec) = "ok" /\ CheckGeometry(c, spec) = "ok"
  <2> DEFINE common == <<Check(c.type = spec.type, "type_mismatch"),
                         Check(c.quality # NaN, "non_finite_quality"),
                         Check(c.quality = NoQuality \/ c.quality >= spec.minQuality, "low_quality")>>
             geometry == <<Check(c.vectors = "finite", "non_finite_vector"),
                           Check(c.size # NaN /\ c.size > 0, "non_positive_size"),
                           Check(c.size <= spec.cap, "size_exceeds_anatomy"),
                           Check(c.type = "capsule" => c.span >= MinLength, "coincident_endpoints"),
                           Check(c.type = "obb" => c.axes = "orthonormal", "axes"),
                           Check(c.inStage, "outside_stage")>>
  <2>1. First(common) = "ok" /\ First(geometry) = "ok"
    BY <1>2 DEF CheckCommon, CheckGeometry
  <2>2. DOMAIN common = 1 .. 3 /\ DOMAIN geometry = 1 .. 6
    OBVIOUS
  <2>3. /\ common[1] = Check(c.type = spec.type, "type_mismatch")
        /\ geometry[1] = Check(c.vectors = "finite", "non_finite_vector")
        /\ geometry[2] = Check(c.size # NaN /\ c.size > 0, "non_positive_size")
        /\ geometry[3] = Check(c.size <= spec.cap, "size_exceeds_anatomy")
        /\ geometry[5] = Check(c.type = "obb" => c.axes = "orthonormal", "axes")
    OBVIOUS
  <2> HIDE DEF common, geometry
  <2>4. DOMAIN common \subseteq Nat /\ DOMAIN geometry \subseteq Nat
    BY <2>2
  <2>5. /\ common[1] = "ok" /\ geometry[1] = "ok" /\ geometry[2] = "ok"
        /\ geometry[3] = "ok" /\ geometry[5] = "ok"
    BY <2>1, <2>2, <2>4, AllOk
  <2>6. /\ c.type = spec.type /\ c.vectors = "finite" /\ c.size # NaN /\ c.size > 0
        /\ c.size <= spec.cap /\ (c.type = "obb" => c.axes = "orthonormal")
    BY <2>3, <2>5 DEF Check
  <2>7. c.size \in Int /\ c.id = spec.id /\ c.enabled \in BOOLEAN
    BY <1>2 DEF Named
  <2>8. spec.cap \in Int /\ spec.cap <= MaxSize /\ MaxSize \in Int
    BY Caps
  <2>9. ValidateFitted(c, spec) = c
    BY <1>2 DEF ValidateFitted
  <2> HIDE DEF spec
  <2>10. IsSound(c, spec)
    BY <1>2, <2>6, <2>7, <2>8 DEF IsSound, SizeInRange
  <2> QED BY <2>9, <2>10 DEF spec
<1> QED BY <1>1, <1>2 DEF ValidateFitted

LEMMA SoundIsWritten ==
  ASSUME NEW i \in DOMAIN Required, NEW c, IsSound(c, Required[i])
  PROVE  /\ ToTransport(c).id = Required[i].id /\ ToTransport(c).valid = c.enabled
         /\ DecodeCollider(ToTransport(c)) = "ok"
<1> DEFINE t == ToTransport(c)
           spec == Required[i]
           codes == <<Check(t.id # "" /\ IdBytes(t.id) <= MaxIdBytes, "invalid_message"),
                      Check(t.type \in {"sphere", "capsule", "obb"}, "invalid_message"),
                      IF t.valid THEN DecodeGeometry(t) ELSE "ok">>
<1>1. t.id = spec.id /\ t.type = spec.type /\ t.valid = c.enabled
  BY DEF IsSound, ToTransport
<1>2. c.enabled => /\ t.geometry.vectors = "finite" /\ SizeInRange(t.geometry.size)
                   /\ t.type = "obb" => t.geometry.axes = "orthonormal"
  BY DEF IsSound, ToTransport
<1>3. /\ spec.id # "" /\ IdBytes(spec.id) <= MaxIdBytes
      /\ spec.type \in {"sphere", "capsule", "obb"}
  BY WireAssumption, Zenon
<1>4. ASSUME c.enabled PROVE DecodeGeometry(t) = "ok"
  <2> DEFINE g == t.geometry
             round == <<FiniteVec(g.vectors), PositiveSize(g.size)>>
             box == <<FiniteVec(g.axes), Check(g.axes # "skewed", "invalid_collider_geometry"),
                      PositiveSize(g.size), FiniteVec(g.vectors)>>
  <2>1. FiniteVec(g.vectors) = "ok" /\ PositiveSize(g.size) = "ok"
    <3>1. FiniteVec(g.vectors) = "ok"
      BY <1>2, <1>4, FiniteOk
    <3> QED BY <1>2, <1>4, <3>1 DEF PositiveSize, Check
  <2>2. First(round) = "ok"
    <3>1. \A k \in DOMAIN round : round[k] = "ok"
      BY <2>1
    <3> HIDE DEF round
    <3> QED BY <3>1, FirstOk
  <2>3. t.type = "obb" => First(box) = "ok"
    <3> SUFFICES ASSUME t.type = "obb" PROVE First(box) = "ok"
      OBVIOUS
    <3>1. g.axes = "orthonormal"
      BY <1>2, <1>4
    <3>2. FiniteVec(g.axes) = "ok"
      BY <3>1, FiniteOk
    <3>3. \A k \in DOMAIN box : box[k] = "ok"
      BY <2>1, <3>1, <3>2 DEF Check
    <3> HIDE DEF box
    <3> QED BY <3>3, FirstOk
  <2> QED BY <2>2, <2>3 DEF DecodeGeometry
<1>5. \A k \in DOMAIN codes : codes[k] = "ok"
  <2>1. t.id # "" /\ IdBytes(t.id) <= MaxIdBytes
    BY <1>1, <1>3
  <2>2. t.type \in {"sphere", "capsule", "obb"}
    BY <1>1, <1>3
  <2>3. t.valid = TRUE => DecodeGeometry(t) = "ok"
    BY <1>1, <1>4
  <2> HIDE DEF t, spec
  <2>4. codes[1] = "ok"
    BY <2>1 DEF Check
  <2>5. codes[2] = "ok" /\ codes[3] = "ok"
    BY <2>2, <2>3 DEF Check
  <2> HIDE DEF codes
  <2>6. DOMAIN codes = 1 .. 3
    BY DEF codes
  <2> QED BY <2>4, <2>5, <2>6
<1>6. First(codes) = "ok"
  <2> HIDE DEF codes
  <2> QED BY <1>5, FirstOk
<1> QED BY <1>1, <1>6 DEF DecodeCollider
-----------------------------------------------------------------------------
(* Buffers of a frame. *)

LEMMA OneDimension ==
  ASSUME NEW e, NEW n, NEW d, d.encoding = e, d.shape = <<n>>
  PROVE  ExpectedLength(d) = ElementSize[e] * n
<1> DEFINE shape == <<n>>
           Step(g) == [s \in SUBSET {1} |->
                          IF s = {} THEN ElementSize[e]
                          ELSE g[s \ {Max(s)}] * shape[Max(s)]]
           F == [s \in SUBSET {1} |-> IF s = {} THEN ElementSize[e] ELSE ElementSize[e] * n]
<1>1. Max({1}) = 1
  BY DEF Max
<1>2. SUBSET {1} = {{}, {1}}
  OBVIOUS
<1>3. F = Step(F)
  <2>1. ASSUME NEW s \in SUBSET {1} PROVE F[s] = Step(F)[s]
    <3>1. CASE s = {}
      BY <3>1
    <3>2. CASE s = {1}
      <4>1. s \ {Max(s)} = {}
        BY <1>1, <3>2
      <4>2. F[{}] = ElementSize[e] /\ F[s] = ElementSize[e] * n
        BY <3>2
      <4>3. shape[Max(s)] = n
        BY <1>1, <3>2
      <4> QED BY <3>2, <4>1, <4>2, <4>3
    <3> QED BY <1>2, <3>1, <3>2
  <2> QED BY <2>1
<1> DEFINE G == CHOOSE g : g = Step(g)
<1>4. G = Step(G)
  <2> HIDE DEF Step, F
  <2> QED BY <1>3
<1>5. G[{1}] = ElementSize[e] * n
  <2> HIDE DEF G
  <2>1. {} \in SUBSET {1} /\ {1} \in SUBSET {1} /\ {1} # {} /\ {1} \ {1} = {}
    OBVIOUS
  <2>2. \A s \in SUBSET {1} : G[s] = IF s = {} THEN ElementSize[e] ELSE G[s \ {Max(s)}] * shape[Max(s)]
    BY <1>4
  <2>3. G[{}] = ElementSize[e]
    BY <2>1, <2>2
  <2>4. G[{1}] = G[{1} \ {Max({1})}] * shape[Max({1})]
    BY <2>1, <2>2
  <2> QED BY <1>1, <2>1, <2>3, <2>4
<1>6. DOMAIN shape = {1}
  OBVIOUS
<1>7. ExpectedLength(d) = (CHOOSE g : g = [s \in SUBSET DOMAIN shape |->
                              IF s = {} THEN ElementSize[e]
                              ELSE g[s \ {Max(s)}] * shape[Max(s)]])[DOMAIN shape]
  BY DEF ExpectedLength, FoldLeft, MapThenFoldSet
<1> QED BY <1>5, <1>6, <1>7

LEMMA Multiples ==
  ASSUME NEW p \in Nat \ {0}, NEW n \in Nat
  PROVE  n * p \in Nat /\ (n * p) \div p = n /\ (n * p) % p = 0 /\ n <= n * p
<1>1. n * p \in Nat
  OBVIOUS
<1>2. n <= n * p
  OBVIOUS
<1>3. (n * p) \div p = n
  OBVIOUS
<1>4. (n * p) % p = 0
  OBVIOUS
<1> QED BY <1>1, <1>2, <1>3, <1>4

LEMMA SameLength ==
  ASSUME NEW s, IsSequence(s), NEW t, t = [i \in DOMAIN s |-> t[i]]
  PROVE  Len(t) = Len(s)
<1> DEFINE R == Range(s)
           T == {t[i] : i \in DOMAIN s}
           n == Len(s)
<1>1. s \in Seq(R)
  BY DEF IsSequence
<1> HIDE DEF R
<1>2. n \in Nat /\ DOMAIN s = 1 .. n
  BY <1>1
<1>3. \A i \in DOMAIN s : t[i] \in T
  OBVIOUS
<1> HIDE DEF n, T
<1>4. t \in [1 .. n -> T]
  BY <1>2, <1>3
<1>5. t \in Seq(T)
  BY <1>2, <1>4
<1>6. Len(t) = n
  BY <1>2, <1>4, <1>5
<1> QED BY <1>6 DEF n

LEMMA TwoBuffers ==
  ASSUME NEW a, NEW b
  PROVE  <<a>> \o <<b>> = <<a, b>>
<1> DEFINE S == {a, b}
           t == <<a>> \o <<b>>
<1>1. <<a>> \in Seq(S) /\ <<b>> \in Seq(S) /\ <<a, b>> \in Seq(S)
  OBVIOUS
<1>2. Len(<<a>>) = 1 /\ Len(<<b>>) = 1 /\ Len(<<a, b>>) = 2
  OBVIOUS
<1> HIDE DEF S
<1>3. /\ t \in Seq(S) /\ Len(t) = 2
      /\ \A k \in 1 .. 2 : t[k] = IF k <= 1 THEN <<a>>[k] ELSE <<b>>[k - 1]
  BY <1>1, <1>2, ConcatProperties
<1>4. \A k \in 1 .. 2 : t[k] = <<a, b>>[k]
  BY <1>3
<1> HIDE DEF t
<1>5. t = <<a, b>>
  BY <1>1, <1>2, <1>3, <1>4, SeqEqual
<1> QED BY <1>5 DEF t
-----------------------------------------------------------------------------
(* A frame with points, on the wire. *)

AreWritten(colliders) ==
    /\ colliders = [i \in DOMAIN Required |-> colliders[i]]
    /\ \A i \in DOMAIN Required :
          colliders[i].id = Required[i].id /\ DecodeCollider(colliders[i]) = "ok"

IsFrame(f) ==
    /\ f.mode \in {"snapshot", "live"} /\ f.frameId \in Nat /\ f.sources = 2
    /\ AreLandmarks(f.landmarks) /\ Distinct([i \in DOMAIN f.landmarks |-> f.landmarks[i].name])
    /\ AreWritten(f.colliders)
    /\ f.cloud.count \in 1 .. MaxPoints /\ MaxPoints \in Int
    /\ f.cloud.finite = TRUE /\ f.cloud.mask \subseteq 0 .. 1

\* What the encoder puts in a message.
Carries(m, f) ==
    /\ m.len = PrefixLen + m.headerLen + m.payloadLen /\ m.magic = TRUE /\ m.version = 1
    /\ m.type = CharacterFrame /\ m.text = "object"
    /\ m.headerLen = 1 /\ m.headerLen <= MaxHeader
    /\ m.payloadLen = f.cloud.count * PointBytes + f.cloud.count
    /\ m.payloadLen <= MaxPayload[CharacterFrame]
    /\ m.header = BuildCharacterHeader(f)
    /\ m.content.finite = f.cloud.finite /\ m.content.mask = f.cloud.mask

LEMMA Encoded ==
  ASSUME NEW f, EncodeCharacterFrame(f, 1).code = "ok"
  PROVE  Carries(EncodeCharacterFrame(f, 1).message, f)
<1> DEFINE e == EncodeCharacterFrame(f, 1)
           n == f.cloud.count
           content == [finite |-> f.cloud.finite, mask |-> f.cloud.mask]
           header == BuildCharacterHeader(f)
           p == n * PointBytes + n
<1>1. e = EncodeEnvelope(CharacterFrame, header, 1, p, content)
  BY DEF EncodeCharacterFrame
<1>2. content.finite = f.cloud.finite /\ content.mask = f.cloud.mask
  OBVIOUS
<1> HIDE DEF header, p, content, e
<1>3. /\ e.code = Check(1 <= MaxHeader /\ p <= MaxPayload[CharacterFrame], "frame_too_large")
      /\ e.message = [len |-> PrefixLen + 1 + p, magic |-> TRUE,
                      version |-> 1, type |-> CharacterFrame, headerLen |-> 1,
                      payloadLen |-> p, text |-> "object", header |-> header, content |-> content]
  BY <1>1 DEF EncodeEnvelope
<1>4. e.code = "ok"
  BY DEF e
<1>5. 1 <= MaxHeader /\ p <= MaxPayload[CharacterFrame]
  BY <1>3, <1>4 DEF Check
<1>6. Carries(e.message, f)
  BY <1>2, <1>3, <1>5 DEF Carries, header, p
<1> QED BY <1>6 DEF e

LEMMA Sizes ==
  ASSUME NEW m, NEW f, IsFrame(f), Carries(m, f)
  PROVE  /\ f.cloud.count \in Nat \ {0} /\ f.cloud.count <= MaxPoints
         /\ PointBytes \in Nat \ {0} /\ f.cloud.count * PointBytes \in Nat
         /\ f.cloud.count <= f.cloud.count * PointBytes
         /\ m.payloadLen \in Nat /\ m.payloadLen = f.cloud.count * PointBytes + f.cloud.count
         /\ m.payloadLen <= Uint32Max /\ Uint32Max \in Nat /\ PrefixLen \in Nat /\ MaxHeader \in Nat
<1> DEFINE n == f.cloud.count
<1>1. n \in Nat \ {0} /\ n <= MaxPoints
  BY DEF IsFrame
<1>2. PointBytes \in Nat \ {0}
  BY EnvelopeAssumption DEF PointBytes
<1> HIDE DEF n
<1>3. n * PointBytes \in Nat /\ n <= n * PointBytes
  BY <1>1, <1>2, Multiples
<1>4. MaxPayload[CharacterFrame] \in 0 .. Uint32Max
  BY EnvelopeAssumption DEF CharacterFrame
<1>5. Uint32Max \in Nat /\ PrefixLen \in Nat /\ MaxHeader \in Nat
  BY EnvelopeAssumption
<1>6. m.payloadLen = n * PointBytes + n /\ m.payloadLen <= MaxPayload[CharacterFrame]
  BY DEF Carries, n
<1> DEFINE bytes == n * PointBytes
           most == MaxPayload[CharacterFrame]
<1>7. bytes \in Nat /\ m.payloadLen = bytes + n /\ most \in 0 .. Uint32Max /\ m.payloadLen <= most
  BY <1>3, <1>4, <1>6
<1> HIDE DEF bytes, most
<1>8. m.payloadLen \in Nat /\ m.payloadLen <= Uint32Max
  BY <1>1, <1>5, <1>7
<1> QED BY <1>1, <1>2, <1>3, <1>5, <1>6, <1>8 DEF n

LEMMA EnvelopeDecodes ==
  ASSUME NEW m, NEW f, IsFrame(f), Carries(m, f)
  PROVE  DecodeEnvelope(m) = "ok"
<1> DEFINE codes ==
          <<Check(m.len >= PrefixLen, "invalid_message"),
            Check(m.magic, "invalid_message"),
            Check(m.version = 1, "unsupported_version"),
            Check(m.type \in {RgbdFrame, CharacterFrame}, "invalid_message"),
            Check(m.headerLen <= MaxHeader, "frame_too_large"),
            Check(m.type \in DOMAIN MaxPayload => m.payloadLen <= MaxPayload[m.type],
                  "frame_too_large"),
            Check(m.len = PrefixLen + m.headerLen + m.payloadLen, "invalid_message"),
            Check(m.text = "object", "invalid_message")>>
<1>1. m.len >= PrefixLen
  <2>1. m.payloadLen \in Nat /\ PrefixLen \in Nat
    BY Sizes
  <2>2. m.len = PrefixLen + 1 + m.payloadLen
    BY DEF Carries
  <2> QED BY <2>1, <2>2
<1>2. m.type \in {RgbdFrame, CharacterFrame} /\ m.payloadLen <= MaxPayload[m.type]
  BY DEF Carries
<1>3. \A k \in DOMAIN codes : codes[k] = "ok"
  BY <1>1, <1>2 DEF Check, Carries
<1> HIDE DEF codes
<1>4. First(codes) = "ok"
  BY <1>3, FirstOk
<1> QED BY <1>4 DEF codes, DecodeEnvelope

LEMMA LandmarkDecodes ==
  ASSUME NEW l, l \in [valid : BOOLEAN, position : {"none", "finite"}, name : {l.name}], l.name # ""
  PROVE  /\ LandmarkJson(l).name = l.name
         /\ DecodeLandmark(LandmarkJson(l)) = "ok"
         /\ DecodedLandmark(LandmarkJson(l)) = DecodedLandmark(l)
<1> DEFINE j == LandmarkJson(l)
           placed == IF j.valid /\ j.position # "none" THEN FiniteVec(j.position) ELSE "ok"
           named == Check(j.name # "", "invalid_message")
<1>1. /\ j.name = l.name
      /\ (j.valid /\ j.position # "none") <=> (l.valid /\ l.position # "none")
      /\ j.valid /\ j.position # "none" => j.position = "finite"
  BY DEF LandmarkJson
<1>2. FiniteVec("finite") = "ok"
  BY FiniteOk
<1>3. j.valid /\ j.position # "none" => FiniteVec(j.position) = "ok"
  BY <1>1, <1>2
<1> HIDE DEF j
<1>4. named = "ok"
  BY <1>1 DEF Check
<1>5. placed = "ok"
  BY <1>3
<1>6. First(<<named, placed>>) = "ok"
  <2> HIDE DEF named, placed
  <2> QED BY <1>4, <1>5, PairOk
<1>7. DecodeLandmark(j) = "ok"
  BY <1>6 DEF DecodeLandmark
<1>8. DecodedLandmark(j) = DecodedLandmark(l)
  BY <1>1 DEF DecodedLandmark
<1> QED BY <1>1, <1>7, <1>8 DEF j

LEMMA HeaderDecodes ==
  ASSUME NEW f, IsFrame(f)
  PROVE  DecodeHeader(BuildCharacterHeader(f)) = "ok"
<1> DEFINE h == BuildCharacterHeader(f)
           marks == [i \in DOMAIN h.landmarks |-> DecodeLandmark(h.landmarks[i])]
           boxes == [i \in DOMAIN h.colliders |-> DecodeCollider(h.colliders[i])]
           codes ==
          <<Check(h.schema = "hmc.character_frame", "invalid_message"),
            Check(h.version >= 0, "invalid_message"),
            Check(h.version \in {1, 2}, "unsupported_version"),
            Check(h.known /\ h.mode \in {"snapshot", "live"} /\ h.frameId >= 0, "invalid_message"),
            Check(Len(h.landmarks) <= MaxLandmarks, "limit_exceeded"),
            Check(Len(h.colliders) <= MaxColliders, "limit_exceeded"),
            First(marks),
            Check(Distinct([i \in DOMAIN h.landmarks |-> h.landmarks[i].name]), "invalid_message"),
            First(boxes),
            Check(Distinct([i \in DOMAIN h.colliders |-> h.colliders[i].id]), "invalid_message")>>
<1>1. /\ h.schema = "hmc.character_frame" /\ h.version = 2 /\ h.known = TRUE
      /\ h.mode = f.mode /\ h.frameId = f.frameId
      /\ h.landmarks = [i \in DOMAIN f.landmarks |-> LandmarkJson(f.landmarks[i])]
      /\ h.colliders = f.colliders
  BY DEF BuildCharacterHeader
<1>2. ASSUME NEW i \in DOMAIN f.landmarks
      PROVE  /\ h.landmarks[i].name = f.landmarks[i].name
             /\ DecodeLandmark(h.landmarks[i]) = "ok"
  <2>1. /\ f.landmarks[i] \in [valid : BOOLEAN, position : {"none", "finite"}, name : {f.landmarks[i].name}]
        /\ f.landmarks[i].name # ""
    BY DEF IsFrame, AreLandmarks
  <2>2. h.landmarks[i] = LandmarkJson(f.landmarks[i])
    BY <1>1
  <2> HIDE DEF h
  <2> QED BY <2>1, <2>2, LandmarkDecodes
<1> HIDE DEF h
<1>3. /\ Len(h.landmarks) = Len(f.landmarks)
      /\ IsSequence(f.landmarks) /\ Len(f.landmarks) <= MaxLandmarks
  <2>1. IsSequence(f.landmarks) /\ Len(f.landmarks) <= MaxLandmarks
    BY DEF IsFrame, AreLandmarks
  <2>2. h.landmarks = [i \in DOMAIN f.landmarks |-> h.landmarks[i]]
    BY <1>1
  <2> QED BY <2>1, <2>2, SameLength
<1>4. Len(h.colliders) = Len(Required) /\ Len(Required) <= MaxColliders
  <2>1. IsSequence(Required) /\ Len(Required) <= MaxColliders
    BY WireAssumption, Zenon
  <2>2. h.colliders = [i \in DOMAIN Required |-> h.colliders[i]]
    BY <1>1 DEF IsFrame, AreWritten
  <2> QED BY <2>1, <2>2, SameLength
<1>5. First(marks) = "ok"
  <2>1. \A i \in DOMAIN marks : marks[i] = "ok"
    BY <1>1, <1>2
  <2> HIDE DEF marks
  <2> QED BY <2>1, FirstOk
<1>6. First(boxes) = "ok"
  <2>1. \A i \in DOMAIN boxes : boxes[i] = "ok"
    BY <1>1 DEF IsFrame, AreWritten
  <2> HIDE DEF boxes
  <2> QED BY <2>1, FirstOk
<1>7. Distinct([i \in DOMAIN h.landmarks |-> h.landmarks[i].name])
  <2>1. [i \in DOMAIN h.landmarks |-> h.landmarks[i].name] = [i \in DOMAIN f.landmarks |-> f.landmarks[i].name]
    BY <1>1, <1>2
  <2> QED BY <2>1 DEF IsFrame
<1>8. Distinct([i \in DOMAIN h.colliders |-> h.colliders[i].id])
  <2>1. DOMAIN h.colliders = DOMAIN Required /\ \A i \in DOMAIN Required : h.colliders[i].id = Required[i].id
    BY <1>1 DEF IsFrame, AreWritten
  <2>2. \A i, j \in DOMAIN Required : Required[i].id = Required[j].id => i = j
    BY WireAssumption, Zenon
  <2> QED BY <2>1, <2>2 DEF Distinct, IsInjective
<1>9. h.mode \in {"snapshot", "live"} /\ h.frameId \in Nat
  BY <1>1 DEF IsFrame
<1> HIDE DEF marks, boxes
<1>10. \A k \in DOMAIN codes : codes[k] = "ok"
  <2> DEFINE marked == First(marks)
             boxed == First(boxes)
             named == Distinct([i \in DOMAIN h.landmarks |-> h.landmarks[i].name])
             identified == Distinct([i \in DOMAIN h.colliders |-> h.colliders[i].id])
  <2>1. marked = "ok" /\ boxed = "ok" /\ named /\ identified
    BY <1>5, <1>6, <1>7, <1>8
  <2> HIDE DEF marked, boxed, named, identified
  <2> QED BY <1>1, <1>3, <1>4, <1>9, <2>1 DEF Check, marked, boxed, named, identified
<1>11. First(codes) = "ok"
  <2> HIDE DEF codes
  <2> QED BY <1>10, FirstOk
<1> QED BY <1>11 DEF DecodeHeader, Each, marks, boxes, h
-----------------------------------------------------------------------------
(* The buffers of a frame with n points. *)

IsDescriptor(d, n) ==
    /\ n \in Nat \ {0} /\ n <= Uint32Max /\ Uint32Max \in Nat
    /\ d.known = TRUE /\ d.name # "" /\ d.encoding \in Encodings
    /\ d.offset \in Nat /\ d.offset <= Uint32Max
    /\ d.length \in Nat /\ d.length <= Uint32Max
    /\ d.shape = <<n>>

LEMMA DescriptorOk ==
  ASSUME NEW d, NEW n, IsDescriptor(d, n)
  PROVE  FromJson(d) = "ok" /\ JavaDescriptor(d) = "ok" /\ d.shape # Absent
<1> DEFINE codes ==
          <<Check(d.known /\ d.name # "" /\ d.encoding \in Encodings, "invalid_message"),
            Check(Uint32(d.offset) /\ Uint32(d.length), "invalid_buffer_range"),
            Check(IF d.shape = Absent THEN d.encoding = "jpeg"
                  ELSE \A i \in DOMAIN d.shape : d.shape[i] > 0, "invalid_message")>>
<1>1. /\ DOMAIN d.shape = {1} /\ d.shape[1] = n /\ Len(d.shape) = 1
      /\ n \in Nat /\ n > 0 /\ n <= Uint32Max /\ Uint32Max \in Nat
  <2>1. n \in Nat \ {0} /\ n <= Uint32Max /\ Uint32Max \in Nat
    BY DEF IsDescriptor
  <2>2. d.shape = <<n>>
    BY DEF IsDescriptor
  <2>3. DOMAIN <<n>> = {1} /\ <<n>>[1] = n /\ Len(<<n>>) = 1
    OBVIOUS
  <2> QED BY <2>1, <2>2, <2>3
<1>2. d.shape # Absent /\ d.shape # <<>>
  <2>1. Absent[1] = -1 /\ DOMAIN <<>> = {}
    BY DEF Absent
  <2> QED BY <1>1, <2>1
<1>3. \A i \in DOMAIN d.shape : Uint32(d.shape[i]) /\ d.shape[i] > 0
  BY <1>1 DEF Uint32
<1>4. Uint32(d.offset) /\ Uint32(d.length)
  <2>1. /\ d.offset \in Nat /\ d.offset <= Uint32Max
        /\ d.length \in Nat /\ d.length <= Uint32Max
    BY DEF IsDescriptor
  <2> QED BY <1>1, <2>1 DEF Uint32
<1>5. FromJson(d) = "ok"
  BY <1>2, <1>3, <1>4 DEF FromJson, Check, IsDescriptor
<1>6. codes[1] = "ok" /\ codes[2] = "ok" /\ codes[3] = "ok"
  BY <1>2, <1>3, <1>4 DEF Check, IsDescriptor
<1>7. DOMAIN codes = 1 .. 3
  OBVIOUS
<1> HIDE DEF codes
<1>8. First(codes) = "ok"
  BY <1>6, <1>7, FirstOk
<1> QED BY <1>2, <1>5, <1>8 DEF JavaDescriptor, codes

\* The two buffers: the points and, behind them, a mask for each.
Buffered(b, n, payloadLen) ==
    /\ n \in Nat \ {0} /\ PointBytes \in Nat \ {0} /\ n * PointBytes \in Nat
    /\ DOMAIN b = {1, 2} /\ Len(b) = 2 /\ b # <<>>
    /\ b[1].name = "points" /\ b[1].encoding = "xyzrgba16_le" /\ b[1].offset = 0
    /\ b[1].length = n * PointBytes /\ b[1].shape = <<n>> /\ IsDescriptor(b[1], n)
    /\ b[2].name = "point_sources" /\ b[2].encoding = "uint8" /\ b[2].offset = n * PointBytes
    /\ b[2].length = n /\ b[2].shape = <<n>> /\ IsDescriptor(b[2], n)
    /\ payloadLen = n * PointBytes + n

LEMMA BuffersOf ==
  ASSUME NEW m, NEW f, IsFrame(f), Carries(m, f)
  PROVE  Buffered(m.header.buffers, f.cloud.count, m.payloadLen)
<1> DEFINE n == f.cloud.count
           bytes == n * PointBytes
           b == m.header.buffers
           x == PointsDescriptor(n)
           y == SourcesDescriptor(n)
<1>1. /\ n \in Nat \ {0} /\ PointBytes \in Nat \ {0} /\ bytes \in Nat /\ n <= bytes
      /\ m.payloadLen \in Nat /\ m.payloadLen = bytes + n
      /\ m.payloadLen <= Uint32Max /\ Uint32Max \in Nat
  BY Sizes
<1>2. b = <<x>> \o (IF n > 0 THEN <<y>> ELSE <<>>)
  BY DEF Carries, BuildCharacterHeader
<1>3. b = <<x, y>>
  <2>1. n > 0
    BY <1>1
  <2>2. b = <<x>> \o <<y>>
    BY <1>2, <2>1
  <2> HIDE DEF x, y, b
  <2> QED BY <2>2, TwoBuffers
<1>4. /\ x = [name |-> "points", known |-> TRUE, encoding |-> "xyzrgba16_le", offset |-> 0,
              length |-> bytes, shape |-> <<n>>]
      /\ y = [name |-> "point_sources", known |-> TRUE, encoding |-> "uint8", offset |-> bytes,
              length |-> n, shape |-> <<n>>]
  BY DEF PointsDescriptor, SourcesDescriptor
<1> HIDE DEF n, bytes, b, x, y
<1>5. n <= Uint32Max /\ bytes <= Uint32Max
  BY <1>1
<1>6. IsDescriptor(x, n)
  BY <1>1, <1>4, <1>5 DEF IsDescriptor, Encodings
<1>7. IsDescriptor(y, n)
  BY <1>1, <1>4, <1>5 DEF IsDescriptor, Encodings
<1>8. DOMAIN b = {1, 2} /\ Len(b) = 2 /\ b # <<>> /\ b[1] = x /\ b[2] = y
  <2>1. DOMAIN b = 1 .. 2 /\ Len(b) = 2 /\ b[1] = x /\ b[2] = y
    BY <1>3
  <2>2. b # <<>>
    BY <2>1
  <2> QED BY <2>1, <2>2
<1>9. Buffered(b, n, m.payloadLen)
  <2>1. bytes = n * PointBytes
    BY DEF bytes
  <2> QED BY <1>1, <1>4, <1>6, <1>7, <1>8, <2>1 DEF Buffered
<1> QED BY <1>9 DEF n, b

LEMMA BuffersLoad ==
  ASSUME NEW m, NEW n, Buffered(m.header.buffers, n, m.payloadLen)
  PROVE  LoadBuffers(m) = "ok"
<1> DEFINE b == m.header.buffers
           bytes == n * PointBytes
           parsed == [i \in DOMAIN b |-> FromJson(b[i])]
<1> HIDE DEF b
<1>1. Buffered(b, n, m.payloadLen)
  BY DEF b
<1>2. DOMAIN b = {1, 2} /\ IsDescriptor(b[1], n) /\ IsDescriptor(b[2], n) /\ b # <<>>
  BY <1>1 DEF Buffered
<1>3. First(parsed) = "ok"
  <2>1. FromJson(b[1]) = "ok" /\ FromJson(b[2]) = "ok"
    BY <1>2, DescriptorOk
  <2>2. \A i \in DOMAIN parsed : parsed[i] = "ok"
    BY <1>2, <2>1
  <2> HIDE DEF parsed
  <2> QED BY <2>2, FirstOk
<1>4. ParseDescriptors(b) = "ok"
  <2> DEFINE some == Check(b # <<>>, "invalid_message")
             all == First(parsed)
  <2>1. some = "ok" /\ all = "ok"
    BY <1>2, <1>3 DEF Check
  <2>2. First(<<some, all>>) = "ok"
    <3> HIDE DEF some, all
    <3> QED BY <2>1, PairOk
  <2> QED BY <2>2 DEF ParseDescriptors, Each
<1>5. /\ n \in Nat /\ bytes \in Nat /\ PointBytes \in Nat /\ m.payloadLen = bytes + n
      /\ b[1].offset = 0 /\ b[1].length = bytes /\ b[2].offset = bytes /\ b[2].length = n
      /\ b[1].name = "points" /\ b[2].name = "point_sources" /\ Len(b) = 2
  BY <1>1 DEF Buffered
<1>6. ExpectedLength(b[1]) = bytes
  <2>1. b[1].encoding = "xyzrgba16_le" /\ b[1].shape = <<n>>
    BY <1>1 DEF Buffered
  <2>2. ExpectedLength(b[1]) = ElementSize["xyzrgba16_le"] * n
    BY <2>1, OneDimension
  <2> QED BY <1>5, <2>2 DEF PointBytes
<1>7. ExpectedLength(b[2]) = n
  <2>1. b[2].encoding = "uint8" /\ b[2].shape = <<n>>
    BY <1>1 DEF Buffered
  <2>2. ExpectedLength(b[2]) = ElementSize["uint8"] * n
    BY <2>1, OneDimension
  <2>3. ElementSize["uint8"] = 1
    BY EnvelopeAssumption
  <2> QED BY <1>5, <2>2, <2>3
<1> HIDE DEF bytes
<1>8. ValidateDescriptors(b, m.payloadLen) = "ok"
  <2>1. Distinct([i \in DOMAIN b |-> b[i].name])
    BY <1>2, <1>5 DEF Distinct, IsInjective
  <2>2. ASSUME NEW i \in DOMAIN b
        PROVE  /\ End(b[i]) <= m.payloadLen
               /\ b[i].offset = IF i = 1 THEN 0 ELSE End(b[i-1])
               /\ FixedSize(b[i]) => ExpectedLength(b[i]) = b[i].length
    <3>1. CASE i = 1
      BY <1>5, <1>6, <3>1 DEF End
    <3>2. CASE i = 2
      BY <1>5, <1>7, <3>2 DEF End
    <3> QED BY <1>2, <3>1, <3>2
  <2>3. End(Last(b)) = m.payloadLen
    BY <1>5 DEF End, Last
  <2> QED BY <2>1, <2>2, <2>3 DEF ValidateDescriptors, Check
<1> QED BY <1>4, <1>8 DEF LoadBuffers, b

LEMMA BuffersNamed ==
  ASSUME NEW m, NEW n, Buffered(m.header.buffers, n, m.payloadLen)
  PROVE  /\ Has(m, "points") /\ Descriptor(m, "points") = m.header.buffers[1]
         /\ Has(m, "point_sources") /\ Descriptor(m, "point_sources") = m.header.buffers[2]
<1> DEFINE b == m.header.buffers
<1> HIDE DEF b
<1>1. DOMAIN b = {1, 2} /\ b[1].name = "points" /\ b[2].name = "point_sources"
  BY DEF Buffered, b
<1>2. (\E i \in DOMAIN b : b[i].name = "points") /\ (\E i \in DOMAIN b : b[i].name = "point_sources")
  BY <1>1
<1>3. (CHOOSE i \in DOMAIN b : b[i].name = "points") = 1
  <2>1. \A i \in DOMAIN b : b[i].name = "points" <=> i = 1
    BY <1>1
  <2> QED BY <1>2, <2>1
<1>4. (CHOOSE i \in DOMAIN b : b[i].name = "point_sources") = 2
  <2>1. \A i \in DOMAIN b : b[i].name = "point_sources" <=> i = 2
    BY <1>1
  <2> QED BY <1>2, <2>1
<1> QED BY <1>2, <1>3, <1>4 DEF Has, Descriptor, b

LEMMA PointsDecode ==
  ASSUME NEW m, NEW f, IsFrame(f), Carries(m, f)
  PROVE  DecodePoints(m) = "ok"
<1> DEFINE n == f.cloud.count
           d == Descriptor(m, "points")
           s == Descriptor(m, "point_sources")
           count == d.length \div PointBytes
           masks == <<Check(s.encoding = "uint8" /\ s.shape = <<count>> /\ s.length = count,
                            "invalid_buffer_range"),
                      Check(m.header.sources <= 8 /\ m.content.mask \subseteq 0 .. m.header.sources - 1,
                            "invalid_message")>>
           masked == IF ~Has(m, "point_sources") THEN "ok" ELSE First(masks)
           codes == <<Check(d.length % PointBytes = 0, "invalid_buffer_range"),
                      Check(count <= MaxPoints, "invalid_buffer_range"),
                      Check(d.shape # Absent => d.shape[1] = count, "invalid_buffer_range"),
                      Check(m.content.finite, "non_finite_geometry"),
                      masked>>
<1>1. Buffered(m.header.buffers, n, m.payloadLen)
  BY BuffersOf
<1>2. d = m.header.buffers[1] /\ s = m.header.buffers[2]
  BY <1>1, BuffersNamed
<1>3. /\ n \in Nat /\ PointBytes \in Nat \ {0} /\ d.length = n * PointBytes /\ d.shape = <<n>>
      /\ s.encoding = "uint8" /\ s.shape = <<n>> /\ s.length = n
  BY <1>1, <1>2 DEF Buffered
<1>4. n <= MaxPoints
  BY Sizes
<1>5. m.content.finite = TRUE /\ m.content.mask \subseteq 0 .. 1 /\ m.header.sources = 2
  BY DEF Carries, IsFrame, BuildCharacterHeader
<1> HIDE DEF n, d, s
<1>6. count = n /\ d.length % PointBytes = 0
  BY <1>3, Multiples
<1> HIDE DEF count
<1>7. First(masks) = "ok"
  <2>1. \A k \in DOMAIN masks : masks[k] = "ok"
    BY <1>3, <1>5, <1>6 DEF Check
  <2> HIDE DEF masks
  <2> QED BY <2>1, FirstOk
<1> HIDE DEF masks
<1>8. masked = "ok"
  BY <1>7
<1> HIDE DEF masked
<1>9. \A k \in DOMAIN codes : codes[k] = "ok"
  <2>1. d.shape[1] = n
    BY <1>3
  <2> QED BY <1>4, <1>5, <1>6, <1>8, <2>1 DEF Check
<1>10. First(codes) = "ok"
  <2> HIDE DEF codes
  <2> QED BY <1>9, FirstOk
<1> QED BY <1>10 DEF DecodePoints, codes, masked, masks, count, d, s

LEMMA JavaBuffersDecode ==
  ASSUME NEW m, NEW n, Buffered(m.header.buffers, n, m.payloadLen)
  PROVE  JavaValidateBuffers(m) = "ok"
<1> DEFINE b == m.header.buffers
           bytes == n * PointBytes
           seen == [i \in DOMAIN b |-> JavaDescriptor(b[i])]
           parsed == First(seen)
           places == [i \in DOMAIN b |-> JavaBuffer(b, m.payloadLen, i)]
           placed == IF parsed # "ok" THEN parsed ELSE First(places)
           codes == <<Check(b # <<>>, "invalid_message"), placed,
                      Check(b # <<>> => End(Last(b)) = m.payloadLen, "invalid_buffer_range"),
                      Check(Has(m, "points"), "invalid_message")>>
<1>1. Has(m, "points")
  BY BuffersNamed
<1> HIDE DEF b
<1>2. Buffered(b, n, m.payloadLen)
  BY DEF b
<1>3. DOMAIN b = {1, 2} /\ b # <<>> /\ Len(b) = 2 /\ IsDescriptor(b[1], n) /\ IsDescriptor(b[2], n)
  BY <1>2 DEF Buffered
<1>4. /\ n \in Nat /\ bytes \in Nat /\ m.payloadLen = bytes + n
      /\ b[1].offset = 0 /\ b[1].length = bytes /\ b[2].offset = bytes /\ b[2].length = n
      /\ b[1].name = "points" /\ b[2].name = "point_sources"
      /\ b[1].encoding = "xyzrgba16_le" /\ b[1].shape = <<n>>
  BY <1>2 DEF Buffered
<1>5. parsed = "ok"
  <2>1. JavaDescriptor(b[1]) = "ok" /\ JavaDescriptor(b[2]) = "ok"
    BY <1>3, DescriptorOk
  <2>2. \A i \in DOMAIN seen : seen[i] = "ok"
    BY <1>3, <2>1
  <2> HIDE DEF seen
  <2> QED BY <2>2, FirstOk
<1>6. Len(b[1].shape) = 1 /\ b[1].shape[1] = n
  <2>1. Len(<<n>>) = 1 /\ <<n>>[1] = n
    OBVIOUS
  <2> QED BY <1>4, <2>1
<1>7. b[1].length = b[1].shape[1] * PointBytes
  BY <1>4, <1>6
<1> HIDE DEF bytes
<1>8. ASSUME NEW i \in DOMAIN b PROVE JavaBuffer(b, m.payloadLen, i) = "ok"
  <2> DEFINE d == b[i]
             fits == <<Check(\A j \in 1 .. i - 1 : b[j].name # d.name, "invalid_message"),
                       Check(d.offset = IF i = 1 THEN 0 ELSE End(b[i-1]), "invalid_buffer_range"),
                       Check(End(d) <= m.payloadLen, "invalid_buffer_range"),
                       Check(d.name = "points" => d.encoding = "xyzrgba16_le" /\ Len(d.shape) = 1,
                             "invalid_message"),
                       Check(d.name = "points" /\ Len(d.shape) = 1 =>
                                 d.length = d.shape[1] * PointBytes, "invalid_buffer_range")>>
  <2>1. i = 1 \/ i = 2
    BY <1>3
  <2>2. \A j \in 1 .. i - 1 : b[j].name # d.name
    BY <1>4, <2>1
  <2>3. d.offset = IF i = 1 THEN 0 ELSE End(b[i-1])
    BY <1>4, <2>1 DEF End
  <2>4. End(d) <= m.payloadLen
    BY <1>4, <2>1 DEF End
  <2>5. d.name = "points" => d.encoding = "xyzrgba16_le" /\ Len(d.shape) = 1
    BY <1>4, <1>6, <2>1
  <2>6. d.name = "points" => d.length = d.shape[1] * PointBytes
    BY <1>4, <1>7, <2>1
  <2>7. \A k \in DOMAIN fits : fits[k] = "ok"
    <3> DEFINE early == \A j \in 1 .. i - 1 : b[j].name # d.name
               start == d.offset = IF i = 1 THEN 0 ELSE End(b[i-1])
               within == End(d) <= m.payloadLen
               kind == d.name = "points" => d.encoding = "xyzrgba16_le" /\ Len(d.shape) = 1
               sized == d.name = "points" /\ Len(d.shape) = 1 => d.length = d.shape[1] * PointBytes
    <3>1. early /\ start /\ within /\ kind /\ sized
      BY <2>2, <2>3, <2>4, <2>5, <2>6
    <3> HIDE DEF early, start, within, kind, sized, d
    <3>2. fits = <<Check(early, "invalid_message"), Check(start, "invalid_buffer_range"),
                   Check(within, "invalid_buffer_range"), Check(kind, "invalid_message"),
                   Check(sized, "invalid_buffer_range")>>
      BY DEF fits, early, start, within, kind, sized
    <3> HIDE DEF fits
    <3> QED BY <3>1, <3>2 DEF Check
  <2>8. First(fits) = "ok"
    <3> HIDE DEF fits
    <3> QED BY <2>7, FirstOk
  <2> QED BY <2>8 DEF JavaBuffer
<1>9. placed = "ok"
  <2>1. \A i \in DOMAIN places : places[i] = "ok"
    BY <1>8
  <2> HIDE DEF places
  <2>2. First(places) = "ok"
    BY <2>1, FirstOk
  <2> QED BY <1>5, <2>2
<1>10. End(Last(b)) = m.payloadLen
  BY <1>3, <1>4 DEF End, Last
<1> HIDE DEF placed
<1>11. \A k \in DOMAIN codes : codes[k] = "ok"
  BY <1>1, <1>3, <1>9, <1>10 DEF Check
<1>12. First(codes) = "ok"
  <2> HIDE DEF codes
  <2> QED BY <1>11, FirstOk
<1> QED BY <1>12 DEF JavaValidateBuffers, Each, placed, b

LEMMA JavaPointsDecode ==
  ASSUME NEW m, NEW f, IsFrame(f), Carries(m, f)
  PROVE  JavaPoints(m) = "ok"
<1> DEFINE n == f.cloud.count
           s == Descriptor(m, "point_sources")
           count == Descriptor(m, "points").shape[1]
           masks == <<Check(s.encoding = "uint8" /\ s.shape = <<count>> /\ s.length = count,
                            "invalid_buffer_range"),
                      Check(m.header.sources <= 8 /\ m.content.mask \subseteq 0 .. m.header.sources - 1,
                            "invalid_message")>>
           masked == IF Has(m, "point_sources") THEN JavaSources(m, count) ELSE "ok"
           codes == <<Check(count <= MaxPoints, "limit_exceeded"),
                      Check(m.header.pointCount = count, "invalid_message"),
                      masked,
                      Check(m.content.finite, "non_finite_geometry")>>
<1>1. Buffered(m.header.buffers, n, m.payloadLen)
  BY BuffersOf
<1>2. Descriptor(m, "points") = m.header.buffers[1] /\ s = m.header.buffers[2]
  BY <1>1, BuffersNamed
<1>3. /\ n \in Nat /\ m.header.buffers[1].shape = <<n>>
      /\ s.encoding = "uint8" /\ s.shape = <<n>> /\ s.length = n
  BY <1>1, <1>2 DEF Buffered
<1>4. n <= MaxPoints
  BY Sizes
<1>5. /\ m.content.finite = TRUE /\ m.content.mask \subseteq 0 .. 1 /\ m.header.sources = 2
      /\ m.header.pointCount = n
  BY DEF Carries, IsFrame, BuildCharacterHeader
<1>6. count = n
  <2>1. <<n>>[1] = n
    OBVIOUS
  <2> QED BY <1>2, <1>3, <2>1
<1> HIDE DEF n, count, s
<1>7. First(masks) = "ok"
  <2>1. \A k \in DOMAIN masks : masks[k] = "ok"
    BY <1>3, <1>5, <1>6 DEF Check
  <2> HIDE DEF masks
  <2> QED BY <2>1, FirstOk
<1>8. masked = "ok"
  BY <1>7 DEF JavaSources, s
<1> HIDE DEF masked
<1>9. \A k \in DOMAIN codes : codes[k] = "ok"
  BY <1>4, <1>5, <1>6, <1>8 DEF Check
<1>10. First(codes) = "ok"
  <2> HIDE DEF codes
  <2> QED BY <1>9, FirstOk
<1> QED BY <1>10 DEF JavaPoints, codes, masked, count

(***************************************************************************)
(* What the encoder accepts of a frame with points, both decoders accept.  *)
(***************************************************************************)
LEMMA BothDecode ==
  ASSUME NEW m, NEW f, IsFrame(f), Carries(m, f)
  PROVE  DecodeCharacterFrame(m) = "ok" /\ JavaDecode(m) = "ok"
<1> DEFINE header == DecodeHeader(m.header)
           loaded == LoadBuffers(m)
           java == JavaValidateBuffers(m)
           kind == Check(m.type = CharacterFrame, "invalid_message")
           has == Check(Has(m, "points"), "invalid_message")
           stats == Check(m.header.quality /\ m.header.ids, "invalid_message")
           points == DecodePoints(m)
           body == <<kind, header, loaded, has>>
           javaBody == <<kind, header, java>>
<1>1. Buffered(m.header.buffers, f.cloud.count, m.payloadLen)
  BY BuffersOf
<1>2. header = "ok"
  <2>1. m.header = BuildCharacterHeader(f)
    BY DEF Carries
  <2>2. DecodeHeader(BuildCharacterHeader(f)) = "ok"
    BY HeaderDecodes
  <2> QED BY <2>1, <2>2
<1>3. loaded = "ok" /\ java = "ok" /\ Has(m, "points")
  BY <1>1, BuffersLoad, JavaBuffersDecode, BuffersNamed
<1>4. kind = "ok" /\ has = "ok"
  BY <1>3 DEF Check, Carries
<1>5. stats = "ok"
  BY DEF Check, Carries, BuildCharacterHeader
<1>6. points = "ok" /\ JavaPoints(m) = "ok" /\ DecodeEnvelope(m) = "ok"
  BY PointsDecode, JavaPointsDecode, EnvelopeDecodes
<1> HIDE DEF header, loaded, java, kind, has, stats, points
<1>7. First(body) = "ok" /\ First(javaBody) = "ok"
  <2>1. \A k \in DOMAIN body : body[k] = "ok"
    BY <1>2, <1>3, <1>4
  <2>2. \A k \in DOMAIN javaBody : javaBody[k] = "ok"
    BY <1>2, <1>3, <1>4
  <2> HIDE DEF body, javaBody
  <2> QED BY <2>1, <2>2, FirstOk
<1>8. First(<<points, stats>>) = "ok"
  BY <1>5, <1>6, PairOk
<1> HIDE DEF body, javaBody
<1>9. DecodeCharacterFrame(m) = "ok"
  BY <1>6, <1>7, <1>8 DEF DecodeCharacterFrame, body, kind, header, loaded, has, points, stats
<1>10. JavaDecode(m) = "ok"
  BY <1>6, <1>7 DEF JavaDecode, javaBody, kind, header, java
<1> QED BY <1>9, <1>10
-----------------------------------------------------------------------------
(* The invariant. *)

Placed ==
    work.step = "viewed" =>
        /\ work.warps = <<>>
        /\ \A d \in Devices :
              work.effective[d] = EffectivePlacement(d) /\ work.clouds[d].warp = NoWarp

\* A view has no points but those the body shows it.
Shown ==
    work.step \in {"viewed", "aligned"} =>
        /\ work.pair \in Pairs /\ work.mode \in {"snapshot", "live"}
        /\ \A d \in Devices : work.clouds[d].points \subseteq work.pair.body.cloud

SubjectKnown == IsSubject(subject)

\* What a fit leaves for the assembler.
WellFitted(w) ==
    /\ w.mode \in {"snapshot", "live"} /\ AreLandmarks(w.landmarks)
    /\ IsFiniteSet(w.cloud) /\ Cardinality(w.cloud) <= Budget
    /\ DOMAIN w.typed = DOMAIN Required
    /\ \A i \in DOMAIN Required :
          /\ IsFit(w.outcomes[i], Required[i], Cardinality(w.cloud))
          /\ w.typed[i] = ValidateFitted(w.outcomes[i].collider, Required[i])

Complete == work.step = "fitted" => WellFitted(work)

IInv ==
    /\ rig.id \in Nat /\ nextFrameId \in Nat
    /\ Placed /\ FusedWhereFitted
    /\ Shown
    /\ SubjectKnown
    /\ Complete

LEMMA StrangerIsSubject == IsSubject(Stranger)
<1>1. \A d \in DOMAIN Default : Default[d] \in Nat
  BY FittingAssumption, Zenon
<1> QED BY <1>1 DEF IsSubject, IsEstimate, Stranger, GlobalDefault, Sources, Dimensions

LEMMA InitIInv == Init => IInv
<1> SUFFICES ASSUME Init PROVE IInv
  OBVIOUS
<1>1. work.step = "idle" /\ rig.id = 1 /\ nextFrameId = 1 /\ subject = Stranger
  BY DEF Init, Idle
<1>2. SubjectKnown
  BY <1>1, StrangerIsSubject DEF SubjectKnown
<1> QED BY <1>1, <1>2 DEF IInv, Placed, FusedWhereFitted, Shown, Complete

-----------------------------------------------------------------------------
(* The views. *)

LEMMA Reconstructed ==
  ASSUME NEW body, NEW d, NEW placement
  PROVE  /\ ReconstructView(body, d, placement).placement = placement
         /\ ReconstructView(body, d, placement).warp = NoWarp
         /\ ReconstructView(body, d, placement).points \subseteq body.cloud
BY DEF ReconstructView, PointsFrom

LEMMA Unwarped == \A d : WarpOf(<<>>, d) = NoWarp
BY DEF WarpOf

LEMMA ProcessKeeps ==
  ASSUME IInv, NEW pair \in Pairs, NEW mode \in {"snapshot", "live"}, Process(pair, mode)
  PROVE  IInv'
<1> DEFINE effective == [d \in Devices |-> EffectivePlacement(d)]
<1>1. work' = Viewed(pair, mode, effective) /\ UNCHANGED <<opposing, rig, corrections, subject, nextFrameId>>
  BY DEF Process
<1>2. /\ work'.step = "viewed" /\ work'.pair = pair /\ work'.mode = mode /\ work'.warps = <<>>
      /\ work'.effective = effective
      /\ \A d \in Devices : work'.clouds[d] = ReconstructView(pair.body, d, effective[d])
  BY <1>1 DEF Viewed
<1>3. ASSUME NEW d \in Devices
      PROVE  /\ work'.effective[d] = EffectivePlacement(d)'
             /\ work'.clouds[d].placement = work'.effective[d]
             /\ work'.clouds[d].warp = NoWarp
             /\ work'.clouds[d].points \subseteq pair.body.cloud
             /\ (rig.board \/ opposing)' => work'.effective[d] = 0
  BY <1>1, <1>2, Reconstructed DEF EffectivePlacement
<1> QED BY <1>1, <1>2, <1>3, Unwarped DEF IInv, Placed, FusedWhereFitted, Shown, SubjectKnown, Complete

\* What registration leaves: every correction there was, and maybe one more.
LEMMA RegisterKeepsViews ==
  ASSUME NEW d, NEW match, NEW e \in DOMAIN corrections
  PROVE  e \in DOMAIN Register(d, match)
BY DEF Register

\* An alignment of the views that puts each cloud where it says.
LEMMA AlignedKeeps ==
  ASSUME IInv, work.step = "viewed",
         NEW effective, NEW warps, NEW clouds,
         work' = Aligned(effective, warps, clouds),
         UNCHANGED <<opposing, rig, subject, nextFrameId>>,
         \A d \in Devices : /\ clouds[d].points \subseteq work.pair.body.cloud
                            /\ clouds[d].placement = effective[d]
                            /\ clouds[d].warp = WarpOf(warps, d)
                            /\ rig.board \/ opposing => effective[d] = 0
  PROVE  IInv'
<1>1. /\ work'.step = "aligned" /\ work'.pair = work.pair /\ work'.mode = work.mode /\ work'.warps = warps
      /\ work'.effective = effective /\ work'.clouds = clouds
  BY DEF Aligned
<1>2. FusedWhereFitted'
  BY <1>1 DEF FusedWhereFitted
<1> QED BY <1>1, <1>2 DEF IInv, Placed, Shown, SubjectKnown, Complete

LEMMA RegisterKeeps ==
  ASSUME IInv, RegisterViews
  PROVE  IInv'
<1> DEFINE effective == [d \in Devices |-> IF d \in DOMAIN corrections' THEN corrections'[d] ELSE 0]
           clouds == [d \in Devices |-> IF d \in DOMAIN corrections'
                                        THEN ReconstructView(work.pair.body, d, corrections'[d])
                                        ELSE work.clouds[d]]
<1>1. /\ work.step = "viewed" /\ ~opposing /\ ~rig.board
      /\ UNCHANGED <<opposing, rig, subject, nextFrameId>>
      /\ work' = Aligned(effective, <<>>, clouds)
  BY DEF RegisterViews
<1>2. \A d \in DOMAIN corrections : d \in DOMAIN corrections'
  BY RegisterKeepsViews DEF RegisterViews
<1>3. ASSUME NEW d \in Devices
      PROVE  /\ clouds[d].placement = effective[d] /\ clouds[d].warp = WarpOf(<<>>, d)
             /\ clouds[d].points \subseteq work.pair.body.cloud
  <2>1. CASE d \in DOMAIN corrections'
    BY <2>1, Reconstructed, Unwarped
  <2>2. CASE d \notin DOMAIN corrections'
    <3>1. clouds[d] = work.clouds[d] /\ effective[d] = 0 /\ d \notin DOMAIN corrections
      BY <1>2, <2>2
    <3>2. /\ work.effective[d] = 0 /\ work.clouds[d].warp = NoWarp
          /\ work.clouds[d].placement = work.effective[d]
          /\ work.clouds[d].points \subseteq work.pair.body.cloud
      BY <1>1, <3>1 DEF IInv, Placed, FusedWhereFitted, Shown, EffectivePlacement
    <3> QED BY <3>1, <3>2, Unwarped
  <2> QED BY <2>1, <2>2
<1> HIDE DEF effective, clouds
<1> QED BY <1>1, <1>3, AlignedKeeps

LEMMA AssembleKeeps ==
  ASSUME IInv, AssembleOpposingBody
  PROVE  IInv'
<1> DEFINE warps == [d \in Others |-> Merge.warp]
           clouds == [d \in Devices |-> IF d \in Others THEN Warped(work.clouds[d], Merge.warp)
                                        ELSE work.clouds[d]]
<1>1. work.step = "viewed" /\ UNCHANGED <<opposing, rig, subject, nextFrameId>>
  BY DEF AssembleOpposingBody
<1>2. \A d \in Devices : /\ work.clouds[d].placement = work.effective[d]
                         /\ work.clouds[d].warp = NoWarp
                         /\ rig.board \/ opposing => work.effective[d] = 0
                         /\ work.clouds[d].points \subseteq work.pair.body.cloud
  BY <1>1 DEF IInv, Placed, FusedWhereFitted, Shown
<1>3. CASE Merge.state = "applied"
  <2>1. work' = Aligned(work.effective, warps, clouds)
    BY <1>3 DEF AssembleOpposingBody
  <2>2. ASSUME NEW d \in Devices
        PROVE  /\ clouds[d].placement = work.effective[d]
               /\ clouds[d].warp = WarpOf(warps, d)
               /\ clouds[d].points \subseteq work.pair.body.cloud
    BY <1>2 DEF Warped, WarpOf
  <2> HIDE DEF warps, clouds
  <2> QED BY <1>1, <1>2, <2>1, <2>2, AlignedKeeps
<1>4. CASE Merge.state # "applied"
  <2>1. work' = Aligned(work.effective, <<>>, work.clouds)
    BY <1>4 DEF AssembleOpposingBody
  <2> QED BY <1>1, <1>2, <2>1, Unwarped, AlignedKeeps
<1> QED BY <1>3, <1>4

LEMMA KeepKeeps ==
  ASSUME IInv, KeepViews
  PROVE  IInv'
<1>1. /\ work.step = "viewed" /\ UNCHANGED <<opposing, rig, subject, nextFrameId>>
      /\ work' = Aligned(work.effective, <<>>, work.clouds)
  BY DEF KeepViews
<1>2. \A d \in Devices : /\ work.clouds[d].placement = work.effective[d]
                         /\ work.clouds[d].warp = NoWarp
                         /\ rig.board \/ opposing => work.effective[d] = 0
                         /\ work.clouds[d].points \subseteq work.pair.body.cloud
  BY <1>1 DEF IInv, Placed, FusedWhereFitted, Shown
<1> QED BY <1>1, <1>2, Unwarped, AlignedKeeps

-----------------------------------------------------------------------------
(* The fit. *)

LEMMA Merged ==
  ASSUME IInv, work.step = "aligned", NEW merged \in MergeClouds(work.clouds)
  PROVE  IsFiniteSet(merged) /\ Cardinality(merged) <= Budget
<1> DEFINE all == UNION {work.clouds[d].points : d \in Devices}
<1>1. all \subseteq work.pair.body.cloud /\ IsFiniteSet(work.pair.body.cloud) /\ Budget \in Nat
  BY ProcessingAssumption DEF IInv, Shown
<1>2. merged \in Subsamples(all)
  BY DEF MergeClouds
<1> HIDE DEF all
<1>3. merged \subseteq all /\ Cardinality(merged) <= Budget
  <2>1. CASE Cardinality(all) <= Budget
    BY <1>2, <2>1 DEF Subsamples
  <2>2. CASE ~(Cardinality(all) <= Budget)
    BY <1>1, <1>2, <2>2 DEF Subsamples, kSubset
  <2> QED BY <2>1, <2>2
<1> QED BY <1>1, <1>3, FS_Subset

\* The fit of the pair that is being processed to its merged points.
BodyOf(merged) == [place |-> work.pair.body.place, cloud |-> merged]

Fit(merged) == FitCharacter(BodyOf(merged), subject, "automatic")

\* A step of the fitter.
Fits(merged) ==
    /\ merged \in MergeClouds(work.clouds)
    /\ work.step = "aligned"
    /\ subject' = Fit(merged).subject
    /\ work' = [step |-> "fitted", landmarks |-> work.pair.landmarks, mode |-> work.mode,
                cloud |-> merged, typed |-> Fit(merged).typed, outcomes |-> Fit(merged).outcomes]

LEMMA FitsSome == FitFrame => \E merged : Fits(merged)
BY DEF FitFrame, Fits, Fit, BodyOf

LEMMA FitsWell ==
  ASSUME IInv, NEW merged, Fits(merged)
  PROVE  WellFitted(work') /\ work'.typed = Fit(merged).typed /\ work'.outcomes = Fit(merged).outcomes
<1> DEFINE body == BodyOf(merged)
           fit == Fit(merged)
           fitted == [i \in DOMAIN Required |-> fit.outcomes[i].collider]
           w == work'
<1>1. /\ work.step = "aligned" /\ merged \in MergeClouds(work.clouds)
      /\ w.landmarks = work.pair.landmarks /\ w.mode = work.mode /\ w.cloud = merged
      /\ w.typed = fit.typed /\ w.outcomes = fit.outcomes
  BY DEF Fits
<1>2. work.pair \in Pairs /\ work.mode \in {"snapshot", "live"} /\ IsSubject(subject)
  BY <1>1 DEF IInv, Shown, SubjectKnown
<1>3. IsFiniteSet(merged) /\ Cardinality(merged) <= Budget
  BY <1>1, Merged
<1>4. AreLandmarks(work.pair.landmarks)
  BY <1>2, ProcessingAssumption
<1>5. ASSUME NEW i \in DOMAIN Required
      PROVE  IsFit(fit.outcomes[i], Required[i], Cardinality(merged))
  <2>1. IsPlace(body.place[Required[i].id], Required[i])
    BY <1>2, ProcessingAssumption DEF BodyOf, IsPlace
  <2>2. fit.outcomes[i] = FitOne(Required[i], body, subject, "automatic")
    BY DEF Fit, FitCharacter
  <2>3. body.cloud = merged
    BY DEF BodyOf
  <2> HIDE DEF body, fit
  <2> QED BY <1>2, <1>3, <2>1, <2>2, <2>3, OneFit
<1>6. fit.typed = FinalizeColliderSet(fitted)
  BY DEF Fit, FitCharacter
<1> HIDE DEF fit
<1>7. \A i \in DOMAIN Required : fitted[i].id = Required[i].id
  BY <1>5 DEF IsFit, Named
<1>8. \A i \in DOMAIN Required :
        FinalizeColliderSet(fitted)[i] = ValidateFitted(fit.outcomes[i].collider, Required[i])
  <2>1. DOMAIN fitted = DOMAIN Required
    OBVIOUS
  <2>2. \A i \in DOMAIN Required : fitted[i] = fit.outcomes[i].collider
    OBVIOUS
  <2> HIDE DEF fitted
  <2> QED BY <1>7, <2>1, <2>2, Typed
<1>9. DOMAIN fit.typed = DOMAIN Required
  BY <1>6 DEF FinalizeColliderSet
<1> HIDE DEF fitted, w
<1>10. WellFitted(w)
  BY <1>1, <1>2, <1>3, <1>4, <1>5, <1>6, <1>8, <1>9 DEF WellFitted
<1> QED BY <1>1, <1>10 DEF w, fit

\* A dimension changes only to what a lesson says, and for the better.
LEMMA Learned ==
  ASSUME IInv, NEW merged, Fits(merged), NEW d \in Dimensions, subject'[d] # subject[d]
  PROVE  \E i \in DOMAIN Required : \E k \in DOMAIN Fit(merged).outcomes[i].updates :
            /\ Fit(merged).typed[i].enabled
            /\ Fit(merged).outcomes[i].updates[k] = [of |-> d, est |-> subject'[d]]
            /\ IsLesson(Fit(merged).outcomes[i].updates[k])
            /\ IsBetterThan(subject'[d], subject[d])
<1> DEFINE fit == Fit(merged)
           lessons == Lessons(fit.outcomes, fit.typed)
           u == CHOOSE u \in lessons : u.of = d
<1>1. work.step = "aligned" /\ subject' = fit.subject
  BY DEF Fits
<1>2. fit.subject = ApplySubjectUpdates(subject, fit.outcomes, fit.typed)
  BY DEF Fit, FitCharacter
<1>3. subject'[d] = IF \E v \in lessons : v.of = d THEN Updated(subject[d], u.est) ELSE subject[d]
  BY <1>1, <1>2 DEF ApplySubjectUpdates
<1> HIDE DEF lessons
<1>4. (\E v \in lessons : v.of = d) /\ subject'[d] = u.est /\ IsBetterThan(subject'[d], subject[d])
  BY <1>3 DEF Updated
<1>5. u \in lessons /\ u.of = d
  BY <1>4
<1> HIDE DEF u
<1>6. PICK i \in DOMAIN Required :
        fit.typed[i].enabled /\ \E k \in DOMAIN fit.outcomes[i].updates : u = fit.outcomes[i].updates[k]
  BY <1>5 DEF lessons, Lessons
<1>7. PICK k \in DOMAIN fit.outcomes[i].updates : u = fit.outcomes[i].updates[k]
  BY <1>6
<1>8. IsLesson(u)
  <2>1. WellFitted(work') /\ work'.outcomes = fit.outcomes
    BY FitsWell
  <2>2. IsFit(fit.outcomes[i], Required[i], Cardinality(work'.cloud))
    BY <2>1 DEF WellFitted
  <2> QED BY <1>7, <2>2 DEF IsFit, Teaches
<1>9. u = [of |-> d, est |-> subject'[d]]
  BY <1>4, <1>5, <1>8 DEF IsLesson
<1> QED BY <1>4, <1>6, <1>7, <1>8, <1>9

LEMMA FitKeeps ==
  ASSUME IInv, FitFrame
  PROVE  IInv'
<1> PICK merged : Fits(merged)
  BY FitsSome
<1>1. UNCHANGED <<opposing, rig, corrections, nextFrameId>> /\ work'.step = "fitted"
  BY DEF FitFrame
<1>2. ASSUME NEW d \in Dimensions PROVE IsEstimate(subject'[d])
  <2>1. CASE subject'[d] = subject[d]
    BY <2>1 DEF IInv, SubjectKnown, IsSubject
  <2>2. CASE subject'[d] # subject[d]
    <3>1. PICK u : u = [of |-> d, est |-> subject'[d]] /\ IsLesson(u)
      BY <2>2, Learned
    <3> QED BY <3>1 DEF IsLesson
  <2> QED BY <2>1, <2>2
<1>3. WellFitted(work')
  BY FitsWell
<1>4. SubjectKnown' /\ Complete'
  BY <1>2, <1>3 DEF SubjectKnown, IsSubject, Complete, WellFitted
<1> QED BY <1>1, <1>4 DEF IInv, Placed, FusedWhereFitted, Shown

LEMMA StepIInv == IInv /\ [Next]_vars => IInv'
<1> SUFFICES ASSUME IInv, [Next]_vars PROVE IInv'
  OBVIOUS
<1>1. CASE RequestRegistration \/ UNCHANGED vars
  <2>1. UNCHANGED <<opposing, rig, corrections, subject, nextFrameId, work>>
    BY <1>1 DEF RequestRegistration, vars
  <2> QED BY <2>1 DEF IInv, Placed, FusedWhereFitted, Shown, SubjectKnown, Complete, EffectivePlacement
<1>2. CASE PublishFrame
  <2>1. UNCHANGED <<opposing, rig, subject>> /\ work'.step = "idle"
    BY <1>2 DEF PublishFrame, Idle
  <2>2. nextFrameId' \in Nat
    BY <1>2 DEF PublishFrame, IInv
  <2> QED BY <2>1, <2>2 DEF IInv, Placed, FusedWhereFitted, Shown, SubjectKnown, Complete
<1>3. CASE InstallRig
  <2>1. /\ rig'.id = rig.id + 1 /\ work'.step = "idle"
        /\ subject' = Stranger /\ nextFrameId' = nextFrameId
    BY <1>3 DEF InstallRig, Idle
  <2> QED BY <2>1, StrangerIsSubject DEF IInv, Placed, FusedWhereFitted, Shown, SubjectKnown, Complete
<1> QED BY <1>1, <1>2, <1>3, ProcessKeeps, RegisterKeeps, AssembleKeeps, KeepKeeps, FitKeeps DEF Next

LEMMA Invariance == Spec => []IInv
BY InitIInv, StepIInv, PTL DEF Spec

\* Only a fit teaches, as long as the rig stays.
LEMMA OnlyFitsTeach ==
  ASSUME IInv, [Next]_vars, rig' = rig, subject' # subject
  PROVE  FitFrame
<1>1. CASE InstallRig
  <2>1. rig'.id = rig.id + 1 /\ rig.id \in Nat
    BY <1>1 DEF InstallRig, IInv
  <2> QED BY <2>1
<1> QED BY <1>1 DEF Next, vars, Process, RegisterViews, AssembleOpposingBody, KeepViews, PublishFrame,
                    RequestRegistration

-----------------------------------------------------------------------------
(***************************************************************************)
(* The placement and the warp the fitter is given for a view are those its *)
(* points were made with, also when a registration or an opposing assembly *)
(* came in between (process).                                              *)
(***************************************************************************)
THEOREM PointsWhereFitted == Spec => []FusedWhereFitted
<1>1. IInv => FusedWhereFitted
  BY DEF IInv
<1> QED BY <1>1, Invariance, PTL

(***************************************************************************)
(* What the subject learns was measured by an enabled collider of the very *)
(* frame (_apply_subject_updates).                                         *)
(***************************************************************************)
THEOREM LessonsValidated == Spec => LearnedFromValidated
<1>1. ASSUME IInv, [Next]_vars, rig' = rig, NEW d \in Dimensions, subject'[d] # subject[d]
      PROVE  \E i \in DOMAIN Required :
                  /\ work'.step = "fitted" /\ work'.typed[i].enabled
                  /\ \E k \in DOMAIN work'.outcomes[i].updates :
                        work'.outcomes[i].updates[k] = [of |-> d, est |-> subject'[d]]
  <2>1. PICK merged : Fits(merged)
    BY <1>1, OnlyFitsTeach, FitsSome
  <2>2. work'.step = "fitted" /\ work'.typed = Fit(merged).typed /\ work'.outcomes = Fit(merged).outcomes
    BY <2>1 DEF Fits
  <2> QED BY <1>1, <2>1, <2>2, Learned
<1>2. IInv /\ [Next]_vars =>
        [rig' = rig => \A d \in Dimensions : subject'[d] # subject[d] =>
              \E i \in DOMAIN Required :
                  /\ work'.step = "fitted" /\ work'.typed[i].enabled
                  /\ \E k \in DOMAIN work'.outcomes[i].updates :
                        work'.outcomes[i].updates[k] = [of |-> d, est |-> subject'[d]]]_vars
  BY <1>1
<1> QED BY <1>2, Invariance, PTL DEF Spec, LearnedFromValidated

(***************************************************************************)
(* The ratchet of the subject: a measured dimension stays measured, and a  *)
(* well-sampled one only becomes tighter (is_better_than).                 *)
(***************************************************************************)
THEOREM SubjectRatchet == Spec => SubjectNeverRegresses
<1>1. ASSUME IInv, [Next]_vars, NEW d \in Dimensions,
             rig' = rig, subject'[d] # subject[d], subject[d].source = "observed"
      PROVE  /\ subject'[d].source = "observed" /\ subject'[d].samples >= MinSamples
             /\ subject[d].samples < MinSamples \/ subject'[d].spread < subject[d].spread
  <2>1. PICK merged : Fits(merged)
    BY <1>1, OnlyFitsTeach, FitsSome
  <2>2. PICK u : u = [of |-> d, est |-> subject'[d]] /\ IsLesson(u) /\ IsBetterThan(subject'[d], subject[d])
    BY <1>1, <2>1, Learned
  <2>3. subject'[d].source = "observed" /\ subject'[d].spread \in Nat /\ subject[d].spread \in Nat
    BY <1>1, <2>2 DEF IsLesson, IInv, SubjectKnown, IsSubject, IsEstimate
  <2>4. /\ subject'[d].samples >= MinSamples
        /\ subject[d].samples < MinSamples \/ 4 * subject'[d].spread < 3 * subject[d].spread
    BY <1>1, <2>2, <2>3 DEF IsBetterThan
  <2> QED BY <2>3, <2>4
<1>2. IInv /\ [Next]_vars =>
        [\A d \in Dimensions :
          rig' = rig /\ subject'[d] # subject[d] /\ subject[d].source = "observed" =>
              /\ subject'[d].source = "observed" /\ subject'[d].samples >= MinSamples
              /\ subject[d].samples < MinSamples \/ subject'[d].spread < subject[d].spread]_vars
  BY <1>1
<1> QED BY <1>2, Invariance, PTL DEF Spec, SubjectNeverRegresses

(***************************************************************************)
(* A label is earned: an enabled collider says "observed" exactly when its *)
(* fit measured it, by points of the very frame and by enough of them      *)
(* (fit_capsule.py, fit_hand.py, fit_box.py).                              *)
(***************************************************************************)
THEOREM LabelsEarned == Spec => []ObservedMeansMeasured
<1>1. ASSUME IInv, work.step = "fitted", NEW i \in DOMAIN Required,
             work.typed[i].enabled, Required[i].id # "torso.pelvis"
      PROVE  /\ work.typed[i].source = "observed" <=> work.outcomes[i].updates # <<>>
             /\ \A k \in DOMAIN work.outcomes[i].updates :
                   work.outcomes[i].updates[k].est.samples
                      \in MinSupport[Required[i].part] .. Cardinality(work.cloud)
  <2> DEFINE fit == work.outcomes[i]
             n == Cardinality(work.cloud)
  <2>1. IsFit(fit, Required[i], n) /\ work.typed[i] = ValidateFitted(fit.collider, Required[i])
    BY <1>1 DEF IInv, Complete, WellFitted
  <2> HIDE DEF fit, n
  <2>2. work.typed[i] = fit.collider
    BY <1>1, <2>1 DEF ValidateFitted, Disabled
  <2>3. fit.collider.source = "observed" <=> fit.updates # <<>>
    BY <1>1, <2>1, <2>2 DEF IsFit, Honest
  <2>4. \A k \in DOMAIN fit.updates : fit.updates[k].est.samples \in MinSupport[Required[i].part] .. n
    BY <2>1 DEF IsFit, Teaches
  <2> QED BY <2>2, <2>3, <2>4 DEF fit, n
<1>2. IInv => ObservedMeansMeasured
  BY <1>1 DEF ObservedMeansMeasured
<1> QED BY <1>2, Invariance, PTL

-----------------------------------------------------------------------------
(* The frame that is published. *)

LEMMA ViewsAreTwo == DOMAIN Views = 1 .. 2
<1> DEFINE R == Range(Views)
<1>1. Views \in Seq(R) /\ Len(Views) = 2
  BY ProcessingAssumption DEF IsSequence
<1> HIDE DEF R
<1> QED BY <1>1

LEMMA FrameMade ==
  ASSUME NEW w, WellFitted(w), nextFrameId \in Nat, Budget <= MaxPoints,
         Cardinality(w.cloud) > 0,
         Distinct([i \in DOMAIN w.landmarks |-> w.landmarks[i].name])
  PROVE  /\ IsFrame(CharacterFrameOf(w))
         /\ \A i \in DOMAIN Required :
               /\ CharacterFrameOf(w).colliders[i].id = Required[i].id
               /\ CharacterFrameOf(w).colliders[i].valid = w.typed[i].enabled
<1> DEFINE f == CharacterFrameOf(w)
           n == Cardinality(w.cloud)
           bits == {i - 1 : i \in {i \in DOMAIN Views : \E p \in w.cloud : p.view = Views[i]}}
<1>1. /\ f.mode = w.mode /\ f.frameId = nextFrameId /\ f.sources = 2 /\ f.landmarks = w.landmarks
      /\ f.colliders = [i \in DOMAIN w.typed |-> ToTransport(w.typed[i])]
      /\ f.cloud.count = n /\ f.cloud.finite = TRUE /\ f.cloud.mask = bits
  BY DEF CharacterFrameOf
<1>2. bits \subseteq 0 .. 1
  BY ViewsAreTwo
<1>3. n \in 1 .. MaxPoints /\ MaxPoints \in Int
  <2>1. MaxPoints \in Nat
    BY WireAssumption, Zenon
  <2>2. n \in Nat /\ n <= Budget /\ Budget \in Nat
    BY ProcessingAssumption, FS_CardinalityType DEF WellFitted
  <2> HIDE DEF n
  <2>3. n > 0
    BY DEF n
  <2> QED BY <2>1, <2>2, <2>3
<1> HIDE DEF f, n, bits
<1>4. ASSUME NEW i \in DOMAIN Required
      PROVE  /\ f.colliders[i].id = Required[i].id /\ f.colliders[i].valid = w.typed[i].enabled
             /\ DecodeCollider(f.colliders[i]) = "ok"
  <2>1. /\ IsFit(w.outcomes[i], Required[i], Cardinality(w.cloud)) /\ DOMAIN w.typed = DOMAIN Required
        /\ w.typed[i] = ValidateFitted(w.outcomes[i].collider, Required[i])
    BY DEF WellFitted
  <2>2. Named(w.outcomes[i].collider, Required[i])
    BY <2>1 DEF IsFit
  <2>3. IsSound(w.typed[i], Required[i])
    BY <2>1, <2>2, ValidatedIsSound
  <2>4. f.colliders[i] = ToTransport(w.typed[i])
    BY <1>1, <2>1
  <2> QED BY <2>3, <2>4, SoundIsWritten
<1>5. AreWritten(f.colliders)
  <2>1. DOMAIN w.typed = DOMAIN Required
    BY DEF WellFitted
  <2>2. f.colliders = [i \in DOMAIN Required |-> f.colliders[i]]
    BY <1>1, <2>1
  <2> QED BY <1>4, <2>2 DEF AreWritten
<1>6. IsFrame(f)
  BY <1>1, <1>2, <1>3, <1>5 DEF IsFrame, WellFitted
<1> QED BY <1>4, <1>6 DEF f

\* A message the encoder made of such a frame.
LEMMA FrameReadable ==
  ASSUME NEW w, WellFitted(w), nextFrameId \in Nat, Budget <= MaxPoints,
         Cardinality(w.cloud) > 0,
         Distinct([i \in DOMAIN w.landmarks |-> w.landmarks[i].name]),
         EncodeCharacterFrame(CharacterFrameOf(w), 1).code = "ok",
         NEW m, m = EncodeCharacterFrame(CharacterFrameOf(w), 1).message
  PROVE  /\ DecodeCharacterFrame(m) = "ok" /\ JavaDecode(m) = "ok"
         /\ \A i \in DOMAIN w.landmarks :
               DecodedLandmark(m.header.landmarks[i]) = DecodedLandmark(w.landmarks[i])
         /\ \A i \in DOMAIN Required :
               /\ m.header.colliders[i].id = Required[i].id
               /\ m.header.colliders[i].valid <=> w.typed[i].enabled
<1> DEFINE f == CharacterFrameOf(w)
<1>1. /\ IsFrame(f)
      /\ \A i \in DOMAIN Required :
            f.colliders[i].id = Required[i].id /\ f.colliders[i].valid = w.typed[i].enabled
  BY FrameMade
<1>2. f.landmarks = w.landmarks
  BY DEF CharacterFrameOf
<1> HIDE DEF f
<1>3. Carries(m, f)
  BY Encoded DEF f
<1>4. DecodeCharacterFrame(m) = "ok" /\ JavaDecode(m) = "ok"
  BY <1>1, <1>3, BothDecode
<1>5. /\ m.header.landmarks = [i \in DOMAIN f.landmarks |-> LandmarkJson(f.landmarks[i])]
      /\ m.header.colliders = f.colliders
  BY <1>3 DEF Carries, BuildCharacterHeader
<1>6. ASSUME NEW i \in DOMAIN w.landmarks
      PROVE  DecodedLandmark(m.header.landmarks[i]) = DecodedLandmark(w.landmarks[i])
  <2> DEFINE l == w.landmarks[i]
  <2>1. l \in [valid : BOOLEAN, position : {"none", "finite"}, name : {l.name}] /\ l.name # ""
    BY DEF WellFitted, AreLandmarks
  <2>2. m.header.landmarks[i] = LandmarkJson(l)
    BY <1>2, <1>5
  <2> HIDE DEF l
  <2>3. DecodedLandmark(LandmarkJson(l)) = DecodedLandmark(l)
    BY <2>1, LandmarkDecodes
  <2> QED BY <2>2, <2>3 DEF l
<1>7. \A i \in DOMAIN Required :
        /\ m.header.colliders[i].id = Required[i].id
        /\ m.header.colliders[i].valid = w.typed[i].enabled
  BY <1>1, <1>5
<1>8. \A i \in DOMAIN Required : w.typed[i].enabled \in BOOLEAN /\ m.header.colliders[i].valid \in BOOLEAN
  <2>1. ASSUME NEW i \in DOMAIN Required PROVE w.typed[i].enabled \in BOOLEAN
    <3>1. /\ IsFit(w.outcomes[i], Required[i], Cardinality(w.cloud))
          /\ w.typed[i] = ValidateFitted(w.outcomes[i].collider, Required[i])
      BY DEF WellFitted
    <3>2. IsSound(w.typed[i], Required[i])
      BY <3>1, ValidatedIsSound DEF IsFit
    <3> QED BY <3>2 DEF IsSound
  <2> QED BY <1>7, <2>1
<1> QED BY <1>4, <1>6, <1>7, <1>8

LEMMA PublishReadable ==
  ASSUME IInv, Budget <= MaxPoints, PublishedIsReadable, PublishFrame
  PROVE  PublishedIsReadable'
<1> DEFINE f == CharacterFrameOf(work)
           e == EncodeCharacterFrame(f, 1)
           w == work
           next == [frameId |-> nextFrameId, typed |-> w.typed,
                    landmarks |-> f.landmarks, message |-> e.message]
<1>1. CASE published' = published
  BY <1>1 DEF PublishedIsReadable
<1>2. CASE published' # published
  <2>1. /\ work.step = "fitted" /\ published' = next /\ e.code = "ok"
        /\ Assembles(rig.id, rig.id, f.cloud, f.landmarks, f.colliders)
    BY <1>2 DEF PublishFrame
  <2>2. WellFitted(w) /\ nextFrameId \in Nat
    BY <2>1 DEF IInv, Complete
  <2>3. f.landmarks = w.landmarks /\ f.cloud.count = Cardinality(w.cloud)
    BY DEF CharacterFrameOf
  <2>4. Distinct([i \in DOMAIN w.landmarks |-> w.landmarks[i].name])
    BY <2>1, <2>3 DEF Assembles
  <2> DEFINE m == e.message
  <2>5. ASSUME m.header.pointCount > 0
        PROVE  /\ DecodeCharacterFrame(m) = "ok" /\ JavaDecode(m) = "ok"
               /\ \A i \in DOMAIN w.landmarks :
                     DecodedLandmark(m.header.landmarks[i]) = DecodedLandmark(w.landmarks[i])
               /\ \A i \in DOMAIN Required :
                     /\ m.header.colliders[i].id = Required[i].id
                     /\ m.header.colliders[i].valid <=> w.typed[i].enabled
    <3>1. m.header.pointCount = Cardinality(w.cloud)
      <4> HIDE DEF f
      <4>1. Carries(m, f)
        BY <2>1, Encoded
      <4> QED BY <2>3, <4>1 DEF Carries, BuildCharacterHeader
    <3>2. Cardinality(w.cloud) > 0
      BY <2>5, <3>1
    <3>3. m = EncodeCharacterFrame(CharacterFrameOf(w), 1).message
          /\ EncodeCharacterFrame(CharacterFrameOf(w), 1).code = "ok"
      BY <2>1
    <3> HIDE DEF m, w
    <3> QED BY <2>2, <2>4, <3>2, <3>3, FrameReadable
  <2>6. published'.message = m /\ published'.landmarks = w.landmarks /\ published'.typed = w.typed
    BY <2>1, <2>3
  <2> HIDE DEF m, w
  <2> QED BY <2>5, <2>6 DEF PublishedIsReadable
<1> QED BY <1>1, <1>2

(***************************************************************************)
(* If the budget of the settings is within what the decoders take, which   *)
(* nothing in the settings checks, every frame with points that is         *)
(* published is accepted by both decoders, with the landmarks and the      *)
(* colliders it was made of (encode_character_frame).                      *)
(***************************************************************************)
THEOREM FramesReadable == ASSUME Budget <= MaxPoints PROVE Spec => []PublishedIsReadable
<1>1. Init => PublishedIsReadable
  BY DEF Init, PublishedIsReadable
<1>2. IInv /\ [Next]_vars /\ PublishedIsReadable => PublishedIsReadable'
  <2> SUFFICES ASSUME IInv, [Next]_vars, PublishedIsReadable PROVE PublishedIsReadable'
    OBVIOUS
  <2>1. CASE PublishFrame
    BY <2>1, PublishReadable
  <2>2. CASE UNCHANGED published
    BY <2>2 DEF PublishedIsReadable
  <2>3. PublishFrame \/ UNCHANGED published
    BY DEF Next, vars, Process, RegisterViews, AssembleOpposingBody, KeepViews, FitFrame,
           RequestRegistration, InstallRig
  <2> QED BY <2>1, <2>2, <2>3
<1> QED BY <1>1, <1>2, Invariance, PTL DEF Spec
-----------------------------------------------------------------------------
(* Medians of numbers are numbers. *)

\* What has the least measure.
LEMMA LeastBy ==
  ASSUME NEW S, S # {}, NEW size, \A x \in S : size[x] \in Nat
  PROVE  \E x \in S : \A y \in S : size[x] <= size[y]
<1> DEFINE T == {size[x] : x \in S}
<1>1. PICK n \in T : \A k \in T : n <= k
  BY LeastNumber
<1>2. PICK x \in S : size[x] = n
  BY <1>1
<1> QED BY <1>1, <1>2

\* Numbers for the members of a finite set.
Numbers(f) == IsFiniteSet(DOMAIN f) /\ DOMAIN f # {} /\ \A i \in DOMAIN f : f[i] \in Int

LEMMA CountGrows ==
  ASSUME NEW f, Numbers(f), NEW x \in Range(f), NEW y \in Range(f), y < x
  PROVE  AtMost(f, y) \in Nat /\ AtMost(f, x) \in Nat /\ AtMost(f, y) < AtMost(f, x)
<1> DEFINE below == {i \in DOMAIN f : f[i] <= y}
           all == {i \in DOMAIN f : f[i] <= x}
<1>1. x \in Int /\ y \in Int
  BY DEF Numbers, Range
<1>2. PICK i \in DOMAIN f : f[i] = x
  BY DEF Range
<1>3. i \in all /\ i \notin below /\ below \subseteq all
  BY <1>1, <1>2 DEF Numbers
<1>4. IsFiniteSet(all)
  BY FS_Subset DEF Numbers
<1> HIDE DEF below, all
<1>5. /\ Cardinality(all) \in Nat /\ Cardinality(below) \in Nat
      /\ Cardinality(below) <= Cardinality(all) /\ Cardinality(below) # Cardinality(all)
  BY <1>3, <1>4, FS_Subset, FS_CardinalityType
<1> QED BY <1>5 DEF AtMost, below, all

LEMMA Largest ==
  ASSUME NEW f, Numbers(f)
  PROVE  \E x \in Range(f) : AtMost(f, x) = Cardinality(DOMAIN f)
<1> DEFINE above == [i \in DOMAIN f |-> Cardinality({j \in DOMAIN f : f[i] < f[j]})]
<1>1. ASSUME NEW i \in DOMAIN f PROVE IsFiniteSet({j \in DOMAIN f : f[i] < f[j]}) /\ above[i] \in Nat
  BY FS_Subset, FS_CardinalityType DEF Numbers
<1>2. PICK i \in DOMAIN f : \A j \in DOMAIN f : above[i] <= above[j]
  <2> HIDE DEF above
  <2> QED BY <1>1, LeastBy DEF Numbers
<1>3. ASSUME NEW j \in DOMAIN f, f[i] < f[j] PROVE FALSE
  <2> DEFINE S == {k \in DOMAIN f : f[i] < f[k]}
             T == {k \in DOMAIN f : f[j] < f[k]}
  <2>1. T \subseteq S /\ j \in S /\ j \notin T
    BY <1>3 DEF Numbers
  <2>2. IsFiniteSet(S) /\ above[i] = Cardinality(S) /\ above[j] = Cardinality(T)
    BY <1>1
  <2>3. above[i] \in Nat /\ above[j] \in Nat /\ above[i] <= above[j]
    BY <1>1, <1>2
  <2> HIDE DEF S, T, above
  <2>4. Cardinality(T) <= Cardinality(S) /\ Cardinality(S) # Cardinality(T)
    BY <2>1, <2>2, FS_Subset
  <2> QED BY <2>2, <2>3, <2>4
<1>4. {j \in DOMAIN f : f[j] <= f[i]} = DOMAIN f
  BY <1>3 DEF Numbers
<1> QED BY <1>4 DEF AtMost, Range

LEMMA SmallestNumber ==
  ASSUME NEW f, Numbers(f), NEW k \in Int, k <= Cardinality(DOMAIN f)
  PROVE  Smallest(f, k) \in Range(f) /\ Smallest(f, k) \in Int
<1> DEFINE X == {x \in Range(f) : AtMost(f, x) >= k}
           size == [x \in X |-> AtMost(f, x)]
<1>1. ASSUME NEW x PROVE AtMost(f, x) \in Nat
  BY FS_Subset, FS_CardinalityType DEF Numbers, AtMost
<1>2. Cardinality(DOMAIN f) \in Nat
  BY FS_CardinalityType DEF Numbers
<1>3. X # {}
  BY <1>2, Largest
<1>4. PICK x \in X : \A y \in X : AtMost(f, x) <= AtMost(f, y)
  <2>1. \A y \in X : size[y] \in Nat
    BY <1>1
  <2>2. \A y \in X : size[y] = AtMost(f, y)
    OBVIOUS
  <2> HIDE DEF X, size
  <2>3. PICK x \in X : \A y \in X : size[x] <= size[y]
    BY <1>3, <2>1, LeastBy
  <2> QED BY <2>2, <2>3
<1>5. ASSUME NEW y \in Range(f), y < x PROVE AtMost(f, y) < k
  <2>1. AtMost(f, y) < AtMost(f, x) /\ AtMost(f, y) \in Nat /\ AtMost(f, x) \in Nat
    BY <1>5, CountGrows
  <2> QED BY <1>4, <2>1
<1>6. Smallest(f, k) \in Range(f)
  BY <1>4, <1>5 DEF Smallest
<1> QED BY <1>6 DEF Numbers, Range

LEMMA MedianNumber ==
  ASSUME NEW f, Numbers(f)
  PROVE  Median(f) \in Int
<1> DEFINE n == Cardinality(DOMAIN f)
           j == (n + 1) \div 2
           k == n \div 2 + 1
           x == Smallest(f, j)
           z == Smallest(f, k)
<1>1. n \in Nat /\ n # 0
  BY FS_CardinalityType, FS_EmptySet DEF Numbers
<1>2. Median(f) = (x + z) \div 2
  BY DEF Median, TwiceMedian
<1> HIDE DEF n
<1>3. j \in Int /\ k \in Int /\ j <= n /\ k <= n
  BY <1>1
<1> HIDE DEF j, k
<1>4. x \in Int /\ z \in Int
  BY <1>3, SmallestNumber DEF n
<1> HIDE DEF x, z
<1> QED BY <1>2, <1>4
-----------------------------------------------------------------------------
(* The opposing assembly. *)

LEMMA JointsFinite == IsFiniteSet(Joints)
<1>1. IsFiniteSet({"shoulder"})
  BY FS_Singleton
<1>2. IsFiniteSet({"shoulder"} \cup {"hip"})
  BY <1>1, FS_AddElement
<1>3. IsFiniteSet({"shoulder"} \cup {"hip"} \cup {"knee"})
  BY <1>2, FS_AddElement
<1>4. IsFiniteSet({"shoulder"} \cup {"hip"} \cup {"knee"} \cup {"ankle"})
  BY <1>3, FS_AddElement
<1>5. Joints = {"shoulder"} \cup {"hip"} \cup {"knee"} \cup {"ankle"}
  BY DEF Joints
<1> QED BY <1>4, <1>5

LEMMA ShiftNumber ==
  ASSUME NEW front, NEW rear, IsProfile(front), IsProfile(rear)
  PROVE  VerticalShift(front, rear) \in Int
<1> DEFINE common == Joints \cap DOMAIN front.joints \cap DOMAIN rear.joints
           f == [j \in common |-> front.joints[j] - rear.joints[j]]
<1>1. IsFiniteSet(common)
  BY JointsFinite, FS_Subset
<1>2. \A j \in common : front.joints[j] - rear.joints[j] \in Int
  BY DEF IsProfile
<1>3. common # {} => Median(f) \in Int
  <2>1. DOMAIN f = common /\ \A j \in common : f[j] \in Int
    BY <1>2
  <2> HIDE DEF f, common
  <2> QED BY <1>1, <2>1, MedianNumber DEF Numbers
<1>4. front.floor - rear.floor \in Int
  BY DEF IsProfile
<1> QED BY <1>3, <1>4 DEF VerticalShift

LEMMA ShoulderNumber ==
  ASSUME NEW v, IsProfile(v)
  PROVE  ShoulderHeight(v) \in Int
<1>1. /\ v.floor \in Int /\ v.top \in Int
      /\ "shoulder" \in DOMAIN v.joints => v.joints["shoulder"] \in Int
  BY DEF IsProfile
<1> QED BY <1>1 DEF ShoulderHeight

\* Heights that span half a metre are apart.
LEMMA SpanIsWide ==
  ASSUME NEW D \in Int, NEW a \in 0 .. 11, NEW b \in 0 .. 11, a <= b,
         (b * D) \div 11 - (a * D) \div 11 >= 45
  PROVE  D >= 11
<1> DEFINE x == a * D
           y == b * D
           n == b - a
<1>1. x \in Int /\ y \in Int /\ n \in 0 .. 11 /\ y - x = n * D
  OBVIOUS
<1>2. y - x >= 11 * 44
  <2> HIDE DEF x, y, n
  <2>1. y \div 11 - x \div 11 >= 45
    BY DEF x, y
  <2> QED BY <1>1, <2>1
<1>3. n * D >= 484
  BY <1>1, <1>2
<1> HIDE DEF x, y, n
<1>4. ASSUME D < 11 PROVE FALSE
  <2>1. D <= 0 => n * D <= 0
    BY <1>1
  <2>2. D > 0 => n * D <= 11 * D
    BY <1>1
  <2> QED BY <1>1, <1>3, <1>4, <2>1, <2>2
<1> QED BY <1>4

LEMMA HeightsRise ==
  ASSUME NEW D \in Int, D >= 11, NEW a \in 0 .. 11, NEW b \in 0 .. 11, a < b
  PROVE  (a * D) \div 11 < (b * D) \div 11
<1> DEFINE x == a * D
           y == b * D
<1>1. x \in Int /\ y \in Int
  OBVIOUS
<1>2. y >= x + 11
  <2>1. y - x = (b - a) * D
    OBVIOUS
  <2>2. (b - a) * D >= D
    OBVIOUS
  <2> QED BY <1>1, <2>1, <2>2
<1> HIDE DEF x, y
<1>3. x \div 11 < y \div 11
  BY <1>1, <1>2
<1> QED BY <1>3 DEF x, y

\* At a height of the profile the warp is what was measured there.
LEMMA InterpAt ==
  ASSUME NEW profile, DOMAIN profile \subseteq Nat,
         \A k \in DOMAIN profile : profile[k].y \in Int,
         \A k, l \in DOMAIN profile : k < l => profile[k].y < profile[l].y,
         NEW field, \A k \in DOMAIN profile : profile[k][field] \in Int,
         NEW i \in DOMAIN profile
  PROVE  Interp(profile[i].y, profile, field) = profile[i][field]
<1> DEFINE y == profile[i].y
           below == {k \in DOMAIN profile : profile[k].y <= y}
           above == DOMAIN profile \ below
<1>1. i \in below /\ below \subseteq Nat /\ \A k \in below : k <= i
  <2>1. \A k \in DOMAIN profile : k \in Nat
    OBVIOUS
  <2> QED BY <2>1
<1> DEFINE top == Max(below)
<1>2. top = i
  <2> HIDE DEF below
  <2>1. i \in Nat /\ \A k \in below : k \in Nat
    BY <1>1
  <2> QED BY <1>1, <2>1 DEF Max
<1> DEFINE next == Min(above)
<1>3. above # {} => next \in above
  <2>1. above \subseteq Nat
    OBVIOUS
  <2> HIDE DEF above
  <2> QED BY <2>1, MinIsLeast
<1>4. above # {} => next \in DOMAIN profile /\ profile[next].y > y
  <2>1. \A k \in above : k \in DOMAIN profile /\ profile[k].y > y
    OBVIOUS
  <2> HIDE DEF above
  <2> QED BY <1>3, <2>1
<1>5. Interp(y, profile, field) =
        IF below = {} THEN profile[next][field]
        ELSE IF above = {} THEN profile[top][field]
        ELSE profile[top][field] + ((profile[next][field] - profile[top][field]) * (y - profile[top].y))
                                      \div (profile[next].y - profile[top].y)
  BY DEF Interp
<1>6. y - profile[top].y = 0
  BY <1>2
<1> HIDE DEF below, above, top, next
<1>7. ASSUME above # {}
      PROVE  ((profile[next][field] - profile[top][field]) * (y - profile[top].y))
                                      \div (profile[next].y - profile[top].y) = 0
  <2> DEFINE d == profile[next].y - profile[top].y
             w == profile[next][field] - profile[top][field]
  <2>1. d \in Int /\ d > 0 /\ w \in Int
    BY <1>2, <1>4, <1>7
  <2> HIDE DEF d, w
  <2>2. (w * 0) \div d = 0
    BY <2>1
  <2> QED BY <1>6, <2>2 DEF d, w
<1> QED BY <1>1, <1>2, <1>5, <1>7

\* A side at one height.
IsSide(s) ==
    /\ s.left \in Int /\ s.right \in Int /\ s.inner \in Int /\ s.middle \in Int
    /\ s.left % 2 = 0 /\ s.right % 2 = 0

\* What the profile of two sides is made of.
Slices(profile, front, rear, dy) ==
    /\ DOMAIN profile \subseteq 1 .. 12
    /\ \A k \in DOMAIN profile :
          LET y == Height(front, k)
              f == front.at[y]
              r == rear.at[y - dy]
          IN  /\ y \in Int /\ profile[k] = WarpSlice(y, f, r)
              /\ IsSide(f) /\ IsSide(r) /\ Width(f) >= 6 /\ Width(r) >= 6

LEMMA SideSeen ==
  ASSUME NEW v, IsProfile(v), NEW y
  PROVE  /\ SliceAt(v, y).count \in Nat
         /\ SliceAt(v, y).count > 0 => SliceAt(v, y) = v.at[y] /\ IsSide(v.at[y])
<1>1. CASE y \in DOMAIN v.at
  BY <1>1 DEF SliceAt, IsProfile, IsSide
<1>2. CASE y \notin DOMAIN v.at
  BY <1>2 DEF SliceAt, NoSlice
<1> QED BY <1>1, <1>2

LEMMA HeightNumber ==
  ASSUME NEW v, IsProfile(v), NEW k \in 1 .. 12
  PROVE  Height(v, k) \in Int
<1> DEFINE low == v.floor + 8
           high == ShoulderHeight(v) - 4
           D == high - low
           x == (k - 1) * D
<1>1. low \in Int /\ high \in Int
  BY ShoulderNumber DEF IsProfile
<1>2. Height(v, k) = low + x \div 11
  BY DEF Height
<1> HIDE DEF low, high
<1>3. x \in Int
  BY <1>1
<1> HIDE DEF x
<1> QED BY <1>1, <1>2, <1>3

LEMMA ProfileOfSlices ==
  ASSUME NEW front, NEW rear, IsProfile(front), IsProfile(rear), NEW dy
  PROVE  Slices(Profile(front, rear, dy), front, rear, dy)
<1> DEFINE p == Profile(front, rear, dy)
           f(k) == SliceAt(front, Height(front, k))
           r(k) == RearSlice(rear, Height(front, k), dy)
<1>1. /\ DOMAIN p = {k \in 1 .. 12 : Visible(f(k), r(k))}
      /\ \A k \in DOMAIN p : p[k] = WarpSlice(Height(front, k), f(k), r(k))
  BY DEF Profile
<1>2. ASSUME NEW k \in DOMAIN p
      PROVE  LET y == Height(front, k)
                 a == front.at[y]
                 b == rear.at[y - dy]
             IN  /\ y \in Int /\ p[k] = WarpSlice(y, a, b)
                 /\ IsSide(a) /\ IsSide(b) /\ Width(a) >= 6 /\ Width(b) >= 6
  <2> DEFINE y == Height(front, k)
             a == SliceAt(front, y)
             b == SliceAt(rear, y - dy)
  <2>1. k \in 1 .. 12 /\ Visible(a, b) /\ p[k] = WarpSlice(y, a, b)
    BY <1>1 DEF RearSlice
  <2>2. y \in Int
    BY <2>1, HeightNumber
  <2> HIDE DEF p
  <2> HIDE DEF y
  <2>3. a.count \in Nat /\ (a.count > 0 => a = front.at[y] /\ IsSide(front.at[y]))
    BY SideSeen
  <2>4. b.count \in Nat /\ (b.count > 0 => b = rear.at[y - dy] /\ IsSide(rear.at[y - dy]))
    BY SideSeen
  <2> HIDE DEF a, b
  <2>5. Smaller(a.count, b.count) >= 20 /\ Smaller(Width(a), Width(b)) >= 6
    BY <2>1 DEF Visible
  <2>6. a.count > 0 /\ b.count > 0
    BY <2>3, <2>4, <2>5 DEF Smaller
  <2>7. Width(a) \in Int /\ Width(b) \in Int
    BY <2>3, <2>4, <2>6 DEF IsSide, Width
  <2>8. Width(a) >= 6 /\ Width(b) >= 6
    BY <2>5, <2>7 DEF Smaller
  <2> QED BY <2>1, <2>2, <2>3, <2>4, <2>6, <2>8 DEF y
<1>3. DOMAIN p \subseteq 1 .. 12
  BY <1>1
<1> HIDE DEF p
<1>4. Slices(p, front, rear, dy)
  BY <1>2, <1>3 DEF Slices
<1> QED BY <1>4 DEF p

\* The heights of a constrained profile rise.
LEMMA ConstrainedRises ==
  ASSUME NEW front, IsProfile(front), NEW p, DOMAIN p \subseteq 1 .. 12,
         \A k \in DOMAIN p : p[k].y = Height(front, k), Constrained(p, front)
  PROVE  \A k, l \in DOMAIN p : k < l => p[k].y < p[l].y
<1> DEFINE low == front.floor + 8
           high == ShoulderHeight(front) - 4
           D == high - low
           first == Min(DOMAIN p)
           last == Max(DOMAIN p)
<1>1. low \in Int /\ high \in Int
  BY ShoulderNumber DEF IsProfile
<1>2. \A k \in DOMAIN p : p[k].y = low + ((k - 1) * D) \div 11
  BY DEF Height
<1>3. Cardinality(DOMAIN p) >= 5 /\ p[last].y - p[first].y >= 45
  BY DEF Constrained
<1>4. DOMAIN p # {}
  BY <1>3, FS_EmptySet
<1>5. first \in DOMAIN p /\ \A k \in DOMAIN p : first <= k
  <2>1. DOMAIN p \subseteq Nat
    OBVIOUS
  <2> QED BY <1>4, <2>1, MinIsLeast
<1>6. last \in DOMAIN p /\ \A k \in DOMAIN p : k <= last
  <2> DEFINE T == {12 - k : k \in DOMAIN p}
  <2>1. T \subseteq Nat /\ T # {}
    BY <1>4
  <2>2. PICK t \in T : \A u \in T : t <= u
    <3> HIDE DEF T
    <3> QED BY <2>1, LeastNumber
  <2>3. PICK k \in DOMAIN p : t = 12 - k
    BY <2>2
  <2>4. \A l \in DOMAIN p : l <= k
    <3>1. ASSUME NEW l \in DOMAIN p PROVE l <= k
      <4>1. 12 - k <= 12 - l
        BY <2>2, <2>3
      <4>2. k \in Int /\ l \in Int
        OBVIOUS
      <4> QED BY <4>1, <4>2
    <3> QED BY <3>1
  <2> QED BY <2>4 DEF Max
<1> HIDE DEF low, high, first, last
<1> DEFINE a == first - 1
           b == last - 1
<1>7. D \in Int /\ a \in 0 .. 11 /\ b \in 0 .. 11 /\ a <= b
  BY <1>1, <1>5, <1>6
<1> HIDE DEF D
<1>8. (b * D) \div 11 - (a * D) \div 11 >= 45
  <2> DEFINE x == (a * D) \div 11
             y == (b * D) \div 11
  <2>1. p[first].y = low + x /\ p[last].y = low + y
    BY <1>2, <1>5, <1>6
  <2>2. x \in Int /\ y \in Int
    <3>1. a * D \in Int /\ b * D \in Int
      BY <1>7
    <3> QED BY <3>1
  <2> HIDE DEF x, y
  <2>3. y - x >= 45
    BY <1>1, <1>3, <2>1, <2>2
  <2> QED BY <2>3 DEF x, y
<1>9. D >= 11
  <2> HIDE DEF a, b
  <2> QED BY <1>7, <1>8, SpanIsWide
<1>10. ASSUME NEW k \in DOMAIN p, NEW l \in DOMAIN p, k < l
       PROVE  p[k].y < p[l].y
  <2> DEFINE c == k - 1
             d == l - 1
  <2>1. c \in 0 .. 11 /\ d \in 0 .. 11 /\ c < d
    BY <1>10
  <2>2. p[k].y = low + (c * D) \div 11 /\ p[l].y = low + (d * D) \div 11
    BY <1>2
  <2> HIDE DEF c, d
  <2>3. (c * D) \div 11 < (d * D) \div 11
    BY <1>7, <1>9, <2>1, HeightsRise
  <2>4. (c * D) \div 11 \in Int /\ (d * D) \div 11 \in Int
    <3>1. c * D \in Int /\ d * D \in Int
      BY <1>7, <2>1
    <3> QED BY <3>1
  <2> QED BY <1>1, <2>2, <2>3, <2>4
<1> QED BY <1>10

LEMMA HalvesExact ==
  ASSUME NEW l \in Int, NEW r \in Int, l % 2 = 0, r % 2 = 0, r - l >= 6
  PROVE  /\ (l + r) \div 2 \in Int /\ (r - l) \div 2 \in Nat \ {0}
         /\ (l + r) \div 2 - (r - l) \div 2 = l /\ (l + r) \div 2 + (r - l) \div 2 = r
OBVIOUS

LEMMA EdgesMove ==
  ASSUME NEW w \in Nat \ {0}, NEW t \in Int
  PROVE  Widened(-w, w, t) = -t /\ Widened(w, w, t) = t
<1>1. Magnitude(-w) = w /\ Magnitude(w) = w
  BY DEF Magnitude
<1>2. (w * t) \div w = t
  OBVIOUS
<1>3. ((-w) * t) \div w = -t
  OBVIOUS
<1> QED BY <1>1, <1>2, <1>3 DEF Widened

\* A rear side, moved as the slice of the warp says.
Meets(s, f, r) ==
    /\ s.tx + Widened(r.left - s.sx, s.sw, s.tw) = f.left
    /\ s.tx + Widened(r.right - s.sx, s.sw, s.tw) = f.right
    /\ r.inner + s.dz <= f.inner + SeamOverlap
    /\ r.middle + s.dz <= f.middle - MinThickness
    /\ r.inner + s.dz = f.inner + SeamOverlap \/ r.middle + s.dz = f.middle - MinThickness

\* What can be interpolated.
IsSlice(s) ==
    s.y \in Int /\ s.dz \in Int /\ s.sx \in Int /\ s.tx \in Int /\ s.sw \in Int /\ s.tw \in Int

LEMMA SidesMeet ==
  ASSUME NEW y \in Int, NEW f, NEW r, IsSide(f), IsSide(r), Width(f) >= 6, Width(r) >= 6
  PROVE  IsSlice(WarpSlice(y, f, r)) /\ Meets(WarpSlice(y, f, r), f, r)
<1> DEFINE s == WarpSlice(y, f, r)
<1>1. /\ s.y = y /\ s.dz = DepthShift(f, r)
      /\ s.sx = (r.left + r.right) \div 2 /\ s.tx = (f.left + f.right) \div 2
      /\ s.sw = (r.right - r.left) \div 2 /\ s.tw = (f.right - f.left) \div 2
  BY DEF WarpSlice, Width
<1> HIDE DEF s
<1>2. /\ s.sx \in Int /\ s.sw \in Nat \ {0} /\ s.sx - s.sw = r.left /\ s.sx + s.sw = r.right
      /\ s.tx \in Int /\ s.tw \in Nat \ {0} /\ s.tx - s.tw = f.left /\ s.tx + s.tw = f.right
  <2>1. /\ r.left \in Int /\ r.right \in Int /\ r.left % 2 = 0 /\ r.right % 2 = 0 /\ r.right - r.left >= 6
        /\ f.left \in Int /\ f.right \in Int /\ f.left % 2 = 0 /\ f.right % 2 = 0 /\ f.right - f.left >= 6
    BY DEF IsSide, Width
  <2> DEFINE rl == r.left
             rr == r.right
             fl == f.left
             fr == f.right
  <2>2. /\ rl \in Int /\ rr \in Int /\ rl % 2 = 0 /\ rr % 2 = 0 /\ rr - rl >= 6
        /\ fl \in Int /\ fr \in Int /\ fl % 2 = 0 /\ fr % 2 = 0 /\ fr - fl >= 6
    BY <2>1
  <2>3. /\ s.sx = (rl + rr) \div 2 /\ s.tx = (fl + fr) \div 2
        /\ s.sw = (rr - rl) \div 2 /\ s.tw = (fr - fl) \div 2
    BY <1>1
  <2> HIDE DEF rl, rr, fl, fr
  <2>4. /\ (rl + rr) \div 2 \in Int /\ (rr - rl) \div 2 \in Nat \ {0}
        /\ (rl + rr) \div 2 - (rr - rl) \div 2 = rl /\ (rl + rr) \div 2 + (rr - rl) \div 2 = rr
    BY <2>2, HalvesExact
  <2>5. /\ (fl + fr) \div 2 \in Int /\ (fr - fl) \div 2 \in Nat \ {0}
        /\ (fl + fr) \div 2 - (fr - fl) \div 2 = fl /\ (fl + fr) \div 2 + (fr - fl) \div 2 = fr
    BY <2>2, HalvesExact
  <2> QED BY <2>3, <2>4, <2>5 DEF rl, rr, fl, fr
<1>3. /\ f.inner \in Int /\ f.middle \in Int /\ r.inner \in Int /\ r.middle \in Int
      /\ SeamOverlap \in Int /\ MinThickness \in Int
  BY BodyMergeAssumption DEF IsSide
<1>4. /\ s.dz \in Int
      /\ r.inner + s.dz <= f.inner + SeamOverlap
      /\ r.middle + s.dz <= f.middle - MinThickness
      /\ r.inner + s.dz = f.inner + SeamOverlap \/ r.middle + s.dz = f.middle - MinThickness
  BY <1>1, <1>3 DEF DepthShift, Smaller
<1>5. /\ Widened(-s.sw, s.sw, s.tw) = -s.tw /\ Widened(s.sw, s.sw, s.tw) = s.tw
  BY <1>2, EdgesMove
<1>6. r.left - s.sx = -s.sw /\ r.right - s.sx = s.sw
  BY <1>2
<1>7. /\ s.tx + Widened(r.left - s.sx, s.sw, s.tw) = f.left
      /\ s.tx + Widened(r.right - s.sx, s.sw, s.tw) = f.right
  BY <1>2, <1>5, <1>6
<1>8. IsSlice(s) /\ Meets(s, f, r)
  BY <1>1, <1>2, <1>4, <1>7 DEF IsSlice, Meets
<1> QED BY <1>8 DEF s

\* The warp, at a height it was measured at.
LEMMA WarpThere ==
  ASSUME NEW warp, DOMAIN warp.profile \subseteq Nat, warp.shift \in Int,
         \A k \in DOMAIN warp.profile : IsSlice(warp.profile[k]),
         \A k, l \in DOMAIN warp.profile : k < l => warp.profile[k].y < warp.profile[l].y,
         NEW i \in DOMAIN warp.profile, NEW x, NEW z
  PROVE  LET s == warp.profile[i]
             q == Applied(warp, [x |-> x, y |-> s.y - warp.shift, z |-> z])
         IN  q.x = s.tx + Widened(x - s.sx, s.sw, s.tw) /\ q.z = z + s.dz
<1> DEFINE p == warp.profile
           s == p[i]
           point == [x |-> x, y |-> s.y - warp.shift, z |-> z]
           y == point.y + warp.shift
           q == Applied(warp, point)
<1>1. y = s.y
  BY DEF IsSlice
<1>2. /\ \A k \in DOMAIN p : p[k].y \in Int
      /\ \A k \in DOMAIN p : p[k]["dz"] \in Int
      /\ \A k \in DOMAIN p : p[k]["sx"] \in Int
      /\ \A k \in DOMAIN p : p[k]["tx"] \in Int
      /\ \A k \in DOMAIN p : p[k]["sw"] \in Int
      /\ \A k \in DOMAIN p : p[k]["tw"] \in Int
  BY DEF IsSlice
<1>3. /\ point.x = x /\ point.z = z
  OBVIOUS
<1>4. /\ q.x = Interp(y, p, "tx")
                + Widened(point.x - Interp(y, p, "sx"), Interp(y, p, "sw"), Interp(y, p, "tw"))
      /\ q.z = point.z + Interp(y, p, "dz")
  BY DEF Applied
<1>5. DOMAIN p \subseteq Nat /\ i \in DOMAIN p /\ \A k, l \in DOMAIN p : k < l => p[k].y < p[l].y
  OBVIOUS
<1> HIDE DEF p, y, point, q
<1>6. /\ Interp(p[i].y, p, "tx") = p[i]["tx"] /\ Interp(p[i].y, p, "sx") = p[i]["sx"]
      /\ Interp(p[i].y, p, "sw") = p[i]["sw"] /\ Interp(p[i].y, p, "tw") = p[i]["tw"]
      /\ Interp(p[i].y, p, "dz") = p[i]["dz"]
  BY <1>2, <1>5, InterpAt
<1>7. q.x = s.tx + Widened(x - s.sx, s.sw, s.tw) /\ q.z = z + s.dz
  BY <1>1, <1>3, <1>4, <1>6
<1> QED BY <1>7 DEF q, point, p

\* The two sides of a body that was assembled.
Joined(front, rear, warp) ==
    \A i \in DOMAIN warp.profile :
        LET y == warp.profile[i].y
            f == front.at[y]
            r == rear.at[y - warp.shift]
            Moved(x, z) == Applied(warp, [x |-> x, y |-> y - warp.shift, z |-> z])
        IN  /\ Moved(r.left, 0).x = f.left /\ Moved(r.right, 0).x = f.right
            /\ Moved(r.left, r.inner).z <= f.inner + SeamOverlap
            /\ Moved(r.left, r.middle).z <= f.middle - MinThickness
            /\ \/ Moved(r.left, r.inner).z = f.inner + SeamOverlap
               \/ Moved(r.left, r.middle).z = f.middle - MinThickness

LEMMA BodyJoined ==
  ASSUME NEW front, NEW rear, IsProfile(front), IsProfile(rear),
         AssembleBody(front, rear).state = "applied"
  PROVE  Joined(front, rear, AssembleBody(front, rear).warp)
<1> DEFINE dy == VerticalShift(front, rear)
           p == Profile(front, rear, dy)
           warp == [profile |-> p, shift |-> dy]
<1>1. AssembleBody(front, rear).warp = warp /\ Constrained(p, front)
  <2>1. Core(front) = "ok" /\ Core(rear) = "ok"
    BY DEF AssembleBody, Rejected, Core
  <2>2. Constrained(p, front)
    BY <2>1 DEF AssembleBody, Rejected
  <2>3. Compatible(p)
    BY <2>1, <2>2 DEF AssembleBody, Rejected
  <2> QED BY <2>1, <2>2, <2>3 DEF AssembleBody
<1>2. dy \in Int
  BY ShiftNumber
<1>3. Slices(p, front, rear, dy)
  BY ProfileOfSlices
<1>4. warp.profile = p /\ warp.shift = dy
  OBVIOUS
<1> HIDE DEF dy, p, warp
<1>5. ASSUME NEW k \in DOMAIN p
      PROVE  /\ p[k].y = Height(front, k) /\ IsSlice(p[k])
             /\ Meets(p[k], front.at[p[k].y], rear.at[p[k].y - dy])
  <2> DEFINE y == Height(front, k)
             f == front.at[y]
             r == rear.at[y - dy]
  <2>1. /\ y \in Int /\ p[k] = WarpSlice(y, f, r)
        /\ IsSide(f) /\ IsSide(r) /\ Width(f) >= 6 /\ Width(r) >= 6
    BY <1>3 DEF Slices
  <2> HIDE DEF y
  <2>2. p[k].y = y
    BY <2>1 DEF WarpSlice
  <2>3. IsSlice(p[k]) /\ Meets(p[k], f, r)
    <3> HIDE DEF f, r
    <3> QED BY <2>1, SidesMeet
  <2> QED BY <2>2, <2>3 DEF y
<1>6. DOMAIN p \subseteq 1 .. 12 /\ DOMAIN p \subseteq Nat
  BY <1>3 DEF Slices
<1>7. \A k, l \in DOMAIN p : k < l => p[k].y < p[l].y
  BY <1>1, <1>5, <1>6, ConstrainedRises
<1>8. ASSUME NEW i \in DOMAIN warp.profile, NEW x, NEW z
      PROVE  LET s == p[i]
                 q == Applied(warp, [x |-> x, y |-> s.y - dy, z |-> z])
             IN  q.x = s.tx + Widened(x - s.sx, s.sw, s.tw) /\ q.z = z + s.dz
  BY <1>2, <1>4, <1>5, <1>6, <1>7, WarpThere
<1>9. Joined(front, rear, warp)
  <2> SUFFICES ASSUME NEW i \in DOMAIN warp.profile
               PROVE  LET y == warp.profile[i].y
                          f == front.at[y]
                          r == rear.at[y - warp.shift]
                          Moved(x, z) == Applied(warp, [x |-> x, y |-> y - warp.shift, z |-> z])
                      IN  /\ Moved(r.left, 0).x = f.left /\ Moved(r.right, 0).x = f.right
                          /\ Moved(r.left, r.inner).z <= f.inner + SeamOverlap
                          /\ Moved(r.left, r.middle).z <= f.middle - MinThickness
                          /\ \/ Moved(r.left, r.inner).z = f.inner + SeamOverlap
                             \/ Moved(r.left, r.middle).z = f.middle - MinThickness
    BY DEF Joined
  <2> DEFINE s == p[i]
             f == front.at[s.y]
             r == rear.at[s.y - dy]
             Q(x, z) == Applied(warp, [x |-> x, y |-> s.y - dy, z |-> z])
  <2>1. Meets(s, f, r)
    BY <1>4, <1>5
  <2>2. /\ Q(r.left, 0).x = s.tx + Widened(r.left - s.sx, s.sw, s.tw)
        /\ Q(r.right, 0).x = s.tx + Widened(r.right - s.sx, s.sw, s.tw)
        /\ Q(r.left, r.inner).z = r.inner + s.dz
        /\ Q(r.left, r.middle).z = r.middle + s.dz
    BY <1>8
  <2>3. /\ Q(r.left, 0).x = f.left /\ Q(r.right, 0).x = f.right
        /\ Q(r.left, r.inner).z <= f.inner + SeamOverlap
        /\ Q(r.left, r.middle).z <= f.middle - MinThickness
        /\ \/ Q(r.left, r.inner).z = f.inner + SeamOverlap
           \/ Q(r.left, r.middle).z = f.middle - MinThickness
    BY <2>1, <2>2 DEF Meets
  <2> QED BY <1>4, <2>3
<1> QED BY <1>1, <1>9

\* A warp is that of the assembly of the two views.
Assembled ==
    work.step = "aligned" =>
        \A dev \in DOMAIN work.warps :
            /\ dev \in Devices
            /\ AssembleBody(ProfileOf(Reference), ProfileOf(dev)).state = "applied"
            /\ work.warps[dev] = AssembleBody(ProfileOf(Reference), ProfileOf(dev)).warp

LEMMA AssembleWarps ==
  ASSUME AssembleOpposingBody
  PROVE  Assembled'
<1> DEFINE other == CHOOSE dev \in Others : TRUE
           warps == [dev \in Others |-> Merge.warp]
           body == AssembleBody(ProfileOf(Reference), ProfileOf(other))
<1>1. Others = {other} /\ other \in Devices
  <2>1. \E d : Others = {d}
    BY ProcessingAssumption DEF Others, Devices
  <2> QED BY <2>1 DEF Others
<1>2. CASE Merge.state = "applied"
  <2>1. Merge = body
    BY <1>2 DEF Merge, Rejected
  <2>2. work'.pair = work.pair /\ work'.warps = warps
    BY <1>2 DEF AssembleOpposingBody, Aligned
  <2>3. \A dev \in DOMAIN warps : dev = other /\ warps[dev] = Merge.warp
    BY <1>1
  <2>4. /\ ProfileOf(Reference)' = ProfileOf(Reference)
        /\ ProfileOf(other)' = ProfileOf(other)
    BY <2>2 DEF ProfileOf
  <2> HIDE DEF warps, other
  <2>5. body.state = "applied" /\ Merge.warp = body.warp
    BY <1>2, <2>1
  <2>6. \A dev \in DOMAIN work'.warps :
            /\ dev \in Devices
            /\ AssembleBody(ProfileOf(Reference)', ProfileOf(dev)').state = "applied"
            /\ work'.warps[dev] = AssembleBody(ProfileOf(Reference)', ProfileOf(dev)').warp
    BY <1>1, <2>2, <2>3, <2>4, <2>5
  <2> QED BY <2>6 DEF Assembled
<1>3. CASE Merge.state # "applied"
  <2>1. work'.warps = <<>>
    BY <1>3 DEF AssembleOpposingBody, Aligned
  <2> QED BY <2>1 DEF Assembled
<1> QED BY <1>2, <1>3

LEMMA StepAssembled == Assembled /\ [Next]_vars => Assembled'
<1> SUFFICES ASSUME Assembled, [Next]_vars PROVE Assembled'
  OBVIOUS
<1>1. CASE RegisterViews \/ KeepViews
  <2>1. work'.warps = <<>>
    BY <1>1 DEF RegisterViews, KeepViews, Aligned
  <2> QED BY <2>1 DEF Assembled
<1>2. CASE UNCHANGED work
  BY <1>2 DEF Assembled, ProfileOf
<1>3. CASE work'.step # "aligned"
  BY <1>3 DEF Assembled
<1>4. \/ AssembleOpposingBody \/ RegisterViews \/ KeepViews
      \/ UNCHANGED work \/ work'.step # "aligned"
  <2>1. ASSUME NEW pair, NEW mode, Process(pair, mode) PROVE work'.step # "aligned"
    BY <2>1 DEF Process, Viewed
  <2>2. FitFrame => work'.step # "aligned"
    BY DEF FitFrame
  <2>3. PublishFrame => work'.step # "aligned"
    BY DEF PublishFrame, Idle
  <2>4. RequestRegistration \/ InstallRig \/ UNCHANGED vars => UNCHANGED work
    BY DEF RequestRegistration, InstallRig, vars
  <2> QED BY <2>1, <2>2, <2>3, <2>4 DEF Next
<1> QED BY <1>1, <1>2, <1>3, <1>4, AssembleWarps

LEMMA AssembledMeets ==
  ASSUME IInv, Assembled
  PROVE  OpposingViewsMeet
<1> SUFFICES ASSUME work.step = "aligned", NEW dev \in DOMAIN work.warps
             PROVE  Joined(ProfileOf(Reference), ProfileOf(dev), work.warps[dev])
  BY DEF OpposingViewsMeet, Joined
<1> DEFINE front == ProfileOf(Reference)
           rear == ProfileOf(dev)
<1>1. /\ dev \in Devices /\ AssembleBody(front, rear).state = "applied"
      /\ work.warps[dev] = AssembleBody(front, rear).warp
  BY DEF Assembled
<1>2. work.pair \in Pairs
  BY DEF IInv, Shown
<1>3. ASSUME NEW d \in Devices PROVE IsProfile(ProfileOf(d))
  <2>1. PICK i \in DOMAIN Views : d = Views[i]
    BY ViewsAreTwo DEF Devices
  <2>2. work.pair.profile[d] \in DOMAIN Profiles
    BY <1>2, <2>1, ProcessingAssumption
  <2> QED BY <2>2, ProcessingAssumption DEF ProfileOf
<1>4. IsProfile(front) /\ IsProfile(rear)
  BY <1>1, <1>3, ProcessingAssumption DEF Devices
<1> HIDE DEF front, rear
<1>5. Joined(front, rear, work.warps[dev])
  BY <1>1, <1>4, BodyJoined
<1> QED BY <1>5 DEF front, rear

(***************************************************************************)
(* The two views make one body: whatever the profiles, where the warp was  *)
(* measured the rear silhouette becomes the front's, and the inner sides   *)
(* meet unless the body would be thinner than a body is                    *)
(* (assemble_opposing_body, BodyWarp.apply).                               *)
(***************************************************************************)
THEOREM BodyWarped == Spec => []OpposingViewsMeet
<1>1. Init => Assembled
  BY DEF Init, Assembled, Idle
<1>2. Spec => []Assembled
  BY <1>1, StepAssembled, PTL DEF Spec
<1> QED BY <1>2, AssembledMeets, Invariance, PTL

-----------------------------------------------------------------------------
(* What a decoder has seen of a message it accepts (FrameLink). *)

LEMMA BothOk ==
  ASSUME NEW a, NEW b, First(<<a, b>>) = "ok"
  PROVE  a = "ok" /\ b = "ok"
<1> DEFINE codes == <<a, b>>
<1>1. DOMAIN codes = 1 .. 2 /\ codes[1] = a /\ codes[2] = b
  OBVIOUS
<1>2. First(codes) = "ok"
  OBVIOUS
<1> HIDE DEF codes
<1>3. codes[1] = "ok" /\ codes[2] = "ok"
  BY <1>1, <1>2, AllOk
<1> QED BY <1>1, <1>3

LEMMA Numbered ==
  ASSUME NEW s, IsSequence(s)
  PROVE  Len(s) \in Nat /\ DOMAIN s = 1 .. Len(s) /\ (s # <<>> => Len(s) >= 1)
<1> DEFINE R == Range(s)
<1>1. s \in Seq(R)
  BY DEF IsSequence
<1> HIDE DEF R
<1> QED BY <1>1

\* Buffers one behind the other, from the first to the last byte.
Tiled(ds, payloadLen) ==
    /\ payloadLen \in Nat /\ Uint32Max \in Nat /\ payloadLen <= Uint32Max
    /\ Len(ds) \in Nat \ {0} /\ DOMAIN ds = 1 .. Len(ds)
    /\ \A i \in DOMAIN ds :
          /\ ds[i].offset \in Nat /\ ds[i].length \in Nat
          /\ ds[i].offset = IF i = 1 THEN 0 ELSE End(ds[i - 1])
          /\ End(ds[i]) <= payloadLen
    /\ End(ds[Len(ds)]) = payloadLen

LEMMA LaterBehind ==
  ASSUME NEW ds, NEW n, Tiled(ds, n), NEW i \in DOMAIN ds, NEW j \in DOMAIN ds, i < j
  PROVE  End(ds[i]) <= ds[j].offset
<1> DEFINE T == {k \in DOMAIN ds : i < k /\ End(ds[i]) > ds[k].offset}
<1> SUFFICES ASSUME T # {} PROVE FALSE
  BY DEF Tiled, End
<1>1. T \subseteq Nat
  BY DEF Tiled
<1> DEFINE k == Min(T)
<1>2. k \in T /\ \A l \in T : k <= l
  <2> HIDE DEF T
  <2> QED BY <1>1, MinIsLeast
<1> HIDE DEF k
<1>3. /\ k \in DOMAIN ds /\ i < k /\ End(ds[i]) > ds[k].offset
      /\ \A l \in DOMAIN ds : i < l /\ l < k => ~(End(ds[i]) > ds[l].offset)
  <2>1. \A l \in DOMAIN ds : i < l /\ End(ds[i]) > ds[l].offset => k <= l
    BY <1>2
  <2>2. \A l \in DOMAIN ds : l \in Nat
    BY DEF Tiled
  <2>3. k \in DOMAIN ds /\ i < k /\ End(ds[i]) > ds[k].offset
    BY <1>2
  <2> QED BY <2>1, <2>2, <2>3
<1> HIDE DEF T
<1>4. i \in Nat /\ k \in Nat /\ i >= 1 /\ k - 1 \in DOMAIN ds /\ k # 1
  BY <1>3 DEF Tiled
<1>5. /\ ds[k].offset = End(ds[k - 1]) /\ ds[i].offset \in Nat /\ ds[i].length \in Nat
      /\ ds[k - 1].offset \in Nat /\ ds[k - 1].length \in Nat
  BY <1>3, <1>4 DEF Tiled
<1>6. CASE k - 1 = i
  BY <1>3, <1>5, <1>6 DEF End
<1>7. CASE k - 1 # i
  <2>1. i < k - 1 /\ k - 1 < k
    BY <1>3, <1>4, <1>7
  <2>2. ~(End(ds[i]) > ds[k - 1].offset)
    BY <1>3, <1>4, <2>1
  <2> QED BY <1>3, <1>5, <2>2 DEF End
<1> QED BY <1>6, <1>7

\* No byte is read twice, and none is left over.
LEMMA TiledPartitions ==
  ASSUME NEW m, Tiled(m.header.buffers, m.payloadLen)
  PROVE  PartitionsPayload(m)
<1> DEFINE ds == m.header.buffers
           n == m.payloadLen
<1> HIDE DEF ds, n
<1>0. Tiled(ds, n)
  BY DEF ds, n
<1>1. ASSUME NEW i \in DOMAIN ds PROVE Bytes(ds[i]) \subseteq 0 .. n - 1
  BY <1>0 DEF Tiled, Bytes, End
<1>2. ASSUME NEW b \in 0 .. n - 1
      PROVE  Cardinality({i \in DOMAIN ds : b \in Bytes(ds[i])}) = 1
  <2> DEFINE T == {i \in DOMAIN ds : b < End(ds[i])}
             k == Min(T)
  <2>1. T \subseteq Nat /\ Len(ds) \in T
    BY <1>0 DEF Tiled
  <2>2. k \in T /\ \A l \in T : k <= l
    <3> HIDE DEF T
    <3> QED BY <2>1, MinIsLeast
  <2> HIDE DEF k
  <2>3. /\ k \in DOMAIN ds /\ b < End(ds[k])
        /\ \A l \in DOMAIN ds : b < End(ds[l]) => k <= l
    BY <2>2
  <2> HIDE DEF T
  <2>4. ds[k].offset <= b
    <3>1. CASE k = 1
      BY <1>0, <2>3, <3>1 DEF Tiled
    <3>2. CASE k # 1
      <4>1. k - 1 \in DOMAIN ds /\ k \in Nat
        BY <1>0, <2>3, <3>2 DEF Tiled
      <4>2. ~(b < End(ds[k - 1]))
        BY <2>3, <4>1
      <4>3. ds[k].offset = End(ds[k - 1]) /\ ds[k - 1].offset \in Nat /\ ds[k - 1].length \in Nat
        BY <1>0, <2>3, <3>2, <4>1 DEF Tiled
      <4> QED BY <4>2, <4>3 DEF End
    <3> QED BY <3>1, <3>2
  <2>5. b \in Bytes(ds[k])
    BY <1>0, <2>3, <2>4 DEF Bytes, Tiled
  <2>6. ASSUME NEW j \in DOMAIN ds, b \in Bytes(ds[j]) PROVE j = k
    <3>1. ds[j].offset <= b /\ b < End(ds[j])
      BY <2>6 DEF Bytes
    <3>2. j \in Nat /\ k \in Nat /\ k <= j
      BY <1>0, <2>3, <3>1 DEF Tiled
    <3>3. k < j => End(ds[k]) <= ds[j].offset
      BY <1>0, <2>3, LaterBehind
    <3>4. End(ds[k]) \in Nat /\ ds[j].offset \in Nat
      BY <1>0, <2>3 DEF Tiled, End
    <3> QED BY <2>3, <3>1, <3>2, <3>3, <3>4
  <2>7. {i \in DOMAIN ds : b \in Bytes(ds[i])} = {k}
    BY <2>3, <2>5, <2>6
  <2> QED BY <2>7, FS_Singleton
<1>3. PartitionsPayload(m)
  BY <1>1, <1>2 DEF PartitionsPayload, ds, n
<1> QED BY <1>3

-----------------------------------------------------------------------------
(* What validation of the buffers finds. *)

LEMMA EnvelopeBounds ==
  ASSUME NEW m, IsMessage(m), DecodeEnvelope(m) = "ok"
  PROVE  m.payloadLen \in Nat /\ Uint32Max \in Nat /\ m.payloadLen <= Uint32Max
<1> DEFINE codes ==
      <<Check(m.len >= PrefixLen, "invalid_message"),
        Check(m.magic, "invalid_message"),
        Check(m.version = 1, "unsupported_version"),
        Check(m.type \in {RgbdFrame, CharacterFrame}, "invalid_message"),
        Check(m.headerLen <= MaxHeader, "frame_too_large"),
        Check(m.type \in DOMAIN MaxPayload => m.payloadLen <= MaxPayload[m.type],
              "frame_too_large"),
        Check(m.len = PrefixLen + m.headerLen + m.payloadLen, "invalid_message"),
        Check(m.text = "object", "invalid_message")>>
<1>1. /\ DOMAIN codes = 1 .. 8
      /\ codes[4] = Check(m.type \in {RgbdFrame, CharacterFrame}, "invalid_message")
      /\ codes[6] = Check(m.type \in DOMAIN MaxPayload => m.payloadLen <= MaxPayload[m.type],
                          "frame_too_large")
  OBVIOUS
<1>2. First(codes) = "ok"
  BY DEF DecodeEnvelope
<1> HIDE DEF codes
<1>3. codes[4] = "ok" /\ codes[6] = "ok"
  BY <1>1, <1>2, AllOk
<1>4. m.type \in {1, 2}
  BY <1>1, <1>3 DEF Check, RgbdFrame, CharacterFrame
<1>5. m.type \in DOMAIN MaxPayload => m.payloadLen <= MaxPayload[m.type]
  BY <1>1, <1>3 DEF Check
<1>6. MaxPayload \in [{1, 2} -> 0 .. Uint32Max] /\ Uint32Max \in Nat
  BY EnvelopeAssumption
<1>7. MaxPayload[m.type] \in 0 .. Uint32Max /\ m.type \in DOMAIN MaxPayload
  BY <1>4, <1>6
<1> QED BY <1>5, <1>6, <1>7 DEF IsMessage

LEMMA ParsedEach ==
  ASSUME NEW ds, IsSequence(ds), ParseDescriptors(ds) = "ok"
  PROVE  ds # <<>> /\ \A i \in DOMAIN ds : FromJson(ds[i]) = "ok"
<1> DEFINE parsed == [i \in DOMAIN ds |-> FromJson(ds[i])]
           some == Check(ds # <<>>, "invalid_message")
<1>1. First(<<some, First(parsed)>>) = "ok"
  BY DEF ParseDescriptors, Each
<1>2. some = "ok" /\ First(parsed) = "ok"
  <2> HIDE DEF some, parsed
  <2> QED BY <1>1, BothOk
<1>3. ds # <<>>
  BY <1>2 DEF Check
<1>4. DOMAIN parsed = DOMAIN ds /\ DOMAIN ds \subseteq Nat
  BY Numbered
<1>5. ASSUME NEW i \in DOMAIN ds PROVE parsed[i] = "ok"
  <2> HIDE DEF parsed
  <2> QED BY <1>2, <1>4, AllOk
<1> QED BY <1>3, <1>5

\* A descriptor as both readers of the header leave it.
Readable(d) ==
    /\ d.encoding \in Encodings
    /\ d.offset \in 0 .. Uint32Max /\ d.length \in 0 .. Uint32Max
    /\ d.encoding # "jpeg" => d.shape # Absent

LEMMA JsonReadable ==
  ASSUME NEW d, FromJson(d) = "ok"
  PROVE  /\ Readable(d) /\ d.known /\ d.name # ""
         /\ d.shape # Absent => d.shape # <<>> /\ \A i \in DOMAIN d.shape : Uint32(d.shape[i]) /\ d.shape[i] > 0
BY DEF FromJson, Check, Readable, Uint32

LEMMA LoadedTiled ==
  ASSUME NEW m, IsMessage(m), DecodeEnvelope(m) = "ok", LoadBuffers(m) = "ok"
  PROVE  /\ Tiled(m.header.buffers, m.payloadLen)
         /\ m.header.buffers # <<>>
         /\ \A i \in DOMAIN m.header.buffers : FromJson(m.header.buffers[i]) = "ok"
         /\ Distinct([i \in DOMAIN m.header.buffers |-> m.header.buffers[i].name])
         /\ \A i \in DOMAIN m.header.buffers :
               FixedSize(m.header.buffers[i]) =>
                   ExpectedLength(m.header.buffers[i]) = m.header.buffers[i].length
<1> DEFINE ds == m.header.buffers
           n == m.payloadLen
<1> HIDE DEF ds, n
<1>1. IsSequence(ds) /\ n \in Nat /\ Uint32Max \in Nat /\ n <= Uint32Max
  BY EnvelopeBounds DEF IsMessage, ds, n
<1>2. ParseDescriptors(ds) = "ok" /\ ValidateDescriptors(ds, n) = "ok"
  BY DEF LoadBuffers, ds, n
<1>3. ds # <<>> /\ \A i \in DOMAIN ds : FromJson(ds[i]) = "ok"
  BY <1>1, <1>2, ParsedEach
<1>4. /\ Distinct([i \in DOMAIN ds |-> ds[i].name])
      /\ \A i \in DOMAIN ds :
            /\ End(ds[i]) <= n
            /\ ds[i].offset = IF i = 1 THEN 0 ELSE End(ds[i-1])
            /\ FixedSize(ds[i]) => ExpectedLength(ds[i]) = ds[i].length
      /\ ds # <<>> => End(Last(ds)) = n
  BY <1>2 DEF ValidateDescriptors, Check
<1>5. Len(ds) \in Nat \ {0} /\ DOMAIN ds = 1 .. Len(ds)
  BY <1>1, <1>3, Numbered
<1>6. \A i \in DOMAIN ds : ds[i].offset \in Nat /\ ds[i].length \in Nat
  <2> SUFFICES ASSUME NEW i \in DOMAIN ds PROVE ds[i].offset \in Nat /\ ds[i].length \in Nat
    OBVIOUS
  <2>1. Readable(ds[i])
    BY <1>3, JsonReadable
  <2> QED BY <1>1, <2>1 DEF Readable
<1>7. Tiled(ds, n)
  BY <1>1, <1>3, <1>4, <1>5, <1>6 DEF Tiled, Last
<1> QED BY <1>3, <1>4, <1>7 DEF ds, n

\* The buffer of a name, where there is one.
LEMMA BufferFound ==
  ASSUME NEW m, NEW name, Has(m, name)
  PROVE  \E i \in DOMAIN m.header.buffers :
             m.header.buffers[i] = Descriptor(m, name) /\ Descriptor(m, name).name = name
BY DEF Has, Descriptor

\* Names are different, so it is the only one.
LEMMA OnlyBuffer ==
  ASSUME NEW m, NEW i \in DOMAIN m.header.buffers,
         Distinct([k \in DOMAIN m.header.buffers |-> m.header.buffers[k].name])
  PROVE  /\ Has(m, m.header.buffers[i].name)
         /\ Descriptor(m, m.header.buffers[i].name) = m.header.buffers[i]
<1> DEFINE ds == m.header.buffers
<1> HIDE DEF ds
<1>1. \A k \in DOMAIN ds : ds[k].name = ds[i].name => k = i
  BY DEF Distinct, IsInjective, ds
<1>2. (CHOOSE k \in DOMAIN ds : ds[k].name = ds[i].name) = i /\ i \in DOMAIN ds
  BY <1>1 DEF ds
<1> QED BY <1>2 DEF Has, Descriptor, ds

-----------------------------------------------------------------------------
(* Captures. *)

LEMMA TwoDimensions ==
  ASSUME NEW e, NEW h, NEW w, NEW d, d.encoding = e, d.shape = <<h, w>>
  PROVE  ExpectedLength(d) = (ElementSize[e] * h) * w
<1> DEFINE shape == <<h, w>>
           Step(g) == [s \in SUBSET {1, 2} |->
                          IF s = {} THEN ElementSize[e]
                          ELSE g[s \ {Max(s)}] * shape[Max(s)]]
           F == [s \in SUBSET {1, 2} |->
                    IF s = {} THEN ElementSize[e]
                    ELSE IF s = {1} THEN ElementSize[e] * h
                    ELSE IF s = {2} THEN ElementSize[e] * w
                    ELSE (ElementSize[e] * h) * w]
<1>1. Max({1}) = 1 /\ Max({2}) = 2 /\ Max({1, 2}) = 2
  BY DEF Max
<1>2. SUBSET {1, 2} = {{}, {1}, {2}, {1, 2}}
  OBVIOUS
<1>3. {1} # {} /\ {2} # {} /\ {1, 2} # {} /\ {1} # {2} /\ {1, 2} # {1} /\ {1, 2} # {2}
  OBVIOUS
<1>4. {1} \ {1} = {} /\ {2} \ {2} = {} /\ {1, 2} \ {2} = {1}
  OBVIOUS
<1>5. shape[1] = h /\ shape[2] = w /\ DOMAIN shape = {1, 2}
  OBVIOUS
<1>6. F = Step(F)
  <2>1. /\ F[{}] = ElementSize[e] /\ F[{1}] = ElementSize[e] * h
        /\ F[{2}] = ElementSize[e] * w /\ F[{1, 2}] = (ElementSize[e] * h) * w
    BY <1>2, <1>3
  <2>2. ASSUME NEW s \in SUBSET {1, 2} PROVE F[s] = Step(F)[s]
    <3> DEFINE G == F
    <3> HIDE DEF G
    <3>1. Step(F)[s] = IF s = {} THEN ElementSize[e] ELSE F[s \ {Max(s)}] * shape[Max(s)]
      OBVIOUS
    <3> HIDE DEF F, Step, shape
    <3>2. CASE s = {}
      BY <2>1, <3>1, <3>2
    <3>3. CASE s = {1}
      BY <1>1, <1>3, <1>4, <1>5, <2>1, <3>1, <3>3
    <3>4. CASE s = {2}
      BY <1>1, <1>3, <1>4, <1>5, <2>1, <3>1, <3>4
    <3>5. CASE s = {1, 2}
      BY <1>1, <1>3, <1>4, <1>5, <2>1, <3>1, <3>5
    <3> QED BY <1>2, <3>2, <3>3, <3>4, <3>5
  <2> QED BY <2>2
<1> DEFINE G == CHOOSE g : g = Step(g)
<1>7. G = Step(G)
  <2> HIDE DEF Step, F
  <2> QED BY <1>6
<1>8. G[{1, 2}] = (ElementSize[e] * h) * w
  <2> HIDE DEF G
  <2>1. \A s \in SUBSET {1, 2} : G[s] = IF s = {} THEN ElementSize[e] ELSE G[s \ {Max(s)}] * shape[Max(s)]
    BY <1>7
  <2> HIDE DEF Step, shape
  <2>2. G[{}] = ElementSize[e]
    BY <1>2, <2>1
  <2>3. G[{1}] = G[{1} \ {Max({1})}] * shape[Max({1})]
    BY <1>2, <1>3, <2>1
  <2>4. G[{1, 2}] = G[{1, 2} \ {Max({1, 2})}] * shape[Max({1, 2})]
    BY <1>2, <1>3, <2>1
  <2>5. G[{1}] = ElementSize[e] * h
    BY <1>1, <1>4, <1>5, <2>2, <2>3
  <2> QED BY <1>1, <1>4, <1>5, <2>4, <2>5
<1>9. ExpectedLength(d) = (CHOOSE g : g = [s \in SUBSET DOMAIN shape |->
                              IF s = {} THEN ElementSize[e]
                              ELSE g[s \ {Max(s)}] * shape[Max(s)]])[DOMAIN shape]
  BY DEF ExpectedLength, FoldLeft, MapThenFoldSet
<1> QED BY <1>5, <1>8, <1>9

\* A raster of the size the header says has a sample for each pixel.
LEMMA RasterCovers ==
  ASSUME NEW m, IsMessage(m), m.header.depth.width \in Int, m.header.depth.height \in Int,
         DecodeEnvelope(m) = "ok", LoadBuffers(m) = "ok",
         NEW name, RasterVerdict(m, name) = "ok"
  PROVE  /\ Has(m, name)
         /\ Descriptor(m, name).length =
               m.header.depth.width * m.header.depth.height * ElementSize[Descriptor(m, name).encoding]
<1> DEFINE d == Descriptor(m, name)
           w == m.header.depth.width
           h == m.header.depth.height
           have == Check(Has(m, name), "invalid_message")
           fixed == Check(Has(m, name) => d.encoding # "jpeg", "invalid_message")
<1>1. ArrayOf(m, name) = "ok" /\ Raster(m, name) = DepthSize(m.header)
  BY DEF RasterVerdict, Check
<1>2. First(<<have, fixed>>) = "ok"
  BY <1>1 DEF ArrayOf
<1>3. have = "ok" /\ fixed = "ok"
  <2> HIDE DEF have, fixed
  <2> QED BY <1>2, BothOk
<1>4. Has(m, name) /\ d.encoding # "jpeg"
  BY <1>3 DEF Check
<1>5. PICK i \in DOMAIN m.header.buffers : m.header.buffers[i] = d
  BY <1>4, BufferFound
<1>6. Readable(d) /\ (FixedSize(d) => ExpectedLength(d) = d.length)
  <2>1. FromJson(d) = "ok" /\ (FixedSize(d) => ExpectedLength(d) = d.length)
    BY <1>5, LoadedTiled
  <2> QED BY <2>1, JsonReadable
<1>7. DepthSize(m.header) = <<h, w>>
  BY DEF DepthSize
<1> HIDE DEF w, h
<1>8. (IF d.encoding = "xyzrgba16_le" THEN <<d.length>> ELSE d.shape) = <<h, w>>
  BY <1>1, <1>7 DEF Raster
<1> HIDE DEF d
<1>9. d.encoding # "xyzrgba16_le" /\ d.shape = <<h, w>>
  <2>1. <<d.length>> # <<h, w>>
    <3>1. Len(<<d.length>>) = 1 /\ Len(<<h, w>>) = 2
      OBVIOUS
    <3> QED BY <3>1
  <2> QED BY <1>8, <2>1
<1>10. FixedSize(d)
  BY <1>4, <1>6 DEF FixedSize, Readable
<1>11. d.length = (ElementSize[d.encoding] * h) * w
  BY <1>6, <1>9, <1>10, TwoDimensions
<1>12. ElementSize[d.encoding] \in Int
  <2>1. d.encoding \in {"float32_le", "uint8", "xyzrgba16_le"}
    BY <1>4, <1>6 DEF Readable, Encodings
  <2>2. ElementSize \in [{"float32_le", "uint8", "xyzrgba16_le"} -> Nat \ {0}]
    BY EnvelopeAssumption
  <2> QED BY <2>1, <2>2
<1>13. w \in Int /\ h \in Int
  BY DEF w, h
<1> DEFINE size == ElementSize[d.encoding]
<1> HIDE DEF size
<1>14. (size * h) * w = w * h * size
  BY <1>12, <1>13 DEF size
<1> QED BY <1>4, <1>11, <1>14 DEF w, h, size, d

LEMMA CaptureWhole ==
  ASSUME NEW m, IsMessage(m), m.header.depth.width \in Int, m.header.depth.height \in Int,
         DecodeRgbdFrame(m) = "ok"
  PROVE  /\ PartitionsPayload(m) /\ SamplesPerPixel(m)
         /\ m.content.jpeg = <<m.header.rgb.width, m.header.rgb.height>>
         /\ Has(m, "rgb") /\ Has(m, "depth")
<1> DEFINE parsed == ParseRgbdHeader(m.header)
           loaded == LoadBuffers(m)
           early == First(<<parsed, loaded>>)
           third == IF Has(m, "confidence") THEN RasterVerdict(m, "confidence") ELSE "ok"
           codes == <<RgbVerdict(m), RasterVerdict(m, "depth"), third>>
<1>1. DecodeEnvelope(m) = "ok" /\ early = "ok" /\ First(codes) = "ok"
  BY DEF DecodeRgbdFrame
<1>2. loaded = "ok"
  <2> HIDE DEF parsed, loaded
  <2> QED BY <1>1, BothOk
<1>3. DOMAIN codes = 1 .. 3 /\ codes[1] = RgbVerdict(m) /\ codes[2] = RasterVerdict(m, "depth") /\ codes[3] = third
  OBVIOUS
<1>4. codes[1] = "ok" /\ codes[2] = "ok" /\ codes[3] = "ok"
  <2> HIDE DEF codes
  <2> QED BY <1>1, <1>3, AllOk
<1> HIDE DEF codes, early
<1>5. PartitionsPayload(m)
  BY <1>1, <1>2, LoadedTiled, TiledPartitions
<1>6. SamplesPerPixel(m) /\ Has(m, "depth")
  <2>1. /\ Has(m, "depth")
        /\ Descriptor(m, "depth").length =
              m.header.depth.width * m.header.depth.height * ElementSize[Descriptor(m, "depth").encoding]
    BY <1>1, <1>2, <1>3, <1>4, RasterCovers
  <2>2. Has(m, "confidence") => RasterVerdict(m, "confidence") = "ok"
    BY <1>3, <1>4
  <2>3. Has(m, "confidence") =>
          Descriptor(m, "confidence").length =
              m.header.depth.width * m.header.depth.height * ElementSize[Descriptor(m, "confidence").encoding]
    BY <1>1, <1>2, <2>2, RasterCovers
  <2> QED BY <2>1, <2>3 DEF SamplesPerPixel
<1>7. m.content.jpeg = <<m.header.rgb.width, m.header.rgb.height>> /\ Has(m, "rgb")
  <2> DEFINE decoded == Imdecode(Descriptor(m, "rgb").length, m.content.jpeg)
             sized == Check(m.content.jpeg = <<m.header.rgb.width, m.header.rgb.height>>, "invalid_message")
  <2>1. RgbVerdict(m) = "ok"
    BY <1>3, <1>4
  <2>2. Has(m, "rgb") /\ First(<<decoded, sized>>) = "ok"
    BY <2>1 DEF RgbVerdict
  <2>3. sized = "ok"
    <3> HIDE DEF decoded, sized
    <3> QED BY <2>2, BothOk
  <2> QED BY <2>2, <2>3 DEF Check
<1> QED BY <1>5, <1>6, <1>7

\* A message is one of the model's, and its verdict that of its decoders.
LinkInv ==
    /\ link \in {"capture", "character", "clock"}
    /\ link = "capture" => message \in RgbdMessages
    /\ link = "character" => message \in CharacterMessages
    /\ "capture" \in DOMAIN verdict => link = "capture" /\ verdict["capture"] = DecodeRgbdFrame(message)
    /\ {"backend", "mod"} \cap DOMAIN verdict # {} =>
          /\ link = "character" /\ {"backend", "mod"} \subseteq DOMAIN verdict
          /\ verdict["backend"] = DecodeCharacterFrame(message)
          /\ verdict["mod"] = JavaDecode(message)

LEMMA LinkInvariance == LinkSpec => []LinkInv
<1>1. LinkInit => LinkInv
  <2>1. DOMAIN <<>> = {}
    OBVIOUS
  <2> QED BY <2>1 DEF LinkInit, LinkInv
<1>2. LinkInv /\ [LinkNext]_linkVars => LinkInv'
  <2> SUFFICES ASSUME LinkInv, [LinkNext]_linkVars PROVE LinkInv'
    OBVIOUS
  <2>1. CASE ReceiveRgbd
    <3> DEFINE v == [capture |-> DecodeRgbdFrame(message)]
    <3>1. DOMAIN v = {"capture"} /\ v["capture"] = DecodeRgbdFrame(message)
      OBVIOUS
    <3>2. verdict' = v /\ link' = link /\ message' = message /\ link = "capture"
      BY <2>1 DEF ReceiveRgbd
    <3> HIDE DEF v
    <3> QED BY <3>1, <3>2 DEF LinkInv
  <2>2. CASE ReceiveCharacter
    <3> DEFINE v == [backend |-> DecodeCharacterFrame(message), mod |-> JavaDecode(message)]
    <3>1. /\ DOMAIN v = {"backend", "mod"} /\ v["backend"] = DecodeCharacterFrame(message)
          /\ v["mod"] = JavaDecode(message)
      OBVIOUS
    <3>2. verdict' = v /\ link' = link /\ message' = message /\ link = "character"
      BY <2>2 DEF ReceiveCharacter
    <3> HIDE DEF v
    <3> QED BY <3>1, <3>2 DEF LinkInv
  <2>3. CASE UNCHANGED <<link, message, verdict>>
    BY <2>3 DEF LinkInv
  <2> QED BY <2>1, <2>2, <2>3 DEF LinkNext, linkVars, OnClockPong, PhoneRestarts, RegisterCapture
<1> QED BY <1>1, <1>2, PTL DEF LinkSpec

(***************************************************************************)
(* A captured frame is made only of a message whose buffers cover the      *)
(* payload without overlap or gap, with a sample for each pixel            *)
(* (load_buffers, parse_rgbd_header, ingest_rgbd).                         *)
(***************************************************************************)
THEOREM CapturesWhole == LinkSpec => []AcceptedCaptureIsWhole
<1>1. LinkInv => AcceptedCaptureIsWhole
  <2> SUFFICES ASSUME LinkInv, Accepted("capture")
               PROVE  /\ PartitionsPayload(message) /\ SamplesPerPixel(message)
                      /\ message.content.jpeg = <<message.header.rgb.width, message.header.rgb.height>>
                      /\ Has(message, "rgb") /\ Has(message, "depth")
    BY DEF AcceptedCaptureIsWhole
  <2>1. message \in RgbdMessages /\ DecodeRgbdFrame(message) = "ok"
    BY DEF LinkInv, Accepted
  <2>2. IsMessage(message) /\ message.header.depth.width \in Int /\ message.header.depth.height \in Int
    BY <2>1, LinkAssumption
  <2> QED BY <2>1, <2>2, CaptureWhole
<1> QED BY <1>1, LinkInvariance, PTL

-----------------------------------------------------------------------------
(* Character messages: what each decoder asks, as conditions. *)

LEMMA FirstIff ==
  ASSUME NEW codes, DOMAIN codes \subseteq Nat
  PROVE  First(codes) = "ok" <=> \A i \in DOMAIN codes : codes[i] = "ok"
BY FirstOk, AllOk

LEMMA TwoIff ==
  ASSUME NEW a, NEW b
  PROVE  First(<<a, b>>) = "ok" <=> a = "ok" /\ b = "ok"
BY PairOk, BothOk

LEMMA ThreeIff ==
  ASSUME NEW a, NEW b, NEW c
  PROVE  First(<<a, b, c>>) = "ok" <=> a = "ok" /\ b = "ok" /\ c = "ok"
<1> DEFINE codes == <<a, b, c>>
<1>1. DOMAIN codes = 1 .. 3 /\ codes[1] = a /\ codes[2] = b /\ codes[3] = c
  OBVIOUS
<1> HIDE DEF codes
<1>2. First(codes) = "ok" <=> \A i \in DOMAIN codes : codes[i] = "ok"
  BY <1>1, FirstIff
<1>3. First(codes) = "ok" <=> a = "ok" /\ b = "ok" /\ c = "ok"
  BY <1>1, <1>2
<1> QED BY <1>3 DEF codes

LEMMA FourIff ==
  ASSUME NEW a, NEW b, NEW c, NEW d
  PROVE  First(<<a, b, c, d>>) = "ok" <=> a = "ok" /\ b = "ok" /\ c = "ok" /\ d = "ok"
<1> DEFINE codes == <<a, b, c, d>>
<1>1. DOMAIN codes = 1 .. 4 /\ codes[1] = a /\ codes[2] = b /\ codes[3] = c /\ codes[4] = d
  OBVIOUS
<1> HIDE DEF codes
<1>2. First(codes) = "ok" <=> \A i \in DOMAIN codes : codes[i] = "ok"
  BY <1>1, FirstIff
<1>3. First(codes) = "ok" <=> a = "ok" /\ b = "ok" /\ c = "ok" /\ d = "ok"
  BY <1>1, <1>2
<1> QED BY <1>3 DEF codes

LEMMA FiveIff ==
  ASSUME NEW a, NEW b, NEW c, NEW d, NEW e
  PROVE  First(<<a, b, c, d, e>>) = "ok" <=> a = "ok" /\ b = "ok" /\ c = "ok" /\ d = "ok" /\ e = "ok"
<1> DEFINE codes == <<a, b, c, d, e>>
<1>1. /\ DOMAIN codes = 1 .. 5 /\ codes[1] = a /\ codes[2] = b /\ codes[3] = c /\ codes[4] = d
      /\ codes[5] = e
  OBVIOUS
<1> HIDE DEF codes
<1>2. First(codes) = "ok" <=> \A i \in DOMAIN codes : codes[i] = "ok"
  BY <1>1, FirstIff
<1>3. First(codes) = "ok" <=> a = "ok" /\ b = "ok" /\ c = "ok" /\ d = "ok" /\ e = "ok"
  BY <1>1, <1>2
<1> QED BY <1>3 DEF codes

\* Both decoders read envelope and header alike.
Headed(m) == DecodeEnvelope(m) = "ok" /\ m.type = CharacterFrame /\ DecodeHeader(m.header) = "ok"

LEMMA BackendAccepts ==
  ASSUME NEW m
  PROVE  DecodeCharacterFrame(m) = "ok" <=>
            /\ Headed(m) /\ LoadBuffers(m) = "ok" /\ Has(m, "points")
            /\ DecodePoints(m) = "ok" /\ m.header.quality /\ m.header.ids
<1> DEFINE kind == Check(m.type = CharacterFrame, "invalid_message")
           header == DecodeHeader(m.header)
           loaded == LoadBuffers(m)
           has == Check(Has(m, "points"), "invalid_message")
           points == DecodePoints(m)
           stats == Check(m.header.quality /\ m.header.ids, "invalid_message")
           body == First(<<kind, header, loaded, has>>)
           rest == First(<<points, stats>>)
<1>1. body = "ok" <=> kind = "ok" /\ header = "ok" /\ loaded = "ok" /\ has = "ok"
  <2> HIDE DEF kind, header, loaded, has
  <2> QED BY FourIff
<1>2. rest = "ok" <=> points = "ok" /\ stats = "ok"
  <2> HIDE DEF points, stats
  <2> QED BY TwoIff
<1>3. /\ kind = "ok" <=> m.type = CharacterFrame
      /\ has = "ok" <=> Has(m, "points")
      /\ stats = "ok" <=> m.header.quality /\ m.header.ids
  BY DEF Check
<1>4. DecodeCharacterFrame(m) =
         IF DecodeEnvelope(m) # "ok" THEN DecodeEnvelope(m) ELSE IF body # "ok" THEN body ELSE rest
  BY DEF DecodeCharacterFrame
<1> HIDE DEF body, rest
<1> QED BY <1>1, <1>2, <1>3, <1>4 DEF Headed

LEMMA ModAccepts ==
  ASSUME NEW m
  PROVE  JavaDecode(m) = "ok" <=> Headed(m) /\ JavaValidateBuffers(m) = "ok" /\ JavaPoints(m) = "ok"
<1> DEFINE kind == Check(m.type = CharacterFrame, "invalid_message")
           header == DecodeHeader(m.header)
           loaded == JavaValidateBuffers(m)
           body == First(<<kind, header, loaded>>)
<1>1. body = "ok" <=> kind = "ok" /\ header = "ok" /\ loaded = "ok"
  <2> HIDE DEF kind, header, loaded
  <2> QED BY ThreeIff
<1>2. kind = "ok" <=> m.type = CharacterFrame
  BY DEF Check
<1>3. JavaDecode(m) =
         IF DecodeEnvelope(m) # "ok" THEN DecodeEnvelope(m) ELSE IF body # "ok" THEN body ELSE JavaPoints(m)
  BY DEF JavaDecode
<1> HIDE DEF body
<1> QED BY <1>1, <1>2, <1>3 DEF Headed

\* What the mod asks of one descriptor, and of it among the others.
JavaReads(d) ==
    /\ d.known /\ d.name # "" /\ d.encoding \in Encodings
    /\ Uint32(d.offset) /\ Uint32(d.length)
    /\ IF d.shape = Absent THEN d.encoding = "jpeg" ELSE \A i \in DOMAIN d.shape : d.shape[i] > 0

JavaPlaces(ds, n, i) ==
    /\ \A j \in 1 .. i - 1 : ds[j].name # ds[i].name
    /\ ds[i].offset = IF i = 1 THEN 0 ELSE End(ds[i - 1])
    /\ End(ds[i]) <= n
    /\ ds[i].name = "points" => /\ ds[i].encoding = "xyzrgba16_le" /\ Len(ds[i].shape) = 1
                                /\ ds[i].length = ds[i].shape[1] * PointBytes

LEMMA JavaReadsIff ==
  ASSUME NEW d
  PROVE  JavaDescriptor(d) = "ok" <=> JavaReads(d)
<1> DEFINE named == Check(d.known /\ d.name # "" /\ d.encoding \in Encodings, "invalid_message")
           ranged == Check(Uint32(d.offset) /\ Uint32(d.length), "invalid_buffer_range")
           shaped == Check(IF d.shape = Absent THEN d.encoding = "jpeg"
                           ELSE \A i \in DOMAIN d.shape : d.shape[i] > 0, "invalid_message")
<1>1. JavaDescriptor(d) = First(<<named, ranged, shaped>>)
  BY DEF JavaDescriptor
<1>2. First(<<named, ranged, shaped>>) = "ok" <=> named = "ok" /\ ranged = "ok" /\ shaped = "ok"
  <2> HIDE DEF named, ranged, shaped
  <2> QED BY ThreeIff
<1>3. /\ named = "ok" <=> d.known /\ d.name # "" /\ d.encoding \in Encodings
      /\ ranged = "ok" <=> Uint32(d.offset) /\ Uint32(d.length)
      /\ shaped = "ok" <=> IF d.shape = Absent THEN d.encoding = "jpeg"
                           ELSE \A i \in DOMAIN d.shape : d.shape[i] > 0
  BY DEF Check
<1> HIDE DEF named, ranged, shaped
<1> QED BY <1>1, <1>2, <1>3 DEF JavaReads

LEMMA JavaPlacesIff ==
  ASSUME NEW ds, NEW n, NEW i
  PROVE  JavaBuffer(ds, n, i) = "ok" <=> JavaPlaces(ds, n, i)
<1> DEFINE d == ds[i]
           once == Check(\A j \in 1 .. i - 1 : ds[j].name # d.name, "invalid_message")
           next == Check(d.offset = IF i = 1 THEN 0 ELSE End(ds[i-1]), "invalid_buffer_range")
           within == Check(End(d) <= n, "invalid_buffer_range")
           kind == Check(d.name = "points" => d.encoding = "xyzrgba16_le" /\ Len(d.shape) = 1,
                         "invalid_message")
           long == Check(d.name = "points" /\ Len(d.shape) = 1 => d.length = d.shape[1] * PointBytes,
                         "invalid_buffer_range")
<1>1. JavaBuffer(ds, n, i) = First(<<once, next, within, kind, long>>)
  BY DEF JavaBuffer
<1>2. First(<<once, next, within, kind, long>>) = "ok" <=>
          once = "ok" /\ next = "ok" /\ within = "ok" /\ kind = "ok" /\ long = "ok"
  <2> HIDE DEF once, next, within, kind, long
  <2> QED BY FiveIff
<1>3. /\ once = "ok" <=> \A j \in 1 .. i - 1 : ds[j].name # d.name
      /\ next = "ok" <=> d.offset = IF i = 1 THEN 0 ELSE End(ds[i-1])
      /\ within = "ok" <=> End(d) <= n
      /\ kind = "ok" <=> (d.name = "points" => d.encoding = "xyzrgba16_le" /\ Len(d.shape) = 1)
      /\ long = "ok" <=> (d.name = "points" /\ Len(d.shape) = 1 => d.length = d.shape[1] * PointBytes)
  BY DEF Check
<1> HIDE DEF once, next, within, kind, long
<1> QED BY <1>1, <1>2, <1>3 DEF JavaPlaces

JavaLoads(m) ==
    LET ds == m.header.buffers
    IN  /\ ds # <<>> /\ End(Last(ds)) = m.payloadLen /\ Has(m, "points")
        /\ \A i \in DOMAIN ds : JavaReads(ds[i]) /\ JavaPlaces(ds, m.payloadLen, i)

LEMMA JavaLoadsIff ==
  ASSUME NEW m, IsSequence(m.header.buffers)
  PROVE  JavaValidateBuffers(m) = "ok" <=> JavaLoads(m)
<1> DEFINE ds == m.header.buffers
           n == m.payloadLen
           parsed == First([i \in DOMAIN ds |-> JavaDescriptor(ds[i])])
           placed == First([i \in DOMAIN ds |-> JavaBuffer(ds, n, i)])
           some == Check(ds # <<>>, "invalid_message")
           middle == IF parsed # "ok" THEN parsed ELSE placed
           ends == Check(ds # <<>> => End(Last(ds)) = n, "invalid_buffer_range")
           has == Check(Has(m, "points"), "invalid_message")
<1>1. JavaValidateBuffers(m) = First(<<some, middle, ends, has>>)
  BY DEF JavaValidateBuffers, Each
<1>2. First(<<some, middle, ends, has>>) = "ok" <=>
          some = "ok" /\ middle = "ok" /\ ends = "ok" /\ has = "ok"
  <2> HIDE DEF some, middle, ends, has
  <2> QED BY FourIff
<1>3. /\ some = "ok" <=> ds # <<>>
      /\ ends = "ok" <=> (ds # <<>> => End(Last(ds)) = n)
      /\ has = "ok" <=> Has(m, "points")
  BY DEF Check
<1> HIDE DEF some, ends, has
<1>4. DOMAIN ds \subseteq Nat
  BY Numbered
<1> HIDE DEF ds, n
<1>5. parsed = "ok" <=> \A i \in DOMAIN ds : JavaReads(ds[i])
  <2> DEFINE codes == [i \in DOMAIN ds |-> JavaDescriptor(ds[i])]
  <2>1. DOMAIN codes = DOMAIN ds /\ \A i \in DOMAIN ds : codes[i] = JavaDescriptor(ds[i])
    OBVIOUS
  <2> HIDE DEF codes
  <2>2. First(codes) = "ok" <=> \A i \in DOMAIN ds : codes[i] = "ok"
    BY <1>4, <2>1, FirstIff
  <2>3. First(codes) = "ok" <=> \A i \in DOMAIN ds : JavaReads(ds[i])
    BY <2>1, <2>2, JavaReadsIff
  <2> QED BY <2>3 DEF codes
<1>6. placed = "ok" <=> \A i \in DOMAIN ds : JavaPlaces(ds, n, i)
  <2> DEFINE codes == [i \in DOMAIN ds |-> JavaBuffer(ds, n, i)]
  <2>1. DOMAIN codes = DOMAIN ds /\ \A i \in DOMAIN ds : codes[i] = JavaBuffer(ds, n, i)
    OBVIOUS
  <2> HIDE DEF codes
  <2>2. First(codes) = "ok" <=> \A i \in DOMAIN ds : codes[i] = "ok"
    BY <1>4, <2>1, FirstIff
  <2>3. First(codes) = "ok" <=> \A i \in DOMAIN ds : JavaPlaces(ds, n, i)
    BY <2>1, <2>2, JavaPlacesIff
  <2> QED BY <2>3 DEF codes
<1>7. middle = "ok" <=> parsed = "ok" /\ placed = "ok"
  <2> HIDE DEF parsed, placed
  <2> QED OBVIOUS
<1> HIDE DEF parsed, placed, middle
<1> QED BY <1>1, <1>2, <1>3, <1>5, <1>6, <1>7 DEF JavaLoads, ds, n

-----------------------------------------------------------------------------
(* The points of a message. *)

Masked(m, count) ==
    LET s == Descriptor(m, "point_sources")
    IN  /\ s.encoding = "uint8" /\ s.shape = <<count>> /\ s.length = count
        /\ m.header.sources <= 8 /\ m.content.mask \subseteq 0 .. m.header.sources - 1

LEMMA MaskedIff ==
  ASSUME NEW m, NEW count, NEW s, s = Descriptor(m, "point_sources")
  PROVE  First(<<Check(s.encoding = "uint8" /\ s.shape = <<count>> /\ s.length = count,
                       "invalid_buffer_range"),
                 Check(m.header.sources <= 8 /\ m.content.mask \subseteq 0 .. m.header.sources - 1,
                       "invalid_message")>>) = "ok" <=> Masked(m, count)
<1> DEFINE sized == Check(s.encoding = "uint8" /\ s.shape = <<count>> /\ s.length = count,
                          "invalid_buffer_range")
           named == Check(m.header.sources <= 8 /\ m.content.mask \subseteq 0 .. m.header.sources - 1,
                          "invalid_message")
<1>1. First(<<sized, named>>) = "ok" <=> sized = "ok" /\ named = "ok"
  <2> HIDE DEF sized, named
  <2> QED BY TwoIff
<1>2. sized = "ok" <=> s.encoding = "uint8" /\ s.shape = <<count>> /\ s.length = count
  BY DEF Check
<1>3. named = "ok" <=> m.header.sources <= 8 /\ m.content.mask \subseteq 0 .. m.header.sources - 1
  BY DEF Check
<1>4. sized = "ok" /\ named = "ok" <=> Masked(m, count)
  <2> HIDE DEF sized, named
  <2> QED BY <1>2, <1>3 DEF Masked
<1> QED BY <1>1, <1>4

LEMMA JavaPointsIff ==
  ASSUME NEW m, NEW count, count = Descriptor(m, "points").shape[1]
  PROVE  JavaPoints(m) = "ok" <=>
            /\ count <= MaxPoints /\ m.header.pointCount = count
            /\ Has(m, "point_sources") => Masked(m, count)
            /\ m.content.finite
<1> DEFINE few == Check(count <= MaxPoints, "limit_exceeded")
           told == Check(m.header.pointCount = count, "invalid_message")
           masks == IF Has(m, "point_sources") THEN JavaSources(m, count) ELSE "ok"
           finite == Check(m.content.finite, "non_finite_geometry")
<1>1. JavaPoints(m) = First(<<few, told, masks, finite>>)
  BY DEF JavaPoints
<1>2. First(<<few, told, masks, finite>>) = "ok" <=>
          few = "ok" /\ told = "ok" /\ masks = "ok" /\ finite = "ok"
  <2> HIDE DEF few, told, masks, finite
  <2> QED BY FourIff
<1>3. /\ few = "ok" <=> count <= MaxPoints
      /\ told = "ok" <=> m.header.pointCount = count
      /\ finite = "ok" <=> m.content.finite
  BY DEF Check
<1>4. JavaSources(m, count) = "ok" <=> Masked(m, count)
  BY MaskedIff DEF JavaSources
<1>5. masks = "ok" <=> (Has(m, "point_sources") => Masked(m, count))
  BY <1>4
<1> HIDE DEF few, told, masks, finite
<1> QED BY <1>1, <1>2, <1>3, <1>5

LEMMA PointsIff ==
  ASSUME NEW m, NEW d, NEW count, d = Descriptor(m, "points"), count = d.length \div PointBytes
  PROVE  DecodePoints(m) = "ok" <=>
            /\ d.length % PointBytes = 0 /\ count <= MaxPoints
            /\ d.shape # Absent => d.shape[1] = count
            /\ m.content.finite
            /\ Has(m, "point_sources") => Masked(m, count)
<1> DEFINE s == Descriptor(m, "point_sources")
           whole == Check(d.length % PointBytes = 0, "invalid_buffer_range")
           few == Check(count <= MaxPoints, "invalid_buffer_range")
           shaped == Check(d.shape # Absent => d.shape[1] = count, "invalid_buffer_range")
           finite == Check(m.content.finite, "non_finite_geometry")
           both == First(<<Check(s.encoding = "uint8" /\ s.shape = <<count>> /\ s.length = count,
                                 "invalid_buffer_range"),
                           Check(m.header.sources <= 8 /\ m.content.mask \subseteq 0 .. m.header.sources - 1,
                                 "invalid_message")>>)
           masks == IF ~Has(m, "point_sources") THEN "ok" ELSE both
<1>1. DecodePoints(m) = First(<<whole, few, shaped, finite, masks>>)
  BY DEF DecodePoints
<1>2. First(<<whole, few, shaped, finite, masks>>) = "ok" <=>
          whole = "ok" /\ few = "ok" /\ shaped = "ok" /\ finite = "ok" /\ masks = "ok"
  <2> HIDE DEF whole, few, shaped, finite, masks
  <2> QED BY FiveIff
<1>3. /\ whole = "ok" <=> d.length % PointBytes = 0
      /\ few = "ok" <=> count <= MaxPoints
      /\ shaped = "ok" <=> (d.shape # Absent => d.shape[1] = count)
      /\ finite = "ok" <=> m.content.finite
  BY DEF Check
<1>4. both = "ok" <=> Masked(m, count)
  BY MaskedIff
<1> HIDE DEF both
<1>5. masks = "ok" <=> (Has(m, "point_sources") => Masked(m, count))
  BY <1>4
<1> HIDE DEF whole, few, shaped, finite, masks
<1> QED BY <1>1, <1>2, <1>3, <1>5

\* What the mod has placed covers the payload; its points are of one shape.
LEMMA JavaTiled ==
  ASSUME NEW m, IsMessage(m), DecodeEnvelope(m) = "ok", JavaLoads(m)
  PROVE  Tiled(m.header.buffers, m.payloadLen)
<1> DEFINE ds == m.header.buffers
           n == m.payloadLen
<1>1. IsSequence(ds) /\ n \in Nat /\ Uint32Max \in Nat /\ n <= Uint32Max
  BY EnvelopeBounds DEF IsMessage
<1>2. /\ ds # <<>> /\ End(Last(ds)) = n
      /\ \A i \in DOMAIN ds : JavaReads(ds[i]) /\ JavaPlaces(ds, n, i)
  BY DEF JavaLoads
<1> HIDE DEF ds, n
<1>3. Len(ds) \in Nat \ {0} /\ DOMAIN ds = 1 .. Len(ds)
  BY <1>1, <1>2, Numbered
<1>4. ASSUME NEW i \in DOMAIN ds PROVE ds[i].offset \in Nat /\ ds[i].length \in Nat
  <2>1. Uint32(ds[i].offset) /\ Uint32(ds[i].length)
    BY <1>2 DEF JavaReads
  <2> QED BY <1>1, <2>1 DEF Uint32
<1>5. \A i \in DOMAIN ds : ds[i].offset = (IF i = 1 THEN 0 ELSE End(ds[i - 1])) /\ End(ds[i]) <= n
  BY <1>2 DEF JavaPlaces
<1>6. Tiled(ds, n)
  BY <1>1, <1>2, <1>3, <1>4, <1>5 DEF Tiled, Last
<1> QED BY <1>6 DEF ds, n

LEMMA JavaPointsFound ==
  ASSUME NEW m, IsMessage(m), JavaLoads(m), NEW d, d = Descriptor(m, "points")
  PROVE  /\ d.encoding = "xyzrgba16_le" /\ d.length = d.shape[1] * PointBytes
         /\ d.shape[1] \in Int /\ d.shape[1] > 0 /\ d.length \in 0 .. Uint32Max
         /\ d.shape = <<d.shape[1]>>
<1>1. PICK i \in DOMAIN m.header.buffers : m.header.buffers[i] = d /\ d.name = "points"
  BY BufferFound DEF JavaLoads
<1>2. JavaReads(d) /\ JavaPlaces(m.header.buffers, m.payloadLen, i)
  BY <1>1 DEF JavaLoads
<1>3. d.encoding = "xyzrgba16_le" /\ Len(d.shape) = 1 /\ d.length = d.shape[1] * PointBytes
  BY <1>1, <1>2 DEF JavaPlaces
<1>4. IsSequence(d.shape) /\ Range(d.shape) \subseteq Int
  BY <1>1 DEF IsMessage
<1>5. DOMAIN d.shape = 1 .. 1
  BY <1>3, <1>4, Numbered
<1>6. d.shape[1] \in Int
  BY <1>4, <1>5 DEF Range
<1>7. d.shape # Absent /\ d.length \in 0 .. Uint32Max /\ \A k \in DOMAIN d.shape : d.shape[k] > 0
  BY <1>2, <1>3 DEF JavaReads, Uint32
<1>8. d.shape = <<d.shape[1]>>
  <2> DEFINE R == Range(d.shape)
  <2>1. d.shape \in Seq(R)
    BY <1>4 DEF IsSequence
  <2> HIDE DEF R
  <2> QED BY <1>3, <2>1
<1> QED BY <1>3, <1>5, <1>6, <1>7, <1>8

LEMMA JavaGeometry ==
  ASSUME NEW h, DecodeHeader(h) = "ok", IsSequence(h.colliders), NEW i \in DOMAIN h.colliders,
         h.colliders[i].valid
  PROVE  SizeInRange(h.colliders[i].geometry.size) /\ FiniteVec(h.colliders[i].geometry.vectors) = "ok"
<1> DEFINE c == h.colliders[i]
           g == c.geometry
           boxes == [k \in DOMAIN h.colliders |-> DecodeCollider(h.colliders[k])]
           figure == Each(DecodeCollider, h.colliders)
           codes ==
      <<Check(h.schema = "hmc.character_frame", "invalid_message"),
        Check(h.version >= 0, "invalid_message"),
        Check(h.version \in {1, 2}, "unsupported_version"),
        Check(h.known /\ h.mode \in {"snapshot", "live"} /\ h.frameId >= 0, "invalid_message"),
        Check(Len(h.landmarks) <= MaxLandmarks, "limit_exceeded"),
        Check(Len(h.colliders) <= MaxColliders, "limit_exceeded"),
        Each(DecodeLandmark, h.landmarks),
        Check(Distinct([k \in DOMAIN h.landmarks |-> h.landmarks[k].name]), "invalid_message"),
        figure,
        Check(Distinct([k \in DOMAIN h.colliders |-> h.colliders[k].id]), "invalid_message")>>
<1>1. DOMAIN codes = 1 .. 10 /\ codes[9] = figure
  OBVIOUS
<1>2. First(codes) = "ok"
  BY DEF DecodeHeader
<1>3. First(boxes) = "ok"
  <2> HIDE DEF codes, figure, boxes
  <2>1. codes[9] = "ok"
    BY <1>1, <1>2, AllOk
  <2> QED BY <1>1, <2>1 DEF figure, boxes, Each
<1> HIDE DEF codes, figure
<1>4. DecodeCollider(c) = "ok"
  <2>1. DOMAIN boxes = DOMAIN h.colliders /\ boxes[i] = DecodeCollider(c) /\ DOMAIN h.colliders \subseteq Nat
    BY Numbered
  <2> HIDE DEF boxes, c
  <2> QED BY <1>3, <2>1, AllOk
<1> DEFINE known == Check(c.id # "" /\ IdBytes(c.id) <= MaxIdBytes, "invalid_message")
           typed == Check(c.type \in {"sphere", "capsule", "obb"}, "invalid_message")
           solid == IF c.valid THEN DecodeGeometry(c) ELSE "ok"
<1>5. First(<<known, typed, solid>>) = "ok"
  BY <1>4 DEF DecodeCollider
<1>6. DecodeGeometry(c) = "ok"
  <2>1. solid = "ok"
    <3> HIDE DEF known, typed, solid
    <3> QED BY <1>5, ThreeIff
  <2> QED BY <2>1
<1> DEFINE axes == FiniteVec(g.axes)
           straight == Check(g.axes # "skewed", "invalid_collider_geometry")
           size == PositiveSize(g.size)
           finite == FiniteVec(g.vectors)
<1>7. DecodeGeometry(c) = IF c.type = "obb" THEN First(<<axes, straight, size, finite>>)
                          ELSE First(<<finite, size>>)
  BY DEF DecodeGeometry
<1>8. size = "ok" /\ finite = "ok"
  <2> HIDE DEF axes, straight, size, finite, c
  <2> QED BY <1>6, <1>7, FourIff, TwoIff
<1> QED BY <1>8 DEF PositiveSize, Check

LEMMA FiniteSays ==
  ASSUME NEW v, FiniteVec(v) = "ok"
  PROVE  v \notin {"not_vector", "non_finite"}
<1> DEFINE vector == Check(v # "not_vector", "invalid_message")
           finite == Check(v # "non_finite", "non_finite_geometry")
<1>1. First(<<vector, finite>>) = "ok"
  BY DEF FiniteVec
<1>2. vector = "ok" /\ finite = "ok"
  <2> HIDE DEF vector, finite
  <2> QED BY <1>1, TwoIff
<1> QED BY <1>2 DEF Check

(***************************************************************************)
(* A frame the mod shows has its points in one buffer, a mask per point    *)
(* that names only the frame's sources, and geometry it can trace rays     *)
(* against (BufferDescriptor.validateAll, CharacterFrameDecoder.decode).   *)
(***************************************************************************)
THEOREM FramesWhole == LinkSpec => []ShownFrameIsWhole
<1>1. LinkInv => ShownFrameIsWhole
  <2> DEFINE m == message
             d == Descriptor(m, "points")
             s == Descriptor(m, "point_sources")
  <2> SUFFICES ASSUME LinkInv, Accepted("mod")
               PROVE  /\ PartitionsPayload(m)
                      /\ d.length = m.header.pointCount * PointBytes
                      /\ m.header.pointCount \in 1 .. MaxPoints
                      /\ Has(m, "point_sources") => s.length = m.header.pointCount
                      /\ \A i \in DOMAIN m.header.colliders :
                            LET c == m.header.colliders[i]
                            IN  c.valid => SizeInRange(c.geometry.size) /\ c.geometry.vectors = "finite"
    BY DEF ShownFrameIsWhole
  <2>1. m \in CharacterMessages /\ JavaDecode(m) = "ok"
    BY DEF LinkInv, Accepted
  <2>2. /\ IsMessage(m) /\ IsSequence(m.header.colliders)
        /\ \A i \in DOMAIN m.header.colliders :
              m.header.colliders[i].geometry.vectors \in {"finite", "non_finite", "not_vector"}
    BY <2>1, LinkAssumption
  <2> HIDE DEF m
  <2>3. Headed(m) /\ JavaLoads(m) /\ JavaPoints(m) = "ok"
    BY <2>1, <2>2, ModAccepts, JavaLoadsIff DEF IsMessage
  <2>4. PartitionsPayload(m)
    BY <2>2, <2>3, JavaTiled, TiledPartitions DEF Headed
  <2>5. d.length = d.shape[1] * PointBytes /\ d.shape[1] \in Int /\ d.shape[1] > 0
    BY <2>2, <2>3, JavaPointsFound
  <2>6. /\ d.shape[1] <= MaxPoints /\ m.header.pointCount = d.shape[1]
        /\ Has(m, "point_sources") => Masked(m, d.shape[1])
    BY <2>3, JavaPointsIff
  <2>7. MaxPoints \in Nat
    BY WireAssumption, Zenon
  <2>8. ASSUME NEW i \in DOMAIN m.header.colliders, m.header.colliders[i].valid
        PROVE  /\ SizeInRange(m.header.colliders[i].geometry.size)
               /\ m.header.colliders[i].geometry.vectors = "finite"
    <3>1. /\ SizeInRange(m.header.colliders[i].geometry.size)
          /\ FiniteVec(m.header.colliders[i].geometry.vectors) = "ok"
      BY <2>2, <2>3, <2>8, JavaGeometry DEF Headed
    <3>2. m.header.colliders[i].geometry.vectors \notin {"not_vector", "non_finite"}
      BY <3>1, FiniteSays
    <3> QED BY <2>2, <3>1, <3>2
  <2>9. Has(m, "point_sources") => s.length = m.header.pointCount
    BY <2>6 DEF Masked
  <2> HIDE DEF d, s
  <2> QED BY <2>4, <2>5, <2>6, <2>7, <2>8, <2>9
<1> QED BY <1>1, LinkInvariance, PTL

-----------------------------------------------------------------------------
(* The two decoders on the buffers this backend writes. *)

\* OurBuffers, of any message.
Ours(m) ==
    /\ \A i \in DOMAIN m.header.buffers :
          LET d == m.header.buffers[i]
          IN  \/ d.name = "points" /\ d.encoding = "xyzrgba16_le" /\ Len(d.shape) = 1
                 /\ d.shape[1] = m.header.pointCount
              \/ d.name = "point_sources" /\ d.encoding = "uint8"
    /\ m.header.quality /\ m.header.ids

LEMMA OurPoints ==
  ASSUME NEW m, IsMessage(m), Ours(m), NEW i \in DOMAIN m.header.buffers,
         m.header.buffers[i].name = "points", NEW d, d = m.header.buffers[i]
  PROVE  /\ d.encoding = "xyzrgba16_le" /\ Len(d.shape) = 1 /\ d.shape = <<d.shape[1]>>
         /\ d.shape[1] \in Int /\ d.shape[1] = m.header.pointCount
         /\ DOMAIN d.shape = {1}
<1>1. d.encoding = "xyzrgba16_le" /\ Len(d.shape) = 1 /\ d.shape[1] = m.header.pointCount
  BY DEF Ours
<1>2. IsSequence(d.shape) /\ Range(d.shape) \subseteq Int
  BY DEF IsMessage
<1>3. DOMAIN d.shape = 1 .. 1
  BY <1>1, <1>2, Numbered
<1>4. d.shape[1] \in Int
  BY <1>2, <1>3 DEF Range
<1>5. d.shape = <<d.shape[1]>>
  <2> DEFINE R == Range(d.shape)
  <2>1. d.shape \in Seq(R)
    BY <1>2 DEF IsSequence
  <2> HIDE DEF R
  <2> QED BY <1>1, <2>1
<1> QED BY <1>1, <1>3, <1>4, <1>5

LEMMA PointSizes ==
  /\ PointBytes \in Nat \ {0} /\ PointBytes = ElementSize["xyzrgba16_le"]
  /\ ElementSize["uint8"] = 1 /\ Uint32Max \in Nat
<1>1. /\ ElementSize \in [{"float32_le", "uint8", "xyzrgba16_le"} -> Nat \ {0}]
      /\ ElementSize["uint8"] = 1 /\ Uint32Max \in Nat
  BY EnvelopeAssumption
<1> QED BY <1>1 DEF PointBytes

\* Whatever the backend's decoder accepts of them, the mod accepts.
LEMMA BackendThenMod ==
  ASSUME NEW m, IsMessage(m), Ours(m), DecodeCharacterFrame(m) = "ok"
  PROVE  JavaDecode(m) = "ok"
<1> DEFINE ds == m.header.buffers
           n == m.payloadLen
           d == Descriptor(m, "points")
           count == d.length \div PointBytes
           k == d.shape[1]
<1>1. /\ Headed(m) /\ LoadBuffers(m) = "ok" /\ Has(m, "points")
      /\ DecodePoints(m) = "ok"
  BY BackendAccepts
<1>2. /\ Tiled(ds, n) /\ ds # <<>>
      /\ \A i \in DOMAIN ds : FromJson(ds[i]) = "ok"
      /\ Distinct([i \in DOMAIN ds |-> ds[i].name])
      /\ \A i \in DOMAIN ds : FixedSize(ds[i]) => ExpectedLength(ds[i]) = ds[i].length
  BY <1>1, LoadedTiled DEF Headed
<1> HIDE DEF ds, n
<1>3. ASSUME NEW i \in DOMAIN ds PROVE JavaReads(ds[i])
  <2>1. /\ Readable(ds[i]) /\ ds[i].known /\ ds[i].name # ""
        /\ ds[i].shape # Absent => \A j \in DOMAIN ds[i].shape : ds[i].shape[j] > 0
    BY <1>2, JsonReadable
  <2> QED BY <2>1 DEF Readable, JavaReads, Uint32
<1>4. ASSUME NEW i \in DOMAIN ds, ds[i].name = "points"
      PROVE  /\ ds[i].encoding = "xyzrgba16_le" /\ Len(ds[i].shape) = 1
             /\ ds[i].shape[1] \in Int /\ ds[i].shape[1] > 0 /\ ds[i].shape[1] = m.header.pointCount
             /\ ds[i].length = ds[i].shape[1] * PointBytes
  <2> DEFINE e == ds[i]
  <2>1. /\ e.encoding = "xyzrgba16_le" /\ Len(e.shape) = 1 /\ e.shape = <<e.shape[1]>>
        /\ e.shape[1] \in Int /\ e.shape[1] = m.header.pointCount /\ DOMAIN e.shape = {1}
    BY <1>4, OurPoints DEF ds
  <2>2. JavaReads(e)
    BY <1>3
  <2>3. e.shape # Absent /\ e.shape[1] > 0
    BY <2>1, <2>2 DEF JavaReads
  <2>4. ExpectedLength(e) = e.length
    BY <1>2, <2>1, <2>3 DEF FixedSize
  <2> HIDE DEF e
  <2>5. ExpectedLength(e) = ElementSize["xyzrgba16_le"] * e.shape[1]
    BY <2>1, OneDimension
  <2>6. e.length = e.shape[1] * PointBytes
    BY <2>1, <2>4, <2>5, PointSizes
  <2> QED BY <2>1, <2>3, <2>6 DEF e
<1>5. ASSUME NEW i \in DOMAIN ds PROVE JavaPlaces(ds, n, i)
  <2>1. /\ ds[i].offset = IF i = 1 THEN 0 ELSE End(ds[i - 1])
        /\ End(ds[i]) <= n /\ DOMAIN ds = 1 .. Len(ds) /\ Len(ds) \in Nat
    BY <1>2 DEF Tiled
  <2>2. ASSUME NEW j \in 1 .. i - 1 PROVE ds[j].name # ds[i].name
    <3>1. j \in DOMAIN ds /\ j # i
      BY <2>1
    <3> QED BY <1>2, <3>1 DEF Distinct, IsInjective
  <2> QED BY <1>4, <2>1, <2>2 DEF JavaPlaces
<1>6. End(Last(ds)) = n
  BY <1>2 DEF Tiled, Last
<1>7. JavaLoads(m)
  BY <1>1, <1>2, <1>3, <1>5, <1>6 DEF JavaLoads, ds, n
<1>8. k \in Nat \ {0} /\ k = m.header.pointCount /\ d.length = k * PointBytes
  <2>1. PICK i \in DOMAIN ds : ds[i] = d /\ d.name = "points"
    BY <1>1, BufferFound DEF ds
  <2>2. k \in Int /\ k > 0 /\ k = m.header.pointCount /\ d.length = k * PointBytes
    BY <1>4, <2>1
  <2> HIDE DEF k
  <2> QED BY <2>2
<1>9. count = k
  <2> HIDE DEF d, k
  <2> QED BY <1>8, PointSizes, Multiples
<1>10. /\ count <= MaxPoints /\ m.content.finite
       /\ Has(m, "point_sources") => Masked(m, count)
  <2> HIDE DEF d, count
  <2> QED BY <1>1, PointsIff DEF d, count
<1>11. JavaPoints(m) = "ok"
  <2>1. /\ k <= MaxPoints /\ m.header.pointCount = k
        /\ Has(m, "point_sources") => Masked(m, k)
        /\ m.content.finite
    <3> HIDE DEF d, k, count
    <3> QED BY <1>8, <1>9, <1>10
  <2> HIDE DEF count
  <2> QED BY <2>1, JavaPointsIff
<1>12. JavaValidateBuffers(m) = "ok"
  BY <1>7, JavaLoadsIff DEF IsMessage
<1> QED BY <1>1, <1>11, <1>12, ModAccepts

\* And the other way round.
LEMMA ModThenBackend ==
  ASSUME NEW m, IsMessage(m), Ours(m), JavaDecode(m) = "ok"
  PROVE  DecodeCharacterFrame(m) = "ok"
<1> DEFINE ds == m.header.buffers
           n == m.payloadLen
           d == Descriptor(m, "points")
           count == d.length \div PointBytes
           k == d.shape[1]
<1>1. Headed(m) /\ JavaLoads(m) /\ JavaPoints(m) = "ok"
  BY ModAccepts, JavaLoadsIff DEF IsMessage
<1>2. /\ Tiled(ds, n) /\ ds # <<>>
      /\ \A i \in DOMAIN ds : JavaReads(ds[i]) /\ JavaPlaces(ds, n, i)
  BY <1>1, JavaTiled DEF JavaLoads, Headed
<1>3. /\ d.encoding = "xyzrgba16_le" /\ d.length = k * PointBytes
      /\ k \in Int /\ k > 0 /\ d.length \in 0 .. Uint32Max /\ d.shape = <<k>>
  BY <1>1, JavaPointsFound
<1>4. /\ k <= MaxPoints /\ m.header.pointCount = k /\ m.content.finite
      /\ Has(m, "point_sources") => Masked(m, k)
  BY <1>1, JavaPointsIff
<1> HIDE DEF ds, n, k
<1>5. Distinct([i \in DOMAIN ds |-> ds[i].name])
  <2>1. DOMAIN ds = 1 .. Len(ds) /\ Len(ds) \in Nat
    BY <1>2 DEF Tiled
  <2>2. ASSUME NEW i \in DOMAIN ds, NEW j \in DOMAIN ds, j < i PROVE ds[j].name # ds[i].name
    BY <1>2, <2>1, <2>2 DEF JavaPlaces
  <2>3. ASSUME NEW i \in DOMAIN ds, NEW j \in DOMAIN ds, ds[i].name = ds[j].name PROVE i = j
    BY <2>1, <2>2, <2>3
  <2> QED BY <2>3 DEF Distinct, IsInjective
<1>6. /\ k \in Nat \ {0} /\ k <= Uint32Max /\ Uint32Max \in Nat /\ PointBytes \in Nat \ {0}
  <2>1. k \in Nat /\ PointBytes \in Nat \ {0} /\ Uint32Max \in Nat
    BY <1>3, PointSizes
  <2>2. k <= k * PointBytes
    BY <2>1, Multiples
  <2>3. k * PointBytes \in Nat /\ k * PointBytes <= Uint32Max
    BY <1>3
  <2> QED BY <1>3, <2>1, <2>2, <2>3
<1>7. ASSUME NEW i \in DOMAIN ds
      PROVE  ds[i].shape = <<k>> /\ ds[i].encoding # "jpeg" /\ ExpectedLength(ds[i]) = ds[i].length
  <2>0. ds[i].name \in {"points", "point_sources"}
    BY DEF Ours, ds
  <2>1. Has(m, ds[i].name) /\ Descriptor(m, ds[i].name) = ds[i]
    BY <1>5, OnlyBuffer DEF ds
  <2>2. CASE ds[i].name = "points"
    <3>1. ds[i].shape = <<k>> /\ ds[i].encoding = "xyzrgba16_le" /\ ds[i].length = k * PointBytes
      BY <1>3, <2>1, <2>2
    <3>2. ExpectedLength(ds[i]) = ElementSize["xyzrgba16_le"] * k
      BY <3>1, OneDimension
    <3> QED BY <1>6, <3>1, <3>2, PointSizes
  <2>3. CASE ds[i].name = "point_sources"
    <3>1. ds[i].shape = <<k>> /\ ds[i].encoding = "uint8" /\ ds[i].length = k
      BY <1>4, <2>1, <2>3 DEF Masked
    <3>2. ExpectedLength(ds[i]) = ElementSize["uint8"] * k
      BY <3>1, OneDimension
    <3> QED BY <1>6, <3>1, <3>2, PointSizes
  <2> QED BY <2>0, <2>2, <2>3
<1>8. ASSUME NEW i \in DOMAIN ds PROVE FromJson(ds[i]) = "ok"
  <2>1. ds[i].shape = <<k>> /\ JavaReads(ds[i])
    BY <1>2, <1>7
  <2>2. DOMAIN <<k>> = {1} /\ <<k>>[1] = k /\ <<k>> # <<>>
    OBVIOUS
  <2>3. ds[i].shape # Absent
    <3>1. Absent[1] = -1
      BY DEF Absent
    <3> QED BY <1>6, <2>1, <2>2, <3>1
  <2>4. \A j \in DOMAIN ds[i].shape : Uint32(ds[i].shape[j]) /\ ds[i].shape[j] > 0
    BY <1>6, <2>1, <2>2 DEF Uint32
  <2> QED BY <2>1, <2>2, <2>3, <2>4 DEF FromJson, Check, JavaReads
<1>9. LoadBuffers(m) = "ok"
  <2> DEFINE parsed == [i \in DOMAIN ds |-> FromJson(ds[i])]
             some == Check(ds # <<>>, "invalid_message")
  <2>1. First(parsed) = "ok"
    <3>1. \A i \in DOMAIN parsed : parsed[i] = "ok"
      BY <1>8
    <3> HIDE DEF parsed
    <3> QED BY <3>1, FirstOk
  <2>2. some = "ok"
    BY <1>2 DEF Check
  <2>3. First(<<some, First(parsed)>>) = "ok"
    <3> HIDE DEF some, parsed
    <3> QED BY <2>1, <2>2, PairOk
  <2>4. ParseDescriptors(ds) = "ok"
    BY <2>3 DEF ParseDescriptors, Each
  <2>5. \A i \in DOMAIN ds :
           /\ End(ds[i]) <= n
           /\ ds[i].offset = IF i = 1 THEN 0 ELSE End(ds[i-1])
           /\ FixedSize(ds[i]) => ExpectedLength(ds[i]) = ds[i].length
    BY <1>2, <1>7 DEF JavaPlaces
  <2>6. End(Last(ds)) = n
    BY <1>2 DEF Tiled, Last
  <2>7. ValidateDescriptors(ds, n) = "ok"
    BY <1>5, <2>5, <2>6 DEF ValidateDescriptors, Check
  <2> QED BY <2>4, <2>7 DEF LoadBuffers, ds, n
<1>10. DecodePoints(m) = "ok"
  <2>1. count = k /\ d.length % PointBytes = 0 /\ d.shape[1] = k
    <3>1. <<k>>[1] = k
      OBVIOUS
    <3> HIDE DEF d
    <3> QED BY <1>3, <1>6, <3>1, Multiples
  <2>2. /\ d.length % PointBytes = 0 /\ count <= MaxPoints
        /\ d.shape # Absent => d.shape[1] = count
        /\ m.content.finite
        /\ Has(m, "point_sources") => Masked(m, count)
    <3> HIDE DEF d, count
    <3> QED BY <1>4, <2>1
  <2> HIDE DEF d, count
  <2> QED BY <2>2, PointsIff DEF d, count
<1>11. Has(m, "points") /\ m.header.quality /\ m.header.ids
  BY <1>1 DEF JavaLoads, Ours
<1> QED BY <1>1, <1>9, <1>10, <1>11, BackendAccepts

(***************************************************************************)
(* On the buffers this backend writes, its own decoder and the mod's       *)
(* accept the same messages (character_decode.py, BufferDescriptor.java,   *)
(* CharacterFrameDecoder.java).                                            *)
(***************************************************************************)
THEOREM DecodersAgree == LinkSpec => []DecodersAcceptAlike
<1>1. LinkInv => DecodersAcceptAlike
  <2> SUFFICES ASSUME LinkInv, "mod" \in DOMAIN verdict, OurBuffers
               PROVE  Accepted("mod") <=> Accepted("backend")
    BY DEF DecodersAcceptAlike
  <2>1. /\ message \in CharacterMessages /\ {"backend", "mod"} \subseteq DOMAIN verdict
        /\ verdict["backend"] = DecodeCharacterFrame(message)
        /\ verdict["mod"] = JavaDecode(message)
    BY DEF LinkInv
  <2>2. IsMessage(message) /\ Ours(message)
    BY <2>1, LinkAssumption DEF OurBuffers, Ours
  <2>3. DecodeCharacterFrame(message) = "ok" <=> JavaDecode(message) = "ok"
    BY <2>2, BackendThenMod, ModThenBackend
  <2> QED BY <2>1, <2>3 DEF Accepted
<1> QED BY <1>1, LinkInvariance, PTL

-----------------------------------------------------------------------------
(* Clocks. *)

\* Round trips of a clock that is c ahead: an offset errs by no more than the delay.
Probes(c) ==
    {s \in [offset : Int, delay : Nat] :
        s.delay <= MaxDelay /\ Apart(s.offset, 2 * c) <= s.delay}

LEMMA ProbeOf ==
  ASSUME NEW there \in Nat, NEW back \in Nat, NEW c \in Int,
         NEW s, s = Sample(0, there + c, there + c, there + back)
  PROVE  /\ s.delay = there + back /\ s.delay \in Nat
         /\ s.delay <= MaxDelay => s \in Probes(c)
<1>1. s = [offset |-> ((there + c) - 0) + ((there + c) - (there + back)),
           delay |-> ((there + back) - 0) - ((there + c) - (there + c))]
  BY DEF Sample
<1>2. s.delay = there + back /\ s.offset = 2 * c + there - back
  BY <1>1
<1>3. s \in [offset : Int, delay : Nat]
  BY <1>1, <1>2
<1>4. Apart(s.offset, 2 * c) <= s.delay
  BY <1>2 DEF Apart
<1> QED BY <1>2, <1>3, <1>4 DEF Probes

\* What is kept are round trips of before and the new one.
LEMMA Inserted ==
  ASSUME NEW S, NEW seq \in Seq(S), NEW s \in S
  PROVE  Insert(seq, s) \in Seq(S) /\ Insert(seq, s) # <<>>
<1> DEFINE front == {i \in DOMAIN seq : seq[i].delay <= s.delay}
           place == Cardinality(front) + 1
           longer == InsertAt(seq, place, s)
           kept == Min({Keep, Len(longer)})
<1>1. place \in 1 .. Len(seq) + 1
  <2>1. IsFiniteSet(1 .. Len(seq)) /\ Cardinality(1 .. Len(seq)) = Len(seq) /\ Len(seq) \in Nat
    <3>1. Len(seq) \in Nat /\ Len(seq) \in Int /\ 1 \in Int
      OBVIOUS
    <3>2. /\ IsFiniteSet(1 .. Len(seq))
          /\ Cardinality(1 .. Len(seq)) = IF 1 > Len(seq) THEN 0 ELSE Len(seq) - 1 + 1
      BY <3>1, FS_Interval
    <3> QED BY <3>1, <3>2
  <2>2. front \subseteq 1 .. Len(seq)
    OBVIOUS
  <2> HIDE DEF front
  <2>3. Cardinality(front) \in Nat /\ Cardinality(front) <= Len(seq)
    BY <2>1, <2>2, FS_Subset, FS_CardinalityType
  <2> QED BY <2>1, <2>3
<1> HIDE DEF place
<1>2. SubSeq(seq, 1, place - 1) \in Seq(S) /\ SubSeq(seq, place, Len(seq)) \in Seq(S)
  <2>1. /\ \A i \in 1 .. place - 1 : seq[i] \in S
        /\ \A i \in place .. Len(seq) : seq[i] \in S
        /\ place - 1 \in Int /\ place \in Int /\ Len(seq) \in Int
    BY <1>1
  <2> QED BY <2>1, SubSeqProperties
<1>3. longer \in Seq(S) /\ Len(longer) >= 1
  <2> DEFINE left == SubSeq(seq, 1, place - 1)
             right == SubSeq(seq, place, Len(seq))
  <2>1. longer = left \o <<s>> \o right
    BY DEF InsertAt
  <2> HIDE DEF left, right, longer
  <2>2. left \in Seq(S) /\ right \in Seq(S) /\ <<s>> \in Seq(S) /\ Len(<<s>>) = 1
    BY <1>2 DEF left, right
  <2>3. left \o <<s>> \in Seq(S) /\ Len(left \o <<s>>) >= 1
    BY <2>2
  <2> QED BY <2>1, <2>2, <2>3
<1> HIDE DEF longer
<1>4. kept \in 1 .. Len(longer)
  <2> DEFINE T == {Keep, Len(longer)}
  <2>1. Keep \in Nat /\ Keep # 0 /\ Len(longer) \in Nat
    BY <1>3, ClockAssumption
  <2>2. T \subseteq Nat /\ T # {}
    BY <2>1
  <2> HIDE DEF T
  <2>3. Min(T) \in T /\ \A y \in T : Min(T) <= y
    BY <2>2, MinIsLeast
  <2> QED BY <1>3, <2>1, <2>3 DEF T
<1> HIDE DEF kept
<1>5. SubSeq(longer, 1, kept) \in Seq(S) /\ Len(SubSeq(longer, 1, kept)) = kept
  <2>1. \A i \in 1 .. kept : longer[i] \in S
    BY <1>3, <1>4
  <2> QED BY <1>4, <2>1, SubSeqProperties
<1>6. Insert(seq, s) = SubSeq(longer, 1, kept)
  BY DEF Insert, longer, kept, place
<1>7. SubSeq(longer, 1, kept) # <<>>
  BY <1>4, <1>5
<1> QED BY <1>5, <1>6, <1>7

\* The offset that is used is not outside those of the round trips.
LEMMA MedianWithin ==
  ASSUME NEW S, NEW seq \in Seq(S), seq # <<>>, \A s \in S : s.offset \in Int
  PROVE  \E i \in DOMAIN seq, j \in DOMAIN seq : Median4(seq) = seq[i].offset + seq[j].offset
<1> DEFINE f == [i \in DOMAIN seq |-> seq[i].offset]
           n == Cardinality(DOMAIN f)
           j == (n + 1) \div 2
           k == n \div 2 + 1
<1>1. DOMAIN f = 1 .. Len(seq) /\ Len(seq) \in Nat /\ Len(seq) # 0
  OBVIOUS
<1>2. \A i \in DOMAIN f : f[i] = seq[i].offset /\ f[i] \in Int
  BY <1>1
<1>3. Numbers(f) /\ n \in Nat /\ n # 0
  <2> HIDE DEF f
  <2>1. IsFiniteSet(DOMAIN f) /\ Cardinality(DOMAIN f) = Len(seq)
    BY <1>1, FS_Interval
  <2>2. 1 \in DOMAIN f
    BY <1>1
  <2> QED BY <1>1, <1>2, <2>1, <2>2 DEF Numbers
<1>4. Median4(seq) = Smallest(f, j) + Smallest(f, k)
  BY DEF Median4, TwiceMedian
<1> HIDE DEF n
<1>5. j \in Int /\ k \in Int /\ j <= n /\ k <= n
  BY <1>3
<1> HIDE DEF f, j, k
<1>6. Smallest(f, j) \in Range(f) /\ Smallest(f, k) \in Range(f)
  BY <1>3, <1>5, SmallestNumber DEF n
<1>7. PICK i \in DOMAIN f : f[i] = Smallest(f, j)
  BY <1>6 DEF Range
<1>8. PICK l \in DOMAIN f : f[l] = Smallest(f, k)
  BY <1>6 DEF Range
<1>9. DOMAIN f = DOMAIN seq
  BY DEF f
<1> QED BY <1>2, <1>4, <1>7, <1>8, <1>9

\* The greatest and the least of numbers within bounds.
LEMMA Extremes ==
  ASSUME NEW T, T # {}, NEW low \in Int, NEW high \in Int, T \subseteq low .. high
  PROVE  /\ Max(T) \in T /\ \A y \in T : y <= Max(T)
         /\ Min(T) \in T /\ \A y \in T : Min(T) <= y
<1>1. \E x \in T : \A y \in T : x >= y
  <2> DEFINE size == [x \in T |-> high - x]
  <2>1. \A x \in T : size[x] = high - x /\ size[x] \in Nat
    OBVIOUS
  <2> HIDE DEF size
  <2>2. PICK x \in T : \A y \in T : size[x] <= size[y]
    BY <2>1, LeastBy
  <2> QED BY <2>1, <2>2
<1>2. \E x \in T : \A y \in T : x <= y
  <2> DEFINE size == [x \in T |-> x - low]
  <2>1. \A x \in T : size[x] = x - low /\ size[x] \in Nat
    OBVIOUS
  <2> HIDE DEF size
  <2>2. PICK x \in T : \A y \in T : size[x] <= size[y]
    BY <2>1, LeastBy
  <2> QED BY <2>1, <2>2
<1>3. Max(T) \in T /\ \A y \in T : Max(T) >= y
  BY <1>1 DEF Max
<1>4. Min(T) \in T /\ \A y \in T : Min(T) <= y
  BY <1>2 DEF Min
<1> DEFINE top == Max(T)
<1>5. top \in T /\ \A y \in T : top >= y
  BY <1>3
<1> HIDE DEF top
<1>6. \A y \in T : y <= top
  BY <1>5
<1> QED BY <1>4, <1>5, <1>6 DEF top

\* Round trips of one clock say where it is to within three uncertainties.
LEMMA UncertaintyCovers ==
  ASSUME NEW c \in Int, NEW seq \in Seq(Probes(c)), seq # <<>>
  PROVE  /\ Apart(Median4(seq), 4 * c) <= 3 * Uncertainty4(seq)
         /\ Median4(seq) \in Int /\ Apart(Median4(seq), 4 * c) <= 2 * MaxDelay
<1> DEFINE T == Offsets(seq)
           D == {seq[i].delay : i \in DOMAIN seq}
           low == 2 * c - MaxDelay
           high == 2 * c + MaxDelay
           spread == Max(T) - Min(T)
           best == 2 * Min(D)
           U == {spread, best}
<1>1. DOMAIN seq # {} /\ \A i \in DOMAIN seq : seq[i] \in Probes(c)
  <2>1. Len(seq) \in Nat /\ Len(seq) # 0 /\ DOMAIN seq = 1 .. Len(seq)
    OBVIOUS
  <2>2. 1 \in DOMAIN seq
    BY <2>1
  <2> QED BY <2>1, <2>2
<1>2. MaxDelay \in Nat
  BY ClockAssumption
<1>3. \A i \in DOMAIN seq :
         /\ seq[i].offset \in Int /\ seq[i].delay \in Nat /\ seq[i].delay <= MaxDelay
         /\ 2 * c - seq[i].delay <= seq[i].offset /\ seq[i].offset <= 2 * c + seq[i].delay
  <2> SUFFICES ASSUME NEW i \in DOMAIN seq
               PROVE  /\ seq[i].offset \in Int /\ seq[i].delay \in Nat /\ seq[i].delay <= MaxDelay
                      /\ 2 * c - seq[i].delay <= seq[i].offset /\ seq[i].offset <= 2 * c + seq[i].delay
    OBVIOUS
  <2>1. seq[i] \in Probes(c)
    BY <1>1
  <2>2. /\ seq[i].offset \in Int /\ seq[i].delay \in Nat /\ seq[i].delay <= MaxDelay
        /\ Apart(seq[i].offset, 2 * c) <= seq[i].delay
    BY <2>1 DEF Probes
  <2> QED BY <2>2 DEF Apart
<1>4. PICK i \in DOMAIN seq, j \in DOMAIN seq : Median4(seq) = seq[i].offset + seq[j].offset
  <2>1. \A s \in Probes(c) : s.offset \in Int
    BY DEF Probes
  <2> QED BY <2>1, MedianWithin
<1>5. T # {} /\ T \subseteq low .. high /\ low \in Int /\ high \in Int
  <2>1. low \in Int /\ high \in Int
    BY <1>2
  <2>2. T = {seq[n].offset : n \in DOMAIN seq}
    BY DEF Offsets
  <2>3. \A n \in DOMAIN seq : seq[n].offset \in low .. high
    BY <1>2, <1>3
  <2> HIDE DEF low, high
  <2> QED BY <1>1, <2>1, <2>2, <2>3
<1>6. D # {} /\ D \subseteq Nat
  BY <1>1, <1>3
<1>7. \A k \in DOMAIN seq : seq[k].offset \in T
  BY DEF Offsets
<1> HIDE DEF T
<1>8. /\ Max(T) \in T /\ \A y \in T : y <= Max(T)
      /\ Min(T) \in T /\ \A y \in T : Min(T) <= y
  <2> HIDE DEF low, high
  <2> QED BY <1>5, Extremes
<1>9. Min(D) \in D /\ \A y \in D : Min(D) <= y
  <2> HIDE DEF D
  <2> QED BY <1>6, MinIsLeast
<1>10. PICK k \in DOMAIN seq : seq[k].delay = Min(D)
  BY <1>9
<1> HIDE DEF D
<1>11. spread \in Int /\ best \in Nat /\ spread >= 0
  <2>1. Max(T) \in Int /\ Min(T) \in Int /\ Min(T) <= Max(T)
    <3> DEFINE a == Max(T)
               b == Min(T)
    <3>1. a \in T /\ b \in T /\ b <= a /\ T \subseteq low .. high
      BY <1>5, <1>8
    <3>2. \A n \in low .. high : n \in Int
      BY <1>5
    <3> HIDE DEF a, b, low, high
    <3>3. a \in Int /\ b \in Int /\ b <= a
      BY <3>1, <3>2
    <3> QED BY <3>3 DEF a, b
  <2>2. Min(D) \in Nat
    BY <1>6, <1>9
  <2> QED BY <2>1, <2>2
<1>12. Max(U) >= spread /\ Max(U) >= best /\ Max(U) \in Int /\ Uncertainty4(seq) = Max(U)
  <2>1. Uncertainty4(seq) = Max(U)
    BY DEF Uncertainty4, T, D
  <2> DEFINE a == spread
             b == best
  <2> HIDE DEF a, b
  <2>2. a \in Int /\ b \in Int
    BY <1>11 DEF a, b
  <2>3. Max({a, b}) >= a /\ Max({a, b}) >= b /\ Max({a, b}) \in Int
    <3>1. CASE a >= b
      <4>1. a \in {a, b} /\ \A y \in {a, b} : a >= y
        BY <2>2, <3>1
      <4>2. Max({a, b}) \in {a, b} /\ \A y \in {a, b} : Max({a, b}) >= y
        BY <4>1 DEF Max
      <4> QED BY <2>2, <4>2
    <3>2. CASE ~(a >= b)
      <4>1. b \in {a, b} /\ \A y \in {a, b} : b >= y
        BY <2>2, <3>2
      <4>2. Max({a, b}) \in {a, b} /\ \A y \in {a, b} : Max({a, b}) >= y
        BY <4>1 DEF Max
      <4> QED BY <2>2, <4>2
    <3> QED BY <3>1, <3>2
  <2> QED BY <2>1, <2>3 DEF a, b
<1> DEFINE x == seq[i].offset
           y == seq[j].offset
           o == seq[k].offset
           M == Median4(seq)
           u == Uncertainty4(seq)
           top == Max(T)
           bottom == Min(T)
           d == Min(D)
<1>13. /\ M = x + y /\ x \in Int /\ y \in Int /\ o \in Int
       /\ x <= top /\ y <= top /\ o <= top /\ bottom <= x /\ bottom <= y /\ bottom <= o
       /\ top \in Int /\ bottom \in Int /\ d \in Nat
       /\ 2 * c - d <= o /\ o <= 2 * c + d
       /\ u \in Int /\ u >= top - bottom /\ u >= 2 * d
  <2>1. top \in Int /\ bottom \in Int /\ d \in Nat
    <3>1. \A n \in low .. high : n \in Int
      BY <1>5
    <3>2. top \in low .. high /\ bottom \in low .. high
      BY <1>5, <1>8
    <3>3. d \in Nat
      BY <1>6, <1>9
    <3> HIDE DEF top, bottom, low, high, d
    <3> QED BY <3>1, <3>2, <3>3
  <2>2. x <= top /\ y <= top /\ o <= top /\ bottom <= x /\ bottom <= y /\ bottom <= o
    BY <1>7, <1>8
  <2>3. 2 * c - d <= o /\ o <= 2 * c + d
    BY <1>3, <1>10
  <2>4. u \in Int /\ u >= top - bottom /\ u >= 2 * d
    BY <1>12
  <2> QED BY <1>3, <1>4, <2>1, <2>2, <2>3, <2>4
<1>14. 2 * c - MaxDelay <= x /\ x <= 2 * c + MaxDelay /\ 2 * c - MaxDelay <= y /\ y <= 2 * c + MaxDelay
  <2>1. 2 * c - MaxDelay <= x /\ x <= 2 * c + MaxDelay
    <3> DEFINE e == seq[i].delay
    <3>1. x \in Int /\ e \in Nat /\ e <= MaxDelay /\ 2 * c - e <= x /\ x <= 2 * c + e
      BY <1>3
    <3> HIDE DEF x, e
    <3> QED BY <1>2, <3>1
  <2>2. 2 * c - MaxDelay <= y /\ y <= 2 * c + MaxDelay
    <3> DEFINE e == seq[j].delay
    <3>1. y \in Int /\ e \in Nat /\ e <= MaxDelay /\ 2 * c - e <= y /\ y <= 2 * c + e
      BY <1>3
    <3> HIDE DEF y, e
    <3> QED BY <1>2, <3>1
  <2> QED BY <2>1, <2>2
<1> HIDE DEF x, y, o, M, u, top, bottom, d
<1>15. Apart(M, 4 * c) <= 3 * u /\ M \in Int
  BY <1>13 DEF Apart
<1>16. Apart(M, 4 * c) <= 2 * MaxDelay
  BY <1>2, <1>13, <1>14 DEF Apart
<1> QED BY <1>15, <1>16 DEF M, u

\* All that is kept comes from one clock; it is the phone's as soon as one of its
\* pongs was accepted.
ClockInv ==
    IF link = "clock"
    THEN /\ ahead \in Clocks
         /\ \E c \in Clocks : samples \in Seq(Probes(c)) /\ (heard => c = ahead /\ samples # <<>>)
    ELSE ~heard

LEMMA PongKeeps ==
  ASSUME ClockInv, NEW there \in Delays, NEW back \in Delays, OnClockPong(there, back)
  PROVE  ClockInv'
<1> DEFINE s == Sample(0, there + ahead, there + ahead, there + back)
<1>1. /\ link = "clock" /\ link' = link /\ ahead' = ahead
      /\ samples' = RecordPong(samples, s) /\ heard' = (heard \/ s.delay <= MaxDelay)
  BY DEF OnClockPong
<1>2. ahead \in Clocks /\ ahead \in Int
  BY <1>1, LinkAssumption DEF ClockInv
<1>3. PICK c \in Clocks : samples \in Seq(Probes(c)) /\ (heard => c = ahead /\ samples # <<>>)
  BY <1>1 DEF ClockInv
<1>4. c \in Int /\ MaxDelay \in Nat /\ MaxJump \in Nat
  BY <1>3, LinkAssumption, ClockAssumption
<1>5. s.delay \in Nat /\ (s.delay <= MaxDelay => s \in Probes(ahead))
  BY <1>2, LinkAssumption, ProbeOf
<1> HIDE DEF s
<1>6. CASE ~(s.delay <= MaxDelay)
  <2>1. samples' = samples
    <3>1. s.delay < 0 \/ s.delay > MaxDelay
      BY <1>4, <1>5, <1>6
    <3>2. RecordPong(samples, s) = samples
      BY <3>1 DEF RecordPong
    <3> QED BY <1>1, <3>2
  <2>2. heard' => heard
    BY <1>1, <1>6
  <2> QED BY <1>1, <1>2, <1>3, <2>1, <2>2 DEF ClockInv
<1>7. CASE s.delay <= MaxDelay
  <2> DEFINE old == IF AnotherClock(samples, s) THEN <<>> ELSE samples
  <2>1. samples' = Insert(old, s)
    BY <1>1, <1>4, <1>5, <1>7 DEF RecordPong
  <2>2. old \in Seq(Probes(ahead))
    <3>1. CASE samples = <<>> \/ AnotherClock(samples, s)
      <4>1. old = <<>>
        BY <3>1
      <4> HIDE DEF old
      <4> QED BY <4>1
    <3>2. CASE samples # <<>> /\ ~AnotherClock(samples, s)
      <4>1. Apart(2 * s.offset, Median4(samples)) <= 4 * MaxJump
        <5>1. ~(Apart(2 * s.offset, Median4(samples)) > 4 * MaxJump)
          BY <3>2 DEF AnotherClock
        <5>2. s.offset \in Int
          BY <1>5, <1>7 DEF Probes
        <5>3. Median4(samples) \in Int
          BY <1>3, <1>4, <3>2, UncertaintyCovers
        <5> QED BY <1>4, <5>1, <5>2, <5>3 DEF Apart
      <4>2. Median4(samples) \in Int /\ Apart(Median4(samples), 4 * c) <= 2 * MaxDelay
        BY <1>3, <1>4, <3>2, UncertaintyCovers
      <4>3. s.offset \in Int /\ Apart(s.offset, 2 * ahead) <= MaxDelay
        <5>1. s.offset \in Int /\ Apart(s.offset, 2 * ahead) <= s.delay
          BY <1>5, <1>7 DEF Probes
        <5> QED BY <1>2, <1>4, <1>5, <1>7, <5>1 DEF Apart
      <4>4. Apart(c, ahead) <= MaxJump + MaxDelay
        <5> DEFINE M == Median4(samples)
                   o == s.offset
        <5> HIDE DEF M, o
        <5>1. /\ M \in Int /\ o \in Int /\ Apart(2 * o, M) <= 4 * MaxJump
              /\ Apart(M, 4 * c) <= 2 * MaxDelay /\ Apart(o, 2 * ahead) <= MaxDelay
          BY <4>1, <4>2, <4>3 DEF M, o
        <5> QED BY <1>2, <1>4, <5>1 DEF Apart
      <4>5. c = ahead \/ Apart(c, ahead) > MaxJump + MaxDelay
        BY <1>2, <1>3, LinkAssumption
      <4>6. c = ahead
        <5>1. Apart(c, ahead) \in Int
          BY <1>2, <1>4 DEF Apart
        <5> QED BY <1>4, <4>4, <4>5, <5>1
      <4> QED BY <1>3, <3>2, <4>6
    <3> QED BY <3>1, <3>2
  <2> HIDE DEF old
  <2>3. samples' \in Seq(Probes(ahead)) /\ samples' # <<>>
    BY <1>5, <1>7, <2>1, <2>2, Inserted
  <2> QED BY <1>1, <1>2, <2>3 DEF ClockInv
<1> QED BY <1>6, <1>7

LEMMA ClockInvariance == LinkSpec => []ClockInv
<1>1. LinkInit => ClockInv
  BY DEF LinkInit, ClockInv
<1>2. ClockInv /\ [LinkNext]_linkVars => ClockInv'
  <2> SUFFICES ASSUME ClockInv, [LinkNext]_linkVars PROVE ClockInv'
    OBVIOUS
  <2>1. CASE UNCHANGED <<link, clockVars>>
    BY <2>1 DEF ClockInv, clockVars
  <2>2. ASSUME NEW there \in Delays, NEW back \in Delays, OnClockPong(there, back) PROVE ClockInv'
    BY <2>2, PongKeeps
  <2>3. CASE PhoneRestarts
    <3>1. /\ link = "clock" /\ link' = link /\ ahead' \in Clocks /\ heard' = FALSE
          /\ samples' \in {samples, <<>>}
      BY <2>3 DEF PhoneRestarts
    <3>2. PICK c \in Clocks : samples \in Seq(Probes(c))
      BY <3>1 DEF ClockInv
    <3>3. samples' \in Seq(Probes(c))
      <4>1. CASE samples' = samples
        BY <3>2, <4>1
      <4>2. CASE samples' = <<>>
        BY <4>2
      <4> QED BY <3>1, <4>1, <4>2
    <3> QED BY <3>1, <3>2, <3>3 DEF ClockInv
  <2>4. CASE RegisterCapture
    <3>1. link = "clock" /\ link' = link /\ ahead' = ahead /\ heard' = FALSE /\ samples' = <<>>
      BY <2>4 DEF RegisterCapture
    <3>2. ahead \in Clocks
      BY <3>1 DEF ClockInv
    <3>3. samples' \in Seq(Probes(ahead))
      BY <3>1
    <3> QED BY <3>1, <3>2, <3>3 DEF ClockInv
  <2>5. CASE ReceiveRgbd \/ ReceiveCharacter
    BY <2>1, <2>5 DEF ReceiveRgbd, ReceiveCharacter
  <2>6. CASE UNCHANGED linkVars
    BY <2>6 DEF linkVars, ClockInv
  <2> QED BY <2>2, <2>3, <2>4, <2>5, <2>6 DEF LinkNext
<1> QED BY <1>1, <1>2, PTL DEF LinkSpec

(***************************************************************************)
(* A capture time is off by three times the uncertainty it is stamped with *)
(* at most, once a pong of the phone's present clock was accepted          *)
(* (record_pong, offset_s, uncertainty_ms).                                *)
(***************************************************************************)
THEOREM OffsetsHonest == LinkSpec => []OffsetWithinUncertainty
<1>1. ClockInv => OffsetWithinUncertainty
  <2> SUFFICES ASSUME ClockInv, heard
               PROVE  Apart(Median4(samples), 4 * ahead) <= 3 * Uncertainty4(samples)
    BY DEF OffsetWithinUncertainty
  <2>1. ahead \in Clocks /\ samples \in Seq(Probes(ahead)) /\ samples # <<>>
    BY DEF ClockInv
  <2>2. ahead \in Int
    BY <2>1, LinkAssumption
  <2> QED BY <2>1, <2>2, UncertaintyCovers
<1> QED BY <1>1, ClockInvariance, PTL
=============================================================================
