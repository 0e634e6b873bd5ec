----------------------------- MODULE CharacterWire ---------------------------
(***************************************************************************)
(* A character frame from the collider fitters to the wire and back        *)
(* (colliders/typed_validate.py, models.py and validate.py,                *)
(* pipeline/assembler.py, contracts/character_codec.py and                 *)
(* character_decode.py), and the checks of the Fabric mod's decoder on the *)
(* envelope, the descriptors and the points (CharacterFrameDecoder.java).  *)
(*                                                                         *)
(* Lengths of geometry are in units of which MaxSize make a metre; NaN is  *)
(* a size that is not a finite number.  A vector is "finite", "non_finite" *)
(* or, on the wire, "not_vector".  The source masks of the points are the   *)
(* set of the bits that are set in any of them.                            *)
(***************************************************************************)
EXTENDS Envelope

CONSTANTS
    Required,       \* REQUIRED_COLLIDERS: ids, types, anatomical cap and least quality
    MinLength,      \* min_capsule_length_m
    MaxSize,        \* MAX_SIZE_M, MAX_COLLIDER_SIZE_M
    MaxPoints, MaxLandmarks, MaxColliders, MaxIdBytes,
    IdBytes(_)      \* the UTF-8 length of a collider id

IsSequence(s) == s \in Seq(Range(s))

ASSUME WireAssumption ==
    /\ IsSequence(Required) /\ Len(Required) <= MaxColliders
    /\ \A i \in DOMAIN Required :
          /\ Required[i].id # "" /\ IdBytes(Required[i].id) <= MaxIdBytes
          /\ Required[i].type \in {"sphere", "capsule", "obb"}
    /\ MaxSize \in Nat /\ MaxPoints \in Nat
    /\ \A i, j \in DOMAIN Required : Required[i].id = Required[j].id => i = j
    /\ \A i \in DOMAIN Required : Required[i].cap \in 1 .. MaxSize

NaN == -1
NoQuality == -2     \* a quality of None

PointBytes == ElementSize["xyzrgba16_le"]

(***************************************************************************)
(* Typed validation of what the fitters return.                            *)
(***************************************************************************)
Disabled(spec) == [id |-> spec.id, type |-> spec.type, enabled |-> FALSE]

CheckCommon(c, spec) ==
    First(<<Check(c.type = spec.type, "type_mismatch"),
            Check(c.quality # NaN, "non_finite_quality"),
            Check(c.quality = NoQuality \/ c.quality >= spec.minQuality, "low_quality")>>)

CheckGeometry(c, spec) ==
    First(<<Check(c.vectors = "finite", "non_finite_vector"),
            Check(c.size # NaN /\ c.size > 0, "non_positive_size"),
            Check(c.size <= spec.cap, "size_exceeds_anatomy"),
            Check(c.type = "capsule" => c.span >= MinLength, "coincident_endpoints"),
            Check(c.type = "obb" => c.axes = "orthonormal", "axes"),
            Check(c.inStage, "outside_stage")>>)

ValidateFitted(c, spec) ==
    IF ~c.enabled \/ CheckCommon(c, spec) # "ok" \/ CheckGeometry(c, spec) # "ok"
    THEN Disabled(spec) ELSE c

FinalizeColliderSet(fitted) ==
    [i \in DOMAIN Required |->
        LET spec == Required[i]
            mine == {k \in DOMAIN fitted : fitted[k].id = spec.id}
        IN  IF Cardinality(mine) = 1 THEN ValidateFitted(fitted[CHOOSE k \in mine : TRUE], spec)
            ELSE Disabled(spec)]

(***************************************************************************)
(* The transport record: a disabled collider has no geometry.              *)
(***************************************************************************)
ToTransport(c) ==
    IF c.enabled
    THEN [id |-> c.id, type |-> c.type, valid |-> TRUE,
          geometry |-> [vectors |-> c.vectors, size |-> c.size, axes |-> c.axes]]
    ELSE [id |-> c.id, type |-> c.type, valid |-> FALSE, geometry |-> <<>>]

SizeInRange(size) == size # NaN /\ size > 0 /\ size <= MaxSize

ValidateCollider(c) ==
    IF ~c.valid THEN c.geometry = <<>>
    ELSE /\ c.type \in {"sphere", "capsule", "obb"}
         /\ c.geometry.vectors = "finite"
         /\ SizeInRange(c.geometry.size)
         /\ c.type = "obb" => c.geometry.axes = "orthonormal"

ValidateColliders(colliders) ==
    /\ Distinct([i \in DOMAIN colliders |-> colliders[i].id])
    /\ \A i \in DOMAIN colliders : ValidateCollider(colliders[i])

CheckCloud(cloud) ==
    cloud.rgbaCount = cloud.count /\ cloud.maskCount = cloud.count /\ cloud.finite /\ cloud.opaque

(***************************************************************************)
(* The checks of FrameAssembler.assemble.                                  *)
(***************************************************************************)
Assembles(pairCalibration, calibration, cloud, landmarks, colliders) ==
    /\ pairCalibration = calibration
    /\ CheckCloud(cloud)
    /\ ValidateColliders(colliders)
    /\ Distinct([i \in DOMAIN landmarks |-> landmarks[i].name])

(***************************************************************************)
(* Encoding.                                                               *)
(***************************************************************************)
LandmarkJson(l) ==
    IF l.valid /\ l.position # "none" THEN l ELSE [l EXCEPT !.valid = FALSE, !.position = "none"]

PointsDescriptor(n) ==
    [name |-> "points", known |-> TRUE, encoding |-> "xyzrgba16_le", offset |-> 0,
     length |-> n * PointBytes, shape |-> <<n>>]

\* Bug: the masks are said to begin where the points do.
SourcesDescriptorAtStart(n) ==
    [name |-> "point_sources", known |-> TRUE, encoding |-> "uint8", offset |-> 0,
     length |-> n, shape |-> <<n>>]

SourcesDescriptor(n) ==
    [name |-> "point_sources", known |-> TRUE, encoding |-> "uint8",
     offset |-> n * PointBytes, length |-> n, shape |-> <<n>>]

BuildCharacterHeader(f) ==
    [schema |-> "hmc.character_frame", version |-> 2, known |-> TRUE, mode |-> f.mode,
     frameId |-> f.frameId, sources |-> f.sources, pointCount |-> f.cloud.count,
     quality |-> TRUE, ids |-> TRUE,
     landmarks |-> [i \in DOMAIN f.landmarks |-> LandmarkJson(f.landmarks[i])],
     colliders |-> f.colliders,
     buffers |-> <<PointsDescriptor(f.cloud.count)>>
                 \o (IF f.cloud.count > 0 THEN <<SourcesDescriptor(f.cloud.count)>> ELSE <<>>)]

EncodeCharacterFrame(f, headerLen) ==
    LET n == f.cloud.count
    IN  EncodeEnvelope(CharacterFrame, BuildCharacterHeader(f), headerLen,
                       n * PointBytes + n,
                       [finite |-> f.cloud.finite, mask |-> f.cloud.mask])

(***************************************************************************)
(* Decoding, as the backend does it.                                       *)
(***************************************************************************)
FiniteVec(v) == First(<<Check(v # "not_vector", "invalid_message"),
                        Check(v # "non_finite", "non_finite_geometry")>>)

DecodeLandmark(l) ==
    First(<<Check(l.name # "", "invalid_message"),
            IF l.valid /\ l.position # "none" THEN FiniteVec(l.position) ELSE "ok">>)

PositiveSize(size) == Check(SizeInRange(size), "invalid_collider_geometry")

DecodeGeometry(c) ==
    LET g == c.geometry
    IN  IF c.type = "obb"
        THEN First(<<FiniteVec(g.axes),
                     Check(g.axes # "skewed", "invalid_collider_geometry"),
                     PositiveSize(g.size), FiniteVec(g.vectors)>>)
        ELSE First(<<FiniteVec(g.vectors), PositiveSize(g.size)>>)

DecodeCollider(c) ==
    First(<<Check(c.id # "" /\ IdBytes(c.id) <= MaxIdBytes, "invalid_message"),
            Check(c.type \in {"sphere", "capsule", "obb"}, "invalid_message"),
            IF c.valid THEN DecodeGeometry(c) ELSE "ok">>)

DecodeHeader(h) ==
    First(<<Check(h.schema = "hmc.character_frame", "invalid_message"),
            Check(h.version >= 0, "invalid_message"),
            Check(h.version \in {1, 2}, "unsupported_version"),
            Check(h.known /\ h.mode \in {"snapshot", "live"} /\ h.frameId >= 0, "invalid_message"),
            Check(Len(h.landmarks) <= MaxLandmarks, "limit_exceeded"),
            Check(Len(h.colliders) <= MaxColliders, "limit_exceeded"),
            Each(DecodeLandmark, h.landmarks),
            Check(Distinct([i \in DOMAIN h.landmarks |-> h.landmarks[i].name]), "invalid_message"),
            Each(DecodeCollider, h.colliders),
            Check(Distinct([i \in DOMAIN h.colliders |-> h.colliders[i].id]), "invalid_message")>>)

DecodePoints(m) ==
    LET d == Descriptor(m, "points")
        count == d.length \div PointBytes
    IN  First(<<Check(d.length % PointBytes = 0, "invalid_buffer_range"),
                Check(count <= MaxPoints, "invalid_buffer_range"),
                Check(d.shape # Absent => d.shape[1] = count, "invalid_buffer_range"),
                Check(m.content.finite, "non_finite_geometry"),
                IF ~Has(m, "point_sources") THEN "ok"
                ELSE LET s == Descriptor(m, "point_sources")
                     IN  First(<<Check(s.encoding = "uint8" /\ s.shape = <<count>> /\ s.length = count,
                                       "invalid_buffer_range"),
                                 Check(m.header.sources <= 8 /\ m.content.mask \subseteq 0 .. m.header.sources - 1,
                                       "invalid_message")>>)>>)

DecodeCharacterFrame(m) ==
    LET early == DecodeEnvelope(m)
    IN  IF early # "ok" THEN early
        ELSE LET body == First(<<Check(m.type = CharacterFrame, "invalid_message"),
                                 DecodeHeader(m.header), LoadBuffers(m),
                                 Check(Has(m, "points"), "invalid_message")>>)
             IN  IF body # "ok" THEN body
                 ELSE First(<<DecodePoints(m),
                              Check(m.header.quality /\ m.header.ids, "invalid_message")>>)

DecodedLandmark(l) == [name |-> l.name, valid |-> l.valid /\ l.position # "none"]

(***************************************************************************)
(* Decoding of the envelope, the descriptors and the points in the mod;    *)
(* its header parser is represented by the backend's.                      *)
(***************************************************************************)
JavaDescriptor(d) ==
    First(<<Check(d.known /\ d.name # "" /\ d.encoding \in Encodings, "invalid_message"),
            Check(Uint32(d.offset) /\ Uint32(d.length), "invalid_buffer_range"),
            Check(IF d.shape = Absent THEN d.encoding = "jpeg"
                  ELSE \A i \in DOMAIN d.shape : d.shape[i] > 0, "invalid_message")>>)

\* Bug: the length of the points buffer is not compared with its shape.
JavaBufferAnyLength(buffers, payloadLen, i) ==
    LET d == buffers[i]
    IN  First(<<Check(\A j \in 1 .. i - 1 : buffers[j].name # d.name, "invalid_message"),
                Check(d.offset = IF i = 1 THEN 0 ELSE End(buffers[i-1]), "invalid_buffer_range"),
                Check(End(d) <= payloadLen, "invalid_buffer_range"),
                Check(d.name = "points" => d.encoding = "xyzrgba16_le" /\ Len(d.shape) = 1,
                      "invalid_message")>>)

JavaBuffer(buffers, payloadLen, i) ==
    LET d == buffers[i]
    IN  First(<<Check(\A j \in 1 .. i - 1 : buffers[j].name # d.name, "invalid_message"),
                Check(d.offset = IF i = 1 THEN 0 ELSE End(buffers[i-1]), "invalid_buffer_range"),
                Check(End(d) <= payloadLen, "invalid_buffer_range"),
                Check(d.name = "points" => d.encoding = "xyzrgba16_le" /\ Len(d.shape) = 1,
                      "invalid_message"),
                Check(d.name = "points" /\ Len(d.shape) = 1 =>
                          d.length = d.shape[1] * PointBytes, "invalid_buffer_range")>>)

JavaValidateBuffers(m) ==
    LET buffers == m.header.buffers
        parsed == Each(JavaDescriptor, buffers)
    IN  First(<<Check(buffers # <<>>, "invalid_message"),
                IF parsed # "ok" THEN parsed
                ELSE First([i \in DOMAIN buffers |-> JavaBuffer(buffers, m.payloadLen, i)]),
                Check(buffers # <<>> => End(Last(buffers)) = m.payloadLen, "invalid_buffer_range"),
                Check(Has(m, "points"), "invalid_message")>>)

\* Bug: the source bits are not compared with the number of cameras.
JavaSourcesAnyMask(m, count) ==
    LET s == Descriptor(m, "point_sources")
    IN  Check(s.encoding = "uint8" /\ s.shape = <<count>> /\ s.length = count,
              "invalid_buffer_range")

JavaSources(m, count) ==
    LET s == Descriptor(m, "point_sources")
    IN  First(<<Check(s.encoding = "uint8" /\ s.shape = <<count>> /\ s.length = count,
                      "invalid_buffer_range"),
                Check(m.header.sources <= 8 /\ m.content.mask \subseteq 0 .. m.header.sources - 1,
                      "invalid_message")>>)

JavaPoints(m) ==
    LET count == Descriptor(m, "points").shape[1]
    IN  First(<<Check(count <= MaxPoints, "limit_exceeded"),
                Check(m.header.pointCount = count, "invalid_message"),
                IF Has(m, "point_sources") THEN JavaSources(m, count) ELSE "ok",
                Check(m.content.finite, "non_finite_geometry")>>)

JavaDecode(m) ==
    LET early == DecodeEnvelope(m)
    IN  IF early # "ok" THEN early
        ELSE LET body == First(<<Check(m.type = CharacterFrame, "invalid_message"),
                                 DecodeHeader(m.header), JavaValidateBuffers(m)>>)
             IN  IF body # "ok" THEN body ELSE JavaPoints(m)
=============================================================================
