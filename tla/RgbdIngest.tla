------------------------------ MODULE RgbdIngest -----------------------------
(***************************************************************************)
(* What a phone's RGBD message must be to become a captured frame          *)
(* (contracts/rgbd.py, capture/rgbd_ingest.py).  Of the payload only the   *)
(* size the JPEG decodes to matters.                                       *)
(***************************************************************************)
EXTENDS Envelope

CONSTANTS
    MaxDim          \* _DIM_MAX

ASSUME RgbdAssumption == MaxDim \in Nat \ {0}

Dims(raster) == raster.width \in 1 .. MaxDim /\ raster.height \in 1 .. MaxDim

Finite(numbers, n) == numbers.count = n /\ numbers.finite

(***************************************************************************)
(* The strict model: every field present and typed, nothing else.  typed   *)
(* stands for the fields that are only checked for their type.             *)
(***************************************************************************)
ParseRgbdHeader(h) ==
    Check(/\ h.typed
          /\ h.version \in {1, 2}
          /\ h.sequence >= 0
          /\ h.timeFinite
          /\ Dims(h.rgb) /\ Finite(h.rgb.intrinsics, 9)
          /\ Dims(h.depth) /\ h.depth.unit = "meter"
          /\ Finite(h.pose, 16),
          "invalid_message")

(***************************************************************************)
(* cv2.imdecode raises an error of its own when it is given no bytes.      *)
(***************************************************************************)
Imdecode(bytes, jpeg) ==
    IF bytes = 0 THEN "cv2_error"
    ELSE Check(jpeg # "undecodable", "invalid_message")

Raster(m, name) ==
    LET d == Descriptor(m, name)
    IN  IF d.encoding = "xyzrgba16_le" THEN <<d.length>> ELSE d.shape

DepthSize(h) == <<h.depth.height, h.depth.width>>

RgbVerdict(m) ==
    IF ~Has(m, "rgb") \/ Descriptor(m, "rgb").encoding # "jpeg" THEN "invalid_message"
    ELSE First(<<Imdecode(Descriptor(m, "rgb").length, m.content.jpeg),
                 Check(m.content.jpeg = <<m.header.rgb.width, m.header.rgb.height>>,
                       "invalid_message")>>)

RasterVerdict(m, name) ==
    LET found == ArrayOf(m, name)
    IN  IF found # "ok" THEN found
        ELSE Check(Raster(m, name) = DepthSize(m.header), "invalid_message")

FutureVersion(h) == h.version >= 0 /\ h.version \notin {1, 2}

DecodeRgbdFrame(m) ==
    LET envelope == DecodeEnvelope(m)
    IN  IF envelope # "ok" THEN envelope
        ELSE IF m.type # RgbdFrame THEN "invalid_message"
        ELSE IF FutureVersion(m.header) THEN "unsupported_version"
        ELSE LET early == First(<<ParseRgbdHeader(m.header), LoadBuffers(m)>>)
             IN  IF early # "ok" THEN early
                 ELSE First(<<RgbVerdict(m), RasterVerdict(m, "depth"),
                              IF Has(m, "confidence") THEN RasterVerdict(m, "confidence")
                              ELSE "ok">>)
-----------------------------------------------------------------------------
Bytes(d) == {b \in 0 .. Uint32Max : d.offset <= b /\ b < End(d)}

(***************************************************************************)
(* No byte of an accepted message is read twice or left over, and its      *)
(* rasters have as many samples as the header says.                        *)
(***************************************************************************)
PartitionsPayload(m) ==
    LET ds == m.header.buffers
    IN  /\ \A b \in 0 .. m.payloadLen - 1 :
              Cardinality({i \in DOMAIN ds : b \in Bytes(ds[i])}) = 1
        /\ \A i \in DOMAIN ds : Bytes(ds[i]) \subseteq 0 .. m.payloadLen - 1

SamplesPerPixel(m) ==
    \A name \in {"depth", "confidence"} :
        Has(m, name) =>
            LET d == Descriptor(m, name)
            IN  d.length = m.header.depth.width * m.header.depth.height * ElementSize[d.encoding]
=============================================================================
