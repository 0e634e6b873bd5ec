----------------------------- MODULE MCFrameLink -----------------------------
(***************************************************************************)
(* Instance of FrameLink: a well-formed message of each kind and what goes *)
(* wrong with it, one section at a time: the envelope, the header, the     *)
(* buffer descriptors, the payload.  Sizes are scaled down: one-pixel      *)
(* rasters, frames of one or two points.                                   *)
(***************************************************************************)
EXTENDS FrameLink

MCMaxPayload == [t \in {1, 2} |-> IF t = 1 THEN 5 ELSE 8]
MCElementSize == [e \in {"float32_le", "uint8", "xyzrgba16_le"} |->
                    CASE e = "float32_le" -> 2 [] e = "uint8" -> 1 [] OTHER -> 3]
MCIdBytes(id) == IF id = "long" THEN 9 ELSE 4
MCRequired == <<[id |-> "head", type |-> "sphere", cap |-> 1, minQuality |-> 1]>>

Buffer(name, encoding, offset, length, shape) ==
    [name |-> name, known |-> TRUE, encoding |-> encoding, offset |-> offset,
     length |-> length, shape |-> shape]

Message(type, header, payloadLen, content) ==
    [len |-> PrefixLen + 1 + payloadLen, magic |-> TRUE, version |-> 1, type |-> type,
     headerLen |-> 1, payloadLen |-> payloadLen, text |-> "object",
     header |-> header, content |-> content]

Envelopes(m) ==
    {[m EXCEPT !.len = l, !.magic = g, !.version = v, !.type = t, !.headerLen = h,
               !.payloadLen = p, !.text = x] :
        l \in {0, m.len - 1, m.len, m.len + 1}, g \in BOOLEAN, v \in 0 .. 2, t \in 0 .. 3,
        h \in {1, MaxHeader + 1}, p \in {m.payloadLen, m.payloadLen + 1, 9},
        x \in {"object", "constant"}}
-----------------------------------------------------------------------------
RgbdHeader ==
    [typed |-> TRUE, version |-> 2, sequence |-> 0, timeFinite |-> TRUE,
     rgb |-> [width |-> 1, height |-> 1, intrinsics |-> [count |-> 9, finite |-> TRUE]],
     depth |-> [width |-> 1, height |-> 1, unit |-> "meter"],
     pose |-> [count |-> 16, finite |-> TRUE],
     buffers |-> <<Buffer("rgb", "jpeg", 0, 1, Absent),
                   Buffer("depth", "float32_le", 1, 2, <<1, 1>>),
                   Buffer("confidence", "uint8", 3, 1, <<1, 1>>)>>]

Captured(header, payloadLen, jpeg) ==
    Message(RgbdFrame, header, payloadLen, [jpeg |-> jpeg])

GoodCapture == Captured(RgbdHeader, 4, <<1, 1>>)

RgbdHeaders ==
    {[RgbdHeader EXCEPT !.typed = t, !.version = v, !.sequence = s, !.timeFinite = f,
                        !.rgb.width = w, !.depth.height = h, !.depth.unit = u] :
        t \in BOOLEAN, v \in {-1, 1, 2, 3}, s \in {-1, 0}, f \in BOOLEAN,
        w \in {0, 1, 2, MaxDim + 1}, h \in {0, 1, 2}, u \in {"meter", "foot"}}
    \cup {[RgbdHeader EXCEPT !.rgb.intrinsics = k, !.pose = p] :
             k \in [count : {8, 9}, finite : BOOLEAN], p \in [count : {12, 16}, finite : BOOLEAN]}

RgbdBuffer ==
    {Buffer(n, e, o, l, s) : n \in {"rgb", "depth", "confidence"},
        e \in {"jpeg", "float32_le", "uint8"}, o \in {0, 1, 2}, l \in {1, 2},
        s \in {Absent, <<1, 1>>, <<1, 2>>, <<2>>}}

RgbdBuffers ==
    {<<>>} \cup {<<a>> : a \in RgbdBuffer}
    \cup {<<Buffer("rgb", "jpeg", 0, l, Absent), a>> : l \in {0, 1}, a \in RgbdBuffer}
    \cup {<<a, Buffer("rgb", "jpeg", o, 1, Absent)>> : a \in RgbdBuffer, o \in {1, 2}}
    \cup {<<RgbdHeader.buffers[1], RgbdHeader.buffers[2], [a EXCEPT !.offset = @ + 2]>> :
             a \in RgbdBuffer}

MCRgbdMessages ==
    Envelopes(GoodCapture)
    \cup {Captured(h, 4, j) : h \in RgbdHeaders, j \in {<<1, 1>>, <<2, 1>>}}
    \cup {Captured([RgbdHeader EXCEPT !.buffers = b], p, j) :
             b \in RgbdBuffers, p \in {1, 2, 3, 4, 5}, j \in {<<1, 1>>, <<0, 0>>}}
-----------------------------------------------------------------------------
Landmark(name, valid, position) == [name |-> name, valid |-> valid, position |-> position]

Collider(id, type, valid, vectors, size, axes) ==
    [id |-> id, type |-> type, valid |-> valid,
     geometry |-> [vectors |-> vectors, size |-> size, axes |-> axes]]

CharacterHeader ==
    [schema |-> "hmc.character_frame", version |-> 2, known |-> TRUE, mode |-> "live",
     frameId |-> 1, sources |-> 2, pointCount |-> 1, quality |-> TRUE, ids |-> TRUE,
     landmarks |-> <<Landmark("wrist", TRUE, "finite")>>,
     colliders |-> <<Collider("head", "sphere", TRUE, "finite", 1, "orthonormal")>>,
     buffers |-> <<PointsDescriptor(1), SourcesDescriptor(1)>>]

Character(header, payloadLen, content) == Message(CharacterFrame, header, payloadLen, content)

GoodPoints == [finite |-> TRUE, mask |-> {0, 1}]

CharacterHeaders ==
    {[CharacterHeader EXCEPT !.schema = s, !.version = v, !.known = k, !.mode = m, !.frameId = f,
                             !.sources = n, !.pointCount = c, !.quality = q] :
        s \in {"hmc.character_frame", "other"}, v \in {-1, 0, 1, 2}, k \in BOOLEAN,
        m \in {"live", "snapshot", "replay"}, f \in {-1, 1}, n \in {0, 1, 2}, c \in {0, 1, 2},
        q \in BOOLEAN}

Names == <<"a", "b", "c", "d">>

Landmarks == {Landmark(n, v, p) : n \in {"wrist", "elbow", ""}, v \in BOOLEAN,
                 p \in {"none", "finite", "non_finite", "not_vector"}}
Colliders == {Collider(i, t, v, x, s, a) : i \in {"head", "hand", "long", ""},
                 t \in {"sphere", "obb", "cone"}, v \in BOOLEAN,
                 x \in {"finite", "non_finite"}, s \in {NaN, 0, 1, MaxSize + 1},
                 a \in {"orthonormal", "skewed", "non_finite"}}

Figures ==
    {[CharacterHeader EXCEPT !.landmarks = l] :
        l \in {<<>>} \cup {<<a, b>> : a, b \in Landmarks}
              \cup {[i \in 1 .. MaxLandmarks + 1 |-> Landmark(Names[i], TRUE, "finite")]}}
    \cup {[CharacterHeader EXCEPT !.colliders = c] :
             c \in {<<CharacterHeader.colliders[1], d>> : d \in Colliders}
                   \cup {[i \in 1 .. MaxColliders + 1 |->
                             Collider(Names[i], "sphere", TRUE, "finite", 1, "orthonormal")]}}

CharacterBuffer ==
    {Buffer(n, e, o, l, s) : n \in {"points", "point_sources", "extra"},
        e \in {"jpeg", "uint8", "xyzrgba16_le"}, o \in {0, 3, 6}, l \in {0, 1, 2, 3, 4, 6},
        s \in {Absent, <<1>>, <<2>>, <<1, 1>>, <<0>>}}

CharacterBuffers ==
    {<<>>, <<PointsDescriptor(2), SourcesDescriptor(2)>>,
     <<PointsDescriptor(1), SourcesDescriptor(1), Buffer("extra", "jpeg", 4, 1, Absent)>>,
     <<PointsDescriptor(3)>>}
    \cup {<<a>> : a \in CharacterBuffer}
    \cup {<<PointsDescriptor(1), a>> : a \in CharacterBuffer}
    \cup {<<Buffer("point_sources", "uint8", 0, 1, <<1>>), [a EXCEPT !.offset = 1]>> :
             a \in CharacterBuffer}

MCCharacterMessages ==
    Envelopes(Character(CharacterHeader, 4, GoodPoints))
    \cup {Character(h, 4, c) : h \in CharacterHeaders, c \in {GoodPoints, [finite |-> FALSE, mask |-> {0}]}}
    \cup {Character(h, 4, GoodPoints) : h \in Figures}
    \cup {Character([CharacterHeader EXCEPT !.buffers = b, !.pointCount = n], p, GoodPoints) :
             b \in CharacterBuffers, n \in {1, 2}, p \in {1, 3, 4, 5, 6, 8}}
-----------------------------------------------------------------------------
(* Round trips, even and uneven, some too long; a clock behind the         *)
(* backend's and one far ahead.                                            *)
MCClocks == {-3, 20}
MCDelays == {0, 1, 3}
=============================================================================
