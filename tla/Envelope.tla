------------------------------- MODULE Envelope ------------------------------
(***************************************************************************)
(* HMC1 messages (protocol/envelope.py, protocol/buffers.py): one envelope *)
(* whose JSON header describes the binary buffers behind it.  A decoder is *)
(* an operator that returns "ok" or the code of the error raised first.    *)
(*                                                                         *)
(* A message is a record of what the decoders look at: its length, the     *)
(* five fields of the prefix, whether the header text is a JSON object     *)
(* (text), that object (header) and what the bytes of the payload say      *)
(* (content).  A JSON value of the wrong type is a number out of range.    *)
(***************************************************************************)
EXTENDS Integers, Sequences, FiniteSets, SequencesExt

CONSTANTS
    PrefixLen,      \* FIXED_PREFIX_LEN
    MaxHeader,      \* MAX_HEADER_BYTES
    MaxPayload,     \* MaxPayload[t]: the payload limit of message type t
    Uint32Max,      \* _UINT32_MAX
    ElementSize     \* ElementSize[e]: bytes per element of a fixed-size encoding

ASSUME EnvelopeAssumption ==
    /\ PrefixLen \in Nat /\ MaxHeader \in Nat /\ Uint32Max \in Nat
    /\ MaxPayload \in [{1, 2} -> 0 .. Uint32Max]
    /\ ElementSize \in [{"float32_le", "uint8", "xyzrgba16_le"} -> Nat \ {0}]
    /\ ElementSize["uint8"] = 1

RgbdFrame == 1
CharacterFrame == 2
Encodings == {"jpeg", "float32_le", "uint8", "xyzrgba16_le"}

Check(condition, code) == IF condition THEN "ok" ELSE code

First(codes) ==
    LET raised == {i \in DOMAIN codes : codes[i] # "ok"}
    IN  IF raised = {} THEN "ok" ELSE codes[Min(raised)]

Each(Verdict(_), entries) == First([i \in DOMAIN entries |-> Verdict(entries[i])])

Distinct(s) == IsInjective(s)

(***************************************************************************)
(* Framing.                                                                *)
(***************************************************************************)
DecodeEnvelope(m) ==
    First(<<Check(m.len >= PrefixLen, "invalid_message"),
            Check(m.magic, "invalid_message"),
            Check(m.version = 1, "unsupported_version"),
            Check(m.type \in {RgbdFrame, CharacterFrame}, "invalid_message"),
            Check(m.headerLen <= MaxHeader, "frame_too_large"),
            Check(m.type \in DOMAIN MaxPayload => m.payloadLen <= MaxPayload[m.type],
                  "frame_too_large"),
            Check(m.len = PrefixLen + m.headerLen + m.payloadLen, "invalid_message"),
            Check(m.text = "object", "invalid_message")>>)

EncodeEnvelope(type, header, headerLen, payloadLen, content) ==
    [code |-> Check(headerLen <= MaxHeader /\ payloadLen <= MaxPayload[type],
                    "frame_too_large"),
     message |-> [len |-> PrefixLen + headerLen + payloadLen, magic |-> TRUE,
                  version |-> 1, type |-> type, headerLen |-> headerLen,
                  payloadLen |-> payloadLen, text |-> "object",
                  header |-> header, content |-> content]]

(***************************************************************************)
(* Buffer descriptors; Absent stands for a shape that is null or missing.  *)
(***************************************************************************)
Absent == <<-1>>

Uint32(n) == n \in 0 .. Uint32Max

FromJson(d) ==
    Check(/\ d.known
          /\ d.name # ""
          /\ d.encoding \in Encodings
          /\ Uint32(d.offset) /\ Uint32(d.length)
          /\ IF d.shape = Absent THEN d.encoding = "jpeg"
             ELSE d.shape # <<>> /\ \A i \in DOMAIN d.shape : Uint32(d.shape[i]) /\ d.shape[i] > 0,
          "invalid_message")

ParseDescriptors(buffers) ==
    First(<<Check(buffers # <<>>, "invalid_message"), Each(FromJson, buffers)>>)

End(d) == d.offset + d.length

FixedSize(d) == d.encoding # "jpeg" /\ d.shape # Absent

ExpectedLength(d) == FoldLeft(LAMBDA n, dim : n * dim, ElementSize[d.encoding], d.shape)

\* Bug: every buffer lies within the payload, wherever the one before it ends.
ValidateDescriptorsLoosely(buffers, payloadLen) ==
    Check(/\ Distinct([i \in DOMAIN buffers |-> buffers[i].name])
          /\ \A i \in DOMAIN buffers :
                /\ End(buffers[i]) <= payloadLen
                /\ FixedSize(buffers[i]) => ExpectedLength(buffers[i]) = buffers[i].length,
          "invalid_buffer_range")

ValidateDescriptors(buffers, payloadLen) ==
    Check(/\ Distinct([i \in DOMAIN buffers |-> buffers[i].name])
          /\ \A i \in DOMAIN buffers :
                /\ End(buffers[i]) <= payloadLen
                /\ buffers[i].offset = IF i = 1 THEN 0 ELSE End(buffers[i-1])
                /\ FixedSize(buffers[i]) => ExpectedLength(buffers[i]) = buffers[i].length
          /\ buffers # <<>> => End(Last(buffers)) = payloadLen,
          "invalid_buffer_range")

LoadBuffers(m) ==
    LET parsed == ParseDescriptors(m.header.buffers)
    IN  IF parsed # "ok" THEN parsed ELSE ValidateDescriptors(m.header.buffers, m.payloadLen)

Has(m, name) == \E i \in DOMAIN m.header.buffers : m.header.buffers[i].name = name

Descriptor(m, name) ==
    LET i == CHOOSE i \in DOMAIN m.header.buffers : m.header.buffers[i].name = name
    IN  m.header.buffers[i]

(***************************************************************************)
(* The array of a fixed-size buffer: an error, or its shape; a jpeg has    *)
(* none.                                                                   *)
(***************************************************************************)
ArrayOf(m, name) ==
    First(<<Check(Has(m, name), "invalid_message"),
            Check(Has(m, name) => Descriptor(m, name).encoding # "jpeg", "invalid_message")>>)
=============================================================================
