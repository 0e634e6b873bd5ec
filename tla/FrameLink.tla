------------------------------ MODULE FrameLink ------------------------------
(***************************************************************************)
(* What arrives at the end of a link: an RGBD message at the backend's     *)
(* capture socket, a character message at the backend's own decoder and at *)
(* the Fabric mod's, or the pongs by which the backend learns what the     *)
(* times in RGBD messages mean.  Nothing is assumed of who sent a message: *)
(* it is any record of the shape Envelope.tla describes.                   *)
(***************************************************************************)
EXTENDS CharacterWire, RgbdIngest, ClockEstimation

CONSTANTS
    RgbdMessages, CharacterMessages,
    Clocks,         \* what a phone's clock may be ahead of the backend's
    Delays          \* how long a probe may travel one way

(***************************************************************************)
(* What struct and JSON readers return: a number of a wrong type is one    *)
(* out of range, and a shape that is no list of them is Absent.            *)
(***************************************************************************)
IsMessage(m) ==
    /\ m.payloadLen \in Nat
    /\ IsSequence(m.header.buffers)
    /\ \A i \in DOMAIN m.header.buffers :
          LET d == m.header.buffers[i]
          IN  d.offset \in Int /\ d.length \in Int /\ IsSequence(d.shape) /\ Range(d.shape) \subseteq Int

(***************************************************************************)
(* A phone's clock is steady but when the phone restarts, and then it is   *)
(* visibly another one.                                                    *)
(***************************************************************************)
ASSUME LinkAssumption ==
    /\ \A m \in RgbdMessages :
          IsMessage(m) /\ m.header.depth.width \in Int /\ m.header.depth.height \in Int
    /\ \A m \in CharacterMessages :
          /\ IsMessage(m) /\ m.header.pointCount \in Int
          /\ IsSequence(m.header.colliders)
          /\ \A i \in DOMAIN m.header.colliders :
                m.header.colliders[i].geometry.vectors \in {"finite", "non_finite", "not_vector"}
    /\ \A a, b \in Clocks : a = b \/ Apart(a, b) > MaxJump + MaxDelay
    /\ Clocks \subseteq Int /\ Delays \subseteq Nat

VARIABLES
    link,       \* the link it arrived on
    message,    \* the message that has arrived
    verdict,    \* what each decoder said of it, <<>> until it is decoded
    ahead,      \* what the phone's clock is ahead of the backend's
    samples,    \* of the phone's ClockEstimator
    heard       \* it has a sample of the clock the phone has now

linkVars == <<link, message, verdict, ahead, samples, heard>>
clockVars == <<ahead, samples, heard>>

LinkInit ==
    /\ \/ link = "capture" /\ message \in RgbdMessages
       \/ link = "character" /\ message \in CharacterMessages
       \/ link = "clock" /\ message = <<>>
    /\ verdict = <<>>
    /\ ahead \in IF link = "clock" THEN Clocks ELSE {0}
    /\ samples = <<>> /\ heard = FALSE

ReceiveRgbd ==
    /\ link = "capture" /\ verdict = <<>>
    /\ verdict' = [capture |-> DecodeRgbdFrame(message)]
    /\ UNCHANGED <<link, message, clockVars>>

ReceiveCharacter ==
    /\ link = "character" /\ verdict = <<>>
    /\ verdict' = [backend |-> DecodeCharacterFrame(message), mod |-> JavaDecode(message)]
    /\ UNCHANGED <<link, message, clockVars>>

(***************************************************************************)
(* A probe takes its time there and back.                                  *)
(***************************************************************************)
OnClockPong(there, back) ==
    /\ link = "clock"
    /\ LET s == Sample(0, there + ahead, there + ahead, there + back)
       IN  /\ samples' = RecordPong(samples, s)
           /\ heard' = (heard \/ s.delay <= MaxDelay)
    /\ UNCHANGED <<link, message, verdict, ahead>>

\* The phone restarts; its socket is replaced or not.
PhoneRestarts ==
    /\ link = "clock"
    /\ ahead' \in Clocks \ {ahead}
    /\ heard' = FALSE
    /\ samples' \in {samples, <<>>}
    /\ UNCHANGED <<link, message, verdict>>

RegisterCapture ==
    /\ link = "clock"
    /\ samples' = <<>> /\ heard' = FALSE
    /\ UNCHANGED <<link, message, verdict, ahead>>

LinkNext ==
    \/ ReceiveRgbd \/ ReceiveCharacter
    \/ \E there, back \in Delays : OnClockPong(there, back)
    \/ PhoneRestarts \/ RegisterCapture

LinkSpec == LinkInit /\ [][LinkNext]_linkVars
-----------------------------------------------------------------------------
Accepted(decoder) == decoder \in DOMAIN verdict /\ verdict[decoder] = "ok"

(***************************************************************************)
(* A captured frame is made only of a message whose buffers cover the      *)
(* payload without overlap or gap, whose JPEG has the size the header says *)
(* and whose rasters have one sample per depth pixel (buffers.py:117,      *)
(* rgbd_ingest.py:53-81).                                                  *)
(***************************************************************************)
AcceptedCaptureIsWhole ==
    Accepted("capture") =>
        /\ PartitionsPayload(message)
        /\ SamplesPerPixel(message)
        /\ message.content.jpeg = <<message.header.rgb.width, message.header.rgb.height>>
        /\ Has(message, "rgb") /\ Has(message, "depth")

(***************************************************************************)
(* A frame the mod shows has its points in one buffer, a mask per point    *)
(* that names only the frame's sources, and geometry it can trace rays     *)
(* against (BufferDescriptor.validateAll, CharacterFrameDecoder.java).     *)
(***************************************************************************)
ShownFrameIsWhole ==
    Accepted("mod") =>
        /\ PartitionsPayload(message)
        /\ Descriptor(message, "points").length = message.header.pointCount * PointBytes
        /\ message.header.pointCount \in 1 .. MaxPoints
        /\ Has(message, "point_sources") =>
              Descriptor(message, "point_sources").length = message.header.pointCount
        /\ \A i \in DOMAIN message.header.colliders :
              LET c == message.header.colliders[i]
              IN  c.valid => SizeInRange(c.geometry.size) /\ c.geometry.vectors = "finite"

(***************************************************************************)
(* On messages with only the buffers this backend writes, in the encodings *)
(* it writes, and a point count that is the cloud's, the backend's decoder *)
(* (the one its tests use) and the mod's accept the same ones              *)
(* (character_decode.py:3-8).                                              *)
(***************************************************************************)
OurBuffers ==
    /\ \A i \in DOMAIN message.header.buffers :
          LET d == message.header.buffers[i]
          IN  \/ d.name = "points" /\ d.encoding = "xyzrgba16_le" /\ Len(d.shape) = 1
                 /\ d.shape[1] = message.header.pointCount
              \/ d.name = "point_sources" /\ d.encoding = "uint8"
    /\ message.header.quality /\ message.header.ids

DecodersAcceptAlike ==
    "mod" \in DOMAIN verdict /\ OurBuffers => (Accepted("mod") <=> Accepted("backend"))

(***************************************************************************)
(* A capture time is off by three times the uncertainty it is stamped with *)
(* at most, once a pong of the phone's present clock was accepted - however*)
(* unevenly the probes travelled, whichever samples were dropped, and      *)
(* whatever the clock was before (clock.py:57-76, 87-108).                 *)
(***************************************************************************)
OffsetWithinUncertainty ==
    heard => Apart(Median4(samples), 4 * ahead) <= 3 * Uncertainty4(samples)

=============================================================================
