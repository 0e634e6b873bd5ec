------------------------ MODULE RigCalibrationProofs ------------------------
(***************************************************************************)
(* Proofs about RigCalibration for any devices, number of observations,    *)
(* registrations, AR sessions, frames and restarts: the active rig is      *)
(* complete, is the one in the file and is not lost, and frames are        *)
(* published under it alone, with growing ids.                             *)
(*                                                                         *)
(* None of this is inductive by itself.  A rig is complete because a job   *)
(* that is validating is (JobsComplete), which holds although its state    *)
(* is set without a look at the old one, since observations are only added *)
(* while one is wanted and each brings a baseline (Based, BoardStage).  A  *)
(* frame belongs to the active rig because what waits in the pairer does   *)
(* (WaitingOfRig) and the lock keeps the rig in place from then on         *)
(* (CaptureStage).                                                         *)
(***************************************************************************)
EXTENDS RigCalibration, TLAPS

Complete(j) == \A d \in Devices : obs[j][d] = Required /\ base[j][d] # 0

JobsComplete == \A j \in Jobs : state[j] \in {"validating", "ready"} => Complete(j)

Based == \A j \in Jobs, d \in Devices : obs[j][d] # 0 => base[j][d] # 0

BoardStage ==
    /\ ingest.at \in {"record", "offer", "observe", "solve", "commit"} =>
         ingest.for # 0 /\ \A d \in Devices : ingest.from[d] # 0
    /\ At("observe") => ingest.left # {} /\ Wanted(ingest.for, Next1)

WaitingOfRig == \A d \in Devices : waiting[d] # 0 => rig # 0 /\ waiting[d] = base[rig][d]

CaptureStage ==
    ingest.at \in {"process", "encode"} =>
        /\ rig # 0 /\ ingest.for = rig /\ ~invalid
        /\ \A d \in Devices : ingest.from[d] = base[rig][d]

Numbered ==
    /\ published.id < nextId
    /\ At("encode") => published.id < nextId - 1

IInv ==
    /\ TypeOK
    /\ FileMatchesMemory
    /\ InstalledRigComplete
    /\ JobsComplete
    /\ Based
    /\ BoardStage
    /\ WaitingOfRig
    /\ CaptureStage
    /\ Numbered

\* The initial function of every job and phone.
LEMMA NothingTyped ==
  /\ Nothing \in [Devices -> 0..Required] /\ Nothing \in [Devices -> 0..MaxSession]
  /\ Free \in Ingests
BY CalibrationAssumption DEF Nothing, Free, Stages, Ingests

\* A packet that moves on stays a packet.
LEMMA StageTyped ==
  ASSUME NEW i \in Ingests, NEW stage \in Stages
  PROVE  [i EXCEPT !.at = stage] \in Ingests
BY DEF Ingests

LEMMA LeftTyped ==
  ASSUME NEW i \in Ingests, NEW d
  PROVE  [i EXCEPT !.left = @ \ {d}] \in Ingests
BY DEF Ingests

LEMMA OfferedTyped ==
  ASSUME NEW i \in Ingests, NEW stage \in Stages, NEW d
  PROVE  [i EXCEPT !.at = stage, !.left = @ \ {d}] \in Ingests
BY DEF Ingests

LEMMA NextDevice == ingest.left # {} => Next1 \in ingest.left
BY DEF Next1

LEMMA InitIInv == Init => IInv
<1> SUFFICES ASSUME Init PROVE IInv
  OBVIOUS
<1> USE CalibrationAssumption DEF Init
<1>1. TypeOK
  <2>1. PhonesTyped
    BY DEF PhonesTyped, Sessions
  <2>4. LoopTyped
    BY Zenon DEF LoopTyped
  <2>5. RigTyped
    <3>1. rig \in 0..MaxJobs /\ file \in 0..MaxJobs
      OBVIOUS
    <3>2. invalid \in BOOLEAN
      BY Zenon
    <3> QED
      BY <3>1, <3>2 DEF RigTyped
  <2>2. JobsTyped
    BY NothingTyped DEF JobsTyped
  <2>3. IngestTyped
    BY NothingTyped DEF IngestTyped
  <2> QED
    BY <2>1, <2>2, <2>3, <2>4, <2>5 DEF TypeOK
<1>2. JobsComplete /\ Based
  BY DEF JobsComplete, Based, Nothing
<1>3. BoardStage /\ WaitingOfRig /\ CaptureStage /\ Numbered
  BY DEF Nothing, Free, BoardStage, WaitingOfRig, CaptureStage, Numbered, At
<1> QED
  BY <1>1, <1>2, <1>3 DEF IInv, FileMatchesMemory, InstalledRigComplete

(***************************************************************************)
(* Requests, phones and the calibration loop touch neither observations,   *)
(* rig nor ingest, and complete no job.                                    *)
(***************************************************************************)
Aside ==
    /\ UNCHANGED <<obs, base, rigVars, ingestVars>>
    /\ \A j \in Jobs : state'[j] \in {"validating", "ready"} => state'[j] = state[j]

LEMMA AsideKeepsIInv ==
  ASSUME IInv, TypeOK', Aside
  PROVE  IInv'
<1> USE DEF Aside, rigVars, ingestVars, IInv
<1>1. FileMatchesMemory' /\ InstalledRigComplete'
  BY DEF FileMatchesMemory, InstalledRigComplete
<1>2. JobsComplete' /\ Based'
  BY DEF JobsComplete, Complete, Based
<1>3. BoardStage'
  BY DEF BoardStage, At, Wanted, Next1
<1>4. WaitingOfRig' /\ CaptureStage' /\ Numbered'
  BY DEF WaitingOfRig, CaptureStage, Numbered, At
<1> QED
  BY <1>1, <1>2, <1>3, <1>4

LEMMA RequestsKeepIInv ==
  ASSUME IInv,
         \/ \E d \in Devices : NewSession(d)
         \/ RequestRegistration \/ ClearRegistration \/ LoopStep \/ DeadlinePasses
  PROVE  IInv'
<1> USE CalibrationAssumption DEF jobVars, loopVars, rigVars, ingestVars, Failed
<1>1. CASE \E d \in Devices : NewSession(d)
  <2>1. TypeOK'
    <3>1. PhonesTyped' /\ LoopTyped'
      BY <1>1 DEF NewSession, IInv, TypeOK, PhonesTyped, LoopTyped, Sessions, Jobs
    <3>2. JobsTyped'
      BY <1>1 DEF NewSession, IInv, TypeOK, JobsTyped, Jobs
    <3>3. RigTyped' /\ IngestTyped'
      BY <1>1 DEF NewSession, IInv, TypeOK, RigTyped, IngestTyped
    <3> QED
      BY <3>1, <3>2, <3>3 DEF TypeOK
  <2>2. Aside
    BY <1>1 DEF NewSession, Aside, IInv, TypeOK, JobsTyped, Jobs
  <2> QED
    BY <2>1, <2>2, AsideKeepsIInv
<1>2. CASE RequestRegistration
  <2>1. TypeOK'
    <3>1. PhonesTyped' /\ LoopTyped'
      BY <1>2 DEF RequestRegistration, IInv, TypeOK, PhonesTyped, LoopTyped, Sessions, Jobs
    <3>2. JobsTyped'
      BY <1>2 DEF RequestRegistration, IInv, TypeOK, JobsTyped, Jobs
    <3>3. RigTyped' /\ IngestTyped'
      BY <1>2 DEF RequestRegistration, IInv, TypeOK, RigTyped, IngestTyped
    <3> QED
      BY <3>1, <3>2, <3>3 DEF TypeOK
  <2>2. Aside
    BY <1>2 DEF RequestRegistration, Aside, IInv, TypeOK, JobsTyped, Jobs
  <2> QED
    BY <2>1, <2>2, AsideKeepsIInv
<1>3. CASE ClearRegistration
  <2>1. TypeOK'
    <3>1. PhonesTyped' /\ LoopTyped'
      BY <1>3 DEF ClearRegistration, IInv, TypeOK, PhonesTyped, JobsTyped, LoopTyped, Sessions, Jobs
    <3>2. JobsTyped'
      BY <1>3 DEF ClearRegistration, IInv, TypeOK, JobsTyped, Jobs
    <3>3. RigTyped' /\ IngestTyped'
      BY <1>3 DEF ClearRegistration, IInv, TypeOK, RigTyped, IngestTyped
    <3> QED
      BY <3>1, <3>2, <3>3 DEF TypeOK
  <2>2. Aside
    BY <1>3 DEF ClearRegistration, Aside, IInv, TypeOK, JobsTyped, Jobs
  <2> QED
    BY <2>1, <2>2, AsideKeepsIInv
<1>4. CASE LoopStarts
  <2>1. TypeOK'
    <3>1. PhonesTyped' /\ LoopTyped'
      BY <1>4 DEF LoopStarts, IInv, TypeOK, PhonesTyped, LoopTyped, Sessions, Jobs
    <3>2. JobsTyped'
      BY <1>4 DEF LoopStarts, IInv, TypeOK, JobsTyped, Jobs
    <3>3. RigTyped' /\ IngestTyped'
      BY <1>4 DEF LoopStarts, IInv, TypeOK, RigTyped, IngestTyped
    <3> QED
      BY <3>1, <3>2, <3>3 DEF TypeOK
  <2>2. Aside
    BY <1>4 DEF LoopStarts, Aside, IInv, TypeOK, JobsTyped, Jobs
  <2> QED
    BY <2>1, <2>2, AsideKeepsIInv
<1>5. CASE LoopEnds
  <2>1. TypeOK'
    <3>1. PhonesTyped' /\ LoopTyped'
      BY <1>5 DEF LoopEnds, IInv, TypeOK, PhonesTyped, LoopTyped, Sessions, Jobs
    <3>2. JobsTyped'
      BY <1>5 DEF LoopEnds, IInv, TypeOK, JobsTyped, Jobs
    <3>3. RigTyped' /\ IngestTyped'
      BY <1>5 DEF LoopEnds, IInv, TypeOK, RigTyped, IngestTyped
    <3> QED
      BY <3>1, <3>2, <3>3 DEF TypeOK
  <2>2. Aside
    BY <1>5 DEF LoopEnds, Aside, IInv, TypeOK, JobsTyped, Jobs
  <2> QED
    BY <2>1, <2>2, AsideKeepsIInv
<1>6. CASE LoopCancelled
  <2>1. TypeOK'
    <3>1. PhonesTyped' /\ LoopTyped'
      BY <1>6 DEF LoopCancelled, IInv, TypeOK, PhonesTyped, LoopTyped, Sessions, Jobs
    <3>2. JobsTyped'
      BY <1>6 DEF LoopCancelled, IInv, TypeOK, JobsTyped, Jobs
    <3>3. RigTyped' /\ IngestTyped'
      BY <1>6 DEF LoopCancelled, IInv, TypeOK, RigTyped, IngestTyped
    <3> QED
      BY <3>1, <3>2, <3>3 DEF TypeOK
  <2>2. Aside
    BY <1>6 DEF LoopCancelled, Aside, IInv, TypeOK, JobsTyped, Jobs
  <2> QED
    BY <2>1, <2>2, AsideKeepsIInv
<1>7. CASE DeadlinePasses
  <2>1. TypeOK'
    <3>1. PhonesTyped' /\ LoopTyped'
      BY <1>7 DEF DeadlinePasses, IInv, TypeOK, PhonesTyped, LoopTyped, Sessions, Jobs
    <3>2. JobsTyped'
      BY <1>7 DEF DeadlinePasses, IInv, TypeOK, JobsTyped, Jobs
    <3>3. RigTyped' /\ IngestTyped'
      BY <1>7 DEF DeadlinePasses, IInv, TypeOK, RigTyped, IngestTyped
    <3> QED
      BY <3>1, <3>2, <3>3 DEF TypeOK
  <2>2. Aside
    BY <1>7 DEF DeadlinePasses, Aside, IInv, TypeOK, JobsTyped, Jobs
  <2> QED
    BY <2>1, <2>2, AsideKeepsIInv
<1> QED
  BY <1>1, <1>2, <1>3, <1>4, <1>5, <1>6, <1>7 DEF LoopStep

(***************************************************************************)
(* The stages of a board pair that neither add an observation nor install. *)
(***************************************************************************)
BoardMove ==
    /\ UNCHANGED <<obs, base, rigVars, waiting, nextId, published>>
    /\ ingest'.at \notin {"process", "encode"}
    /\ \A j \in Jobs : state'[j] \in {"validating", "ready"} => state'[j] = state[j]

LEMMA BoardMoveKeepsIInv ==
  ASSUME IInv, TypeOK', BoardStage', BoardMove
  PROVE  IInv'
<1> USE DEF BoardMove, rigVars, IInv
<1>1. FileMatchesMemory' /\ InstalledRigComplete'
  BY DEF FileMatchesMemory, InstalledRigComplete
<1>2. JobsComplete' /\ Based'
  BY DEF JobsComplete, Complete, Based
<1>3. WaitingOfRig' /\ CaptureStage' /\ Numbered'
  BY DEF WaitingOfRig, CaptureStage, Numbered, At
<1> QED
  BY <1>1, <1>2, <1>3

LEMMA BoardMovesKeepIInv ==
  ASSUME IInv, BoardPair \/ Recorded \/ OfferChecks \/ Offered \/ Solved
  PROVE  IInv'
<1> USE CalibrationAssumption DEF jobVars, loopVars, rigVars, At, Goto, Release, Failed, Skipped
<1>1. CASE BoardPair
  <2>1. TypeOK'
    <3>1. PhonesTyped' /\ LoopTyped' /\ RigTyped'
      BY <1>1 DEF BoardPair, IInv, TypeOK, PhonesTyped, LoopTyped, RigTyped
    <3>2. JobsTyped'
      BY <1>1 DEF BoardPair, IInv, TypeOK, JobsTyped, Jobs
    <3>3. IngestTyped'
      BY <1>1 DEF BoardPair, IInv, TypeOK, JobsTyped, IngestTyped, Ingests, Stages, Sessions, PhonesTyped, PairFrom
    <3> QED
      BY <3>1, <3>2, <3>3 DEF TypeOK
  <2>2. BoardStage'
    BY <1>1 DEF BoardPair, IInv, TypeOK, IngestTyped, BoardStage, Wanted, Next1, PairFrom, Free, Ingests
  <2>3. BoardMove
    BY <1>1 DEF BoardPair, BoardMove, IInv, TypeOK, JobsTyped, IngestTyped, Ingests, Jobs, Free
  <2> QED
    BY <2>1, <2>2, <2>3, BoardMoveKeepsIInv
<1>2. CASE Recorded
  <2>1. TypeOK'
    <3>1. PhonesTyped' /\ LoopTyped' /\ RigTyped'
      BY <1>2 DEF Recorded, IInv, TypeOK, PhonesTyped, LoopTyped, RigTyped
    <3>2. JobsTyped'
      BY <1>2 DEF Recorded, IInv, TypeOK, JobsTyped, Jobs
    <3>3. IngestTyped'
      BY <1>2, NothingTyped, StageTyped DEF Recorded, IInv, TypeOK, IngestTyped, Stages
    <3> QED
      BY <3>1, <3>2, <3>3 DEF TypeOK
  <2>2. BoardStage'
    BY <1>2 DEF Recorded, IInv, TypeOK, IngestTyped, BoardStage, Wanted, Next1, PairFrom, Free, Ingests
  <2>3. BoardMove
    BY <1>2 DEF Recorded, BoardMove, IInv, TypeOK, JobsTyped, IngestTyped, Ingests, Jobs, Free
  <2> QED
    BY <2>1, <2>2, <2>3, BoardMoveKeepsIInv
<1>3. CASE OfferChecks
  <2>1. TypeOK'
    <3>1. PhonesTyped' /\ LoopTyped' /\ RigTyped'
      BY <1>3 DEF OfferChecks, IInv, TypeOK, PhonesTyped, LoopTyped, RigTyped
    <3>2. JobsTyped'
      BY <1>3 DEF OfferChecks, IInv, TypeOK, JobsTyped, Jobs
    <3>3. IngestTyped'
      BY <1>3, StageTyped, LeftTyped DEF OfferChecks, IInv, TypeOK, IngestTyped, Stages
    <3> QED
      BY <3>1, <3>2, <3>3 DEF TypeOK
  <2>2. BoardStage'
    BY <1>3 DEF OfferChecks, IInv, TypeOK, IngestTyped, BoardStage, Wanted, Next1, PairFrom, Free, Ingests
  <2>3. BoardMove
    BY <1>3 DEF OfferChecks, BoardMove, IInv, TypeOK, JobsTyped, IngestTyped, Ingests, Jobs, Free
  <2> QED
    BY <2>1, <2>2, <2>3, BoardMoveKeepsIInv
<1>4. CASE Offered
  <2>1. TypeOK'
    <3>1. PhonesTyped' /\ LoopTyped' /\ RigTyped'
      BY <1>4 DEF Offered, IInv, TypeOK, PhonesTyped, LoopTyped, RigTyped
    <3>2. JobsTyped'
      BY <1>4 DEF Offered, IInv, TypeOK, JobsTyped, Jobs
    <3>3. IngestTyped'
      BY <1>4, NothingTyped, StageTyped DEF Offered, IInv, TypeOK, IngestTyped, Stages
    <3> QED
      BY <3>1, <3>2, <3>3 DEF TypeOK
  <2>2. BoardStage'
    BY <1>4 DEF Offered, IInv, TypeOK, IngestTyped, BoardStage, Wanted, Next1, PairFrom, Free, Ingests
  <2>3. BoardMove
    BY <1>4 DEF Offered, BoardMove, IInv, TypeOK, JobsTyped, IngestTyped, Ingests, Jobs, Free
  <2> QED
    BY <2>1, <2>2, <2>3, BoardMoveKeepsIInv
<1>5. CASE Solved
  <2>1. TypeOK'
    <3>1. PhonesTyped' /\ LoopTyped' /\ RigTyped'
      BY <1>5 DEF Solved, IInv, TypeOK, PhonesTyped, LoopTyped, RigTyped
    <3>2. JobsTyped'
      BY <1>5 DEF Solved, IInv, TypeOK, JobsTyped, Jobs
    <3>3. IngestTyped'
      BY <1>5, NothingTyped, StageTyped DEF Solved, IInv, TypeOK, IngestTyped, Stages
    <3> QED
      BY <3>1, <3>2, <3>3 DEF TypeOK
  <2>2. BoardStage'
    BY <1>5 DEF Solved, IInv, TypeOK, IngestTyped, BoardStage, Wanted, Next1, PairFrom, Free, Ingests
  <2>3. BoardMove
    BY <1>5 DEF Solved, BoardMove, IInv, TypeOK, JobsTyped, IngestTyped, Ingests, Jobs, Free
  <2> QED
    BY <2>1, <2>2, <2>3, BoardMoveKeepsIInv
<1> QED
  BY <1>1, <1>2, <1>3, <1>4, <1>5

(***************************************************************************)
(* An observation is one that was wanted, so its job is neither complete   *)
(* nor the active rig; it brings the baseline of its phone.                *)
(***************************************************************************)
LEMMA ObservedKeepsIInv ==
  ASSUME IInv, Observed
  PROVE  IInv'
<1> DEFINE j == ingest.for
           d == Next1
           counts == [obs[j] EXCEPT ![d] = @ + 1]
<1> USE CalibrationAssumption DEF loopVars, rigVars
<1>1. j \in Jobs /\ d \in Devices /\ obs[j][d] < Required /\ obs[j][d] \in Nat
  BY NextDevice
  DEF Observed, At, IInv, BoardStage, Wanted, TypeOK, JobsTyped, IngestTyped, Ingests, Jobs
<1>2. obs' = [obs EXCEPT ![j] = counts]
  BY DEF Observed
<1>3. base' = [base EXCEPT ![j][d] = IF @ = 0 THEN ingest.from[d] ELSE @]
  BY DEF Observed
<1>4. state' = IF Enough(counts) THEN [state EXCEPT ![j] = "validating"] ELSE state
  BY DEF Observed
<1>5. ingest' = [ingest EXCEPT !.at = "offer", !.left = @ \ {d}]
  BY DEF Observed
<1>6. UNCHANGED <<session, job, loopVars, rigVars, waiting, nextId, published, crashes, cancelled>>
  BY DEF Observed
<1>7. ingest.from[d] # 0 /\ ingest.from[d] \in 0..MaxSession /\ ingest \in Ingests /\ ingest.at = "observe"
  BY <1>1 DEF Observed, At, IInv, BoardStage, TypeOK, IngestTyped, Ingests
<1>8. /\ obs \in [Jobs -> [Devices -> 0..Required]]
      /\ base \in [Jobs -> [Devices -> 0..MaxSession]]
  BY DEF IInv, TypeOK, JobsTyped
<1> HIDE DEF j, d
<1>9. TypeOK'
  <2>1. PhonesTyped' /\ LoopTyped' /\ RigTyped'
    BY <1>6 DEF IInv, TypeOK, PhonesTyped, LoopTyped, RigTyped
  <2>2. obs' \in [Jobs -> [Devices -> 0..Required]]
    BY <1>1, <1>2, <1>8
  <2>3. base' \in [Jobs -> [Devices -> 0..MaxSession]]
    BY <1>1, <1>3, <1>7, <1>8
  <2>4. JobsTyped'
    BY <1>1, <1>4, <1>6, <2>2, <2>3 DEF IInv, TypeOK, JobsTyped
  <2>5. ingest' \in Ingests
    BY <1>5, <1>7, OfferedTyped DEF Stages
  <2>6. IngestTyped'
    BY <1>6, <2>5 DEF IInv, TypeOK, IngestTyped
  <2> QED
    BY <2>1, <2>4, <2>6 DEF TypeOK
<1>10. \A k \in Jobs \ {j} : obs'[k] = obs[k] /\ base'[k] = base[k] /\ state'[k] = state[k]
  BY <1>1, <1>2, <1>3, <1>4, <1>8 DEF IInv, TypeOK, JobsTyped
<1>11. Based'
  <2> SUFFICES ASSUME NEW k \in Jobs, NEW e \in Devices, obs'[k][e] # 0
               PROVE  base'[k][e] # 0
    BY DEF Based
  <2>1. CASE k # j
    BY <2>1, <1>10 DEF IInv, Based
  <2>2. CASE k = j /\ e # d
    BY <2>2, <1>1, <1>2, <1>3, <1>8 DEF IInv, Based
  <2>3. CASE k = j /\ e = d
    BY <2>3, <1>1, <1>3, <1>7, <1>8
  <2> QED
    BY <2>1, <2>2, <2>3
<1>12. ~Complete(j)
  BY <1>1 DEF Complete
<1>13. JobsComplete'
  <2> SUFFICES ASSUME NEW k \in Jobs, state'[k] \in {"validating", "ready"}
               PROVE  Complete(k)'
    BY DEF JobsComplete
  <2>1. CASE k # j
    BY <2>1, <1>10 DEF IInv, JobsComplete, Complete
  <2>2. CASE k = j
    <3>1. Enough(counts)
      BY <2>2, <1>4, <1>12 DEF IInv, JobsComplete
    <3>2. \A e \in Devices : obs'[k][e] = Required
      <4> TAKE e \in Devices
      <4>1. obs'[k][e] \in 0..Required
        BY <1>9 DEF TypeOK, JobsTyped
      <4>2. obs'[k][e] >= Required
        BY <2>2, <3>1, <1>1, <1>2, <1>8 DEF Enough
      <4> QED
        BY <4>1, <4>2
    <3> QED
      BY <3>2, <1>11 DEF Complete, Based
  <2> QED
    BY <2>1, <2>2
<1>14. rig # 0 => rig \in Jobs \ {j}
  BY <1>12 DEF IInv, InstalledRigComplete, Complete, TypeOK, RigTyped, Jobs
<1>15. FileMatchesMemory' /\ InstalledRigComplete'
  BY <1>6, <1>10, <1>14 DEF IInv, FileMatchesMemory, InstalledRigComplete
<1>16. BoardStage'
  BY <1>5, <1>7 DEF IInv, BoardStage, At, Ingests
<1>17. WaitingOfRig'
  BY <1>6, <1>10, <1>14 DEF IInv, WaitingOfRig
<1>18. CaptureStage' /\ Numbered'
  BY <1>5, <1>6, <1>7 DEF IInv, CaptureStage, Numbered, At, Ingests
<1> QED
  BY <1>9, <1>11, <1>13, <1>15, <1>16, <1>17, <1>18 DEF IInv

\* What Commit installs is complete, and the pairer is empty afterwards.
LEMMA CommitKeepsIInv ==
  ASSUME IInv, Commit
  PROVE  IInv'
<1> USE CalibrationAssumption DEF loopVars, rigVars, Release
<1>1. ingest.for \in Jobs /\ ingest' = Free
  BY DEF Commit, At, IInv, BoardStage, TypeOK, IngestTyped, Ingests, Jobs
<1>2. UNCHANGED <<session, job, obs, base, loopVars, published, nextId, crashes, cancelled>>
  BY DEF Commit, Installed, Swapped, NotInstalled, AssemblerKept
<1>3. CASE /\ state[ingest.for] = "validating"
           /\ Swapped(ingest.for)
  <2>1. /\ rig' = ingest.for /\ file' = ingest.for /\ invalid' = FALSE
        /\ waiting' = Nothing /\ state' = [state EXCEPT ![ingest.for] = "ready"]
    BY <1>3 DEF Swapped, PairerRebuilt
  <2>2. TypeOK'
    <3>1. PhonesTyped' /\ LoopTyped'
      BY <1>2 DEF IInv, TypeOK, PhonesTyped, LoopTyped
    <3>2. JobsTyped'
      BY <1>1, <1>2, <2>1 DEF IInv, TypeOK, JobsTyped
    <3>3. RigTyped'
      <4>1. rig' \in 0..MaxJobs /\ file' \in 0..MaxJobs
        BY <1>1, <2>1 DEF Jobs
      <4>2. invalid' \in BOOLEAN
        BY <2>1, Zenon
      <4> QED
        BY <4>1, <4>2 DEF RigTyped
    <3>4. IngestTyped'
      BY <1>1, <1>2, <2>1, NothingTyped DEF IInv, TypeOK, IngestTyped
    <3> QED
      BY <3>1, <3>2, <3>3, <3>4 DEF TypeOK
  <2>3. Complete(ingest.for)
    BY <1>1, <1>3 DEF IInv, JobsComplete
  <2>4. FileMatchesMemory' /\ InstalledRigComplete'
    BY <1>2, <2>1, <2>3 DEF FileMatchesMemory, InstalledRigComplete, Complete
  <2>5. JobsComplete' /\ Based'
    BY <1>1, <1>2, <2>1, <2>3 DEF IInv, TypeOK, JobsTyped, JobsComplete, Complete, Based
  <2>6. BoardStage' /\ WaitingOfRig' /\ CaptureStage' /\ Numbered'
    BY <1>1, <1>2, <2>1
    DEF IInv, BoardStage, WaitingOfRig, CaptureStage, Numbered, At, Free, Nothing
  <2> QED
    BY <2>2, <2>4, <2>5, <2>6 DEF IInv
<1>4. CASE NotInstalled(ingest.for)
  <2>1. /\ UNCHANGED <<rig, file, invalid, waiting>>
        /\ state' = [state EXCEPT ![ingest.for] = "failed"]
    BY <1>4 DEF NotInstalled, Failed
  <2>2. TypeOK'
    <3>1. PhonesTyped' /\ LoopTyped' /\ RigTyped'
      BY <1>2, <2>1 DEF IInv, TypeOK, PhonesTyped, LoopTyped, RigTyped
    <3>2. JobsTyped'
      BY <1>1, <1>2, <2>1 DEF IInv, TypeOK, JobsTyped
    <3>3. IngestTyped'
      BY <1>1, <1>2, <2>1, NothingTyped DEF IInv, TypeOK, IngestTyped
    <3> QED
      BY <3>1, <3>2, <3>3 DEF TypeOK
  <2>3. BoardStage'
    BY <1>1 DEF BoardStage, At, Free
  <2>4. BoardMove
    BY <1>1, <1>2, <2>1 DEF BoardMove, Free, IInv, TypeOK, JobsTyped
  <2> QED
    BY <2>2, <2>3, <2>4, BoardMoveKeepsIInv
<1> QED
  BY <1>3, <1>4 DEF Commit, Installed

(***************************************************************************)
(* Captures of the person leave jobs, rig and file alone.                  *)
(***************************************************************************)
CaptureMove == UNCHANGED <<session, jobVars, loopVars, rig, file, crashes, cancelled>>

LEMMA CaptureMoveKeepsIInv ==
  ASSUME IInv, CaptureMove, invalid' \in BOOLEAN, IngestTyped',
         BoardStage', WaitingOfRig', CaptureStage', Numbered'
  PROVE  IInv'
<1> USE DEF CaptureMove, jobVars, loopVars, IInv
<1>1. TypeOK'
  BY DEF TypeOK, PhonesTyped, JobsTyped, LoopTyped, RigTyped
<1>2. FileMatchesMemory' /\ InstalledRigComplete'
  BY DEF FileMatchesMemory, InstalledRigComplete
<1>3. JobsComplete' /\ Based'
  BY DEF JobsComplete, Complete, Based
<1> QED
  BY <1>1, <1>2, <1>3

LEMMA CaptureFrameKeepsIInv ==
  ASSUME IInv, NEW d \in Devices, NEW s \in Sessions, CaptureFrame(d, s)
  PROVE  IInv'
<1> USE CalibrationAssumption DEF CaptureFrame
<1>1. CaptureMove /\ UNCHANGED <<nextId, published>> /\ ingest.at = "free" /\ rig # 0
  BY DEF CaptureMove, At
<1>2. CASE Stale(d, s)
  <2>1. invalid' = TRUE /\ UNCHANGED <<waiting, ingest>>
    BY <1>2 DEF Ignored
  <2>2. invalid' \in BOOLEAN
    BY <2>1, Zenon
  <2>3. IngestTyped' /\ BoardStage' /\ Numbered' /\ CaptureStage'
    BY <1>1, <2>1
    DEF IInv, TypeOK, IngestTyped, BoardStage, Numbered, CaptureStage, At
  <2>4. WaitingOfRig'
    BY <1>1, <2>1 DEF IInv, WaitingOfRig, CaptureMove, jobVars
  <2> QED
    BY <1>1, <2>2, <2>3, <2>4, CaptureMoveKeepsIInv
<1>3. CASE ~Stale(d, s)
  <2>1. ~invalid /\ s = base[rig][d] /\ UNCHANGED invalid
    BY <1>3 DEF Stale
  <2>2. invalid' \in BOOLEAN
    BY <2>1 DEF IInv, TypeOK, RigTyped
  <2>3. CASE waiting' = [waiting EXCEPT ![d] = s] /\ UNCHANGED ingest
    <3>1. IngestTyped'
      BY <1>1, <2>3 DEF IInv, TypeOK, IngestTyped, Sessions
    <3>2. BoardStage' /\ Numbered' /\ CaptureStage'
      BY <1>1, <2>3 DEF BoardStage, Numbered, CaptureStage, At, IInv
    <3>3. WaitingOfRig'
      BY <1>1, <2>1, <2>3
      DEF IInv, TypeOK, IngestTyped, WaitingOfRig, CaptureMove, jobVars
    <3> QED
      BY <1>1, <2>2, <3>1, <3>2, <3>3, CaptureMoveKeepsIInv
  <2>4. CASE /\ \A e \in Devices \ {d} : waiting[e] # 0
             /\ ingest' = [at |-> "process", for |-> rig, left |-> {},
                           from |-> [waiting EXCEPT ![d] = s]]
             /\ waiting' = Nothing
    <3>1. [waiting EXCEPT ![d] = s] \in [Devices -> 0..MaxSession]
      BY DEF IInv, TypeOK, IngestTyped, Sessions
    <3>2. ingest' \in Ingests
      BY <2>4, <3>1 DEF Ingests, Stages, IInv, TypeOK, RigTyped
    <3>3. IngestTyped'
      BY <1>1, <2>4, <3>2, NothingTyped DEF IInv, TypeOK, IngestTyped
    <3>4. BoardStage' /\ Numbered' /\ WaitingOfRig'
      BY <1>1, <2>4 DEF BoardStage, Numbered, WaitingOfRig, Nothing, At, IInv
    <3>5. CaptureStage'
      BY <1>1, <2>1, <2>4
      DEF CaptureStage, CaptureMove, jobVars, IInv, WaitingOfRig, TypeOK, IngestTyped
    <3> QED
      BY <1>1, <2>2, <3>3, <3>4, <3>5, CaptureMoveKeepsIInv
  <2> QED
    BY <1>3, <2>3, <2>4
<1> QED
  BY <1>2, <1>3

LEMMA CapturesKeepIInv ==
  ASSUME IInv, PhoneMoved \/ Processed \/ Encoded
  PROVE  IInv'
<1> USE CalibrationAssumption DEF At, Goto, Release, loopVars, rigVars, ingestVars
<1>1. CASE PhoneMoved
  <2>1. invalid' = TRUE
    BY <1>1 DEF PhoneMoved
  <2>2. invalid' \in BOOLEAN
    BY <2>1, Zenon
  <2>3. CaptureMove /\ IngestTyped'
    BY <1>1 DEF PhoneMoved, CaptureMove, IInv, TypeOK, IngestTyped
  <2>4. BoardStage' /\ WaitingOfRig' /\ CaptureStage' /\ Numbered'
    BY <1>1
    DEF PhoneMoved, jobVars, IInv, BoardStage, Wanted, Next1, WaitingOfRig, CaptureStage, Numbered
  <2> QED
    BY <2>2, <2>3, <2>4, CaptureMoveKeepsIInv
<1>2. CASE Processed
  <2>1. CaptureMove /\ invalid' \in BOOLEAN
    BY <1>2 DEF Processed, CaptureMove, IInv, TypeOK, RigTyped
  <2>2. IngestTyped'
    <3>1. ingest' \in Ingests
      BY <1>2, NothingTyped, StageTyped DEF Processed, IInv, TypeOK, IngestTyped, Stages
    <3>2. nextId' \in 1..MaxFrames /\ UNCHANGED <<waiting, published>>
      BY <1>2 DEF Processed, IInv, TypeOK, IngestTyped
    <3> QED
      BY <3>1, <3>2 DEF IInv, TypeOK, IngestTyped
  <2>3. BoardStage' /\ WaitingOfRig'
    BY <1>2 DEF Processed, jobVars, IInv, BoardStage, WaitingOfRig, Free, TypeOK, IngestTyped, Ingests
  <2>4. CaptureStage' /\ Numbered'
    BY <1>2
    DEF Processed, jobVars, IInv, CaptureStage, Numbered, Free, TypeOK, IngestTyped, Ingests
  <2> QED
    BY <2>1, <2>2, <2>3, <2>4, CaptureMoveKeepsIInv
<1>3. CASE Encoded
  <2>1. CaptureMove /\ invalid' \in BOOLEAN
    BY <1>3 DEF Encoded, CaptureMove, IInv, TypeOK, RigTyped
  <2>2. IngestTyped'
    BY <1>3, NothingTyped DEF Encoded, IInv, TypeOK, IngestTyped, Ingests
  <2>3. BoardStage' /\ WaitingOfRig' /\ CaptureStage'
    BY <1>3 DEF Encoded, jobVars, IInv, BoardStage, WaitingOfRig, CaptureStage, Free
  <2>4. Numbered'
    BY <1>3 DEF Encoded, IInv, Numbered, Free, TypeOK, IngestTyped
  <2> QED
    BY <2>1, <2>2, <2>3, <2>4, CaptureMoveKeepsIInv
<1> QED
  BY <1>1, <1>2, <1>3

\* A restart finds the active rig in the file.
LEMMA CrashKeepsIInv ==
  ASSUME IInv, Crash
  PROVE  IInv'
<1> USE CalibrationAssumption DEF Crash
<1>1. rig' = rig /\ file' = file /\ invalid' = FALSE
  BY DEF IInv, FileMatchesMemory
<1>2. TypeOK'
  <2>1. PhonesTyped'
    BY DEF IInv, TypeOK, PhonesTyped
  <2>2. JobsTyped'
    BY DEF IInv, TypeOK, JobsTyped
  <2>3. LoopTyped'
    BY Zenon DEF LoopTyped
  <2>4. RigTyped'
    <3>1. rig' \in 0..MaxJobs /\ file' \in 0..MaxJobs
      BY <1>1 DEF IInv, TypeOK, RigTyped
    <3>2. invalid' \in BOOLEAN
      BY <1>1, Zenon
    <3> QED
      BY <3>1, <3>2 DEF RigTyped
  <2>5. IngestTyped'
    BY NothingTyped DEF IngestTyped
  <2> QED
    BY <2>1, <2>2, <2>3, <2>4, <2>5 DEF TypeOK
<1>3. FileMatchesMemory' /\ InstalledRigComplete'
  BY <1>1 DEF IInv, FileMatchesMemory, InstalledRigComplete
<1>4. JobsComplete' /\ Based'
  BY DEF IInv, JobsComplete, Complete, Based
<1>5. BoardStage' /\ WaitingOfRig' /\ CaptureStage' /\ Numbered'
  BY DEF BoardStage, WaitingOfRig, CaptureStage, Numbered, Free, Nothing, At
<1> QED
  BY <1>2, <1>3, <1>4, <1>5 DEF IInv

LEMMA StutterKeepsIInv ==
  ASSUME IInv, UNCHANGED vars
  PROVE  IInv'
<1>1. TypeOK'
  BY DEF vars, jobVars, loopVars, rigVars, ingestVars, IInv, TypeOK, PhonesTyped, JobsTyped,
         LoopTyped, RigTyped, IngestTyped
<1>2. Aside
  BY DEF vars, jobVars, Aside
<1> QED
  BY <1>1, <1>2, AsideKeepsIInv

LEMMA NextKeepsIInv == IInv /\ [Next]_vars => IInv'
BY RequestsKeepIInv, BoardMovesKeepIInv, ObservedKeepsIInv, CommitKeepsIInv,
   CaptureFrameKeepsIInv, CapturesKeepIInv, CrashKeepsIInv, StutterKeepsIInv
DEF Next, IngestStep

LEMMA Invariance == Spec => []IInv
BY InitIInv, NextKeepsIInv, PTL DEF Spec

-----------------------------------------------------------------------------
\* Every reachable state is well typed; no session counts an observation too many.
THEOREM TypeCorrect == Spec => []TypeOK
<1>1. IInv => TypeOK
  BY DEF IInv
<1> QED
  BY <1>1, Invariance, PTL

\* A restart always loads the rig that is active (save_rig_calibration, build_runtime).
THEOREM RestartKeepsRig == Spec => []FileMatchesMemory
<1>1. IInv => FileMatchesMemory
  BY DEF IInv
<1> QED
  BY <1>1, Invariance, PTL

\* The active rig rests on the required observations of every phone, each with the
\* baseline of one AR session (BoardCalibrationSession.offer).
THEOREM RigComplete == Spec => []InstalledRigComplete
<1>1. IInv => InstalledRigComplete
  BY DEF IInv
<1> QED
  BY <1>1, Invariance, PTL

\* No failure, cancellation, timeout or restart takes the rig away.
THEOREM RigSurvives == Spec => FailuresKeepRig
<1>1. IInv /\ [Next]_vars => [rig # 0 => rig' # 0]_vars
  <2> SUFFICES ASSUME IInv, [Next]_vars, rig # 0
               PROVE  rig' # 0
    BY DEF vars
  <2>1. CASE Commit
    BY <2>1 DEF Commit, Installed, Swapped, NotInstalled, rigVars, IInv, BoardStage, At
  <2>2. CASE Crash
    BY <2>2 DEF Crash, IInv, FileMatchesMemory
  <2>3. CASE ~Commit /\ ~Crash
    BY <2>3
    DEF Next, vars, rigVars, IngestStep, LoopStep, NewSession, RequestRegistration,
        ClearRegistration, LoopStarts, LoopEnds, LoopCancelled, DeadlinePasses, BoardPair,
        Recorded, OfferChecks, Observed, Offered, Solved, CaptureFrame, PhoneMoved, Processed,
        Encoded
  <2> QED
    BY <2>1, <2>2, <2>3
<1> QED
  BY <1>1, Invariance, PTL DEF Spec, FailuresKeepRig

\* Apart from a restart only Encoded publishes.
LEMMA OnlyEncodedPublishes ==
  ASSUME [Next]_vars, published' # published, crashes' = crashes, crashes \in Nat
  PROVE  Encoded
<1>1. ~Crash
  BY DEF Crash
<1> QED
  BY <1>1
  DEF Next, vars, ingestVars, IngestStep, LoopStep, NewSession, RequestRegistration,
      ClearRegistration, LoopStarts, LoopEnds, LoopCancelled, DeadlinePasses, BoardPair,
      Recorded, OfferChecks, Observed, Offered, Solved, Commit, CaptureFrame, PhoneMoved, Processed

\* A frame is published under the rig that is active and valid, of halves captured in
\* the AR sessions that rig was calibrated in (_handle_rgbd_locked).
THEOREM PublishesUnderActiveRig == Spec => PublishedUnderActiveRig
<1> DEFINE Under ==
      published' # published /\ crashes' = crashes =>
        /\ published'.rig = rig /\ ~invalid
        /\ \A d \in Devices : published'.from[d] = base[rig][d]
<1>1. IInv /\ [Next]_vars => [Under]_vars
  <2> SUFFICES ASSUME IInv, [Next]_vars, published' # published, crashes' = crashes
               PROVE  Under
    BY DEF vars
  <2>1. Encoded
    BY OnlyEncodedPublishes, CalibrationAssumption DEF IInv, TypeOK, PhonesTyped
  <2> QED
    BY <2>1 DEF Encoded, At, IInv, CaptureStage
<1>2. Spec => [][Under]_vars
  BY <1>1, Invariance, PTL DEF Spec
<1> QED
  BY <1>2 DEF PublishedUnderActiveRig

\* Between restarts frame ids only grow (FrameAssembler, kept over a change of rig).
THEOREM IdsGrow == Spec => FrameIdsGrow
<1> DEFINE Grows == published' # published /\ crashes' = crashes => published'.id > published.id
<1>1. IInv /\ [Next]_vars => [Grows]_vars
  <2> SUFFICES ASSUME IInv, [Next]_vars, published' # published, crashes' = crashes
               PROVE  published'.id > published.id
    BY DEF vars
  <2>1. Encoded
    BY OnlyEncodedPublishes, CalibrationAssumption DEF IInv, TypeOK, PhonesTyped
  <2> QED
    BY <2>1 DEF Encoded, At, IInv, Numbered, TypeOK, IngestTyped
<1>2. Spec => [][Grows]_vars
  BY <1>1, Invariance, PTL DEF Spec
<1> QED
  BY <1>2 DEF FrameIdsGrow

=============================================================================
