----------------------------- MODULE SubmitterProofs -----------------------------
(***************************************************************************)
(* Proofs about what runs on the submitting machine: the submissions with  *)
(* their cache and uploads, and the thread that pushes the store to a      *)
(* binary cache; for every number of edits, submissions and mishaps.       *)
(***************************************************************************)
EXTENDS Submit, CachixUploader, TLAPS

-------------------------------------------------------------------------------
\* The uploader.

\* During a round, what is seen and not pushed is still to be pushed.
SeenIsPending ==
  /\ round \in {"list", "sleep"} => noticed \ Unpushable \subseteq uploaded \cup abandoned
  /\ round = "push" => noticed \ Unpushable \subseteq uploaded \cup abandoned \cup queue \cup inHand

LEMMA UploaderKeeps ==
  ASSUME SeenIsPending, [UploaderNext]_uploaderVars
  PROVE  SeenIsPending'
<1> USE DEF SeenIsPending
<1>1. CASE UNCHANGED uploaderVars
  BY <1>1 DEF uploaderVars
<1>2. CASE ListPaths
  BY <1>2 DEF ListPaths
<1>3. CASE TakePath
  BY <1>3 DEF TakePath
<1>4. CASE PushPath
  <2>1. \/ uploaded' = uploaded \cup inHand /\ inHand' = {} /\ abandoned' = abandoned
        \/ abandoned' = abandoned \cup inHand /\ inHand' = {} /\ uploaded' = uploaded
        \/ UNCHANGED <<uploaded, abandoned, inHand>>
    BY <1>4 DEF PushPath
  <2> QED BY <1>4, <2>1 DEF PushPath
<1>5. CASE Pause
  BY <1>5 DEF Pause
<1>6. CASE Wake
  BY <1>6 DEF Wake
<1>7. CASE Realise \/ StopUploader
  BY <1>7 DEF Realise, StopUploader
<1> QED BY <1>1, <1>2, <1>3, <1>4, <1>5, <1>6, <1>7 DEF UploaderNext, UploaderStep

\* A push in hand has an attempt left.
UploaderSteady == inHand # {} => attempt < MaxRetries

\* Every step keeps the types.
LEMMA UploaderTyped ==
  ASSUME UploaderTypeOK, UploaderSteady, [UploaderNext]_uploaderVars
  PROVE  UploaderTypeOK' /\ UploaderSteady'
<1> USE UploaderAssumption DEF UploaderTypeOK, UploaderSteady, Trouble
<1>1. CASE UNCHANGED uploaderVars
  BY <1>1 DEF uploaderVars
<1>2. CASE ListPaths
  BY <1>2 DEF ListPaths
<1>3. CASE TakePath
  BY <1>3 DEF TakePath
<1>4. CASE PushPath
  <2>1. inHand # {} /\ attempt \in 0..(MaxRetries - 1) /\ UNCHANGED <<valid, noticed, queue, round, stopSet>>
    BY <1>4 DEF PushPath
  <2>2. CASE uploaded' = uploaded \cup inHand /\ inHand' = {} /\ UNCHANGED <<attempt, abandoned, trouble>>
    BY <2>1, <2>2
  <2>3. CASE /\ trouble < MaxTrouble /\ trouble' = trouble + 1 /\ UNCHANGED uploaded
             /\ attempt' = attempt + 1 \/ (attempt = 0 /\ attempt' = MaxRetries)
             /\ IF attempt' = MaxRetries THEN inHand' = {} /\ abandoned' = abandoned \cup inHand
                ELSE UNCHANGED <<inHand, abandoned>>
    <3>1. attempt' \in 0..MaxRetries /\ trouble' \in 0..MaxTrouble
      BY <2>1, <2>3
    <3>2. /\ inHand' # {} => attempt' # MaxRetries
          /\ {uploaded', inHand', abandoned'} \subseteq SUBSET Path
      BY <2>3
    <3> QED BY <2>1, <3>1, <3>2
  <2> QED BY <1>4, <2>2, <2>3 DEF PushPath
<1>5. CASE Pause
  BY <1>5 DEF Pause
<1>6. CASE Wake
  BY <1>6 DEF Wake
<1>7. CASE Realise
  <2>1. valid' \subseteq Path
    BY <1>7 DEF Realise
  <2> QED BY <1>7, <2>1 DEF Realise
<1>8. CASE StopUploader
  BY <1>8 DEF StopUploader
<1> HIDE DEF UploaderTypeOK, UploaderSteady
<1> QED BY <1>1, <1>2, <1>3, <1>4, <1>5, <1>6, <1>7, <1>8 DEF UploaderNext, UploaderStep

(* The paths the uploader knows of are store paths, and it makes no more   *)
(* attempts to push one than it is allowed.                                *)
THEOREM UploaderTypeCorrect == UploaderSpec => []UploaderTypeOK
<1>1. UploaderInit => UploaderTypeOK
  <2> SUFFICES ASSUME UploaderInit PROVE UploaderTypeOK
    OBVIOUS
  <2>1. {valid, noticed, queue, uploaded, abandoned, inHand} \subseteq SUBSET Path
    BY DEF UploaderInit
  <2>2. attempt \in 0..MaxRetries /\ trouble \in 0..MaxTrouble
    BY UploaderAssumption DEF UploaderInit
  <2> QED BY <2>1, <2>2 DEF UploaderInit, UploaderTypeOK
<1>2. UploaderTypeOK /\ UploaderSteady /\ [UploaderNext]_uploaderVars => (UploaderTypeOK /\ UploaderSteady)'
  BY UploaderTyped
<1>3. UploaderInit => UploaderSteady
  BY UploaderAssumption DEF UploaderInit, UploaderSteady
<1> QED BY <1>1, <1>2, <1>3, PTL DEF UploaderSpec

(* Between two rounds, whatever counts as seen was pushed or given up.     *)
THEOREM NothingForgotten == UploaderSpec => []SeenIsUploaded
<1>1. UploaderInit => SeenIsPending
  BY DEF UploaderInit, SeenIsPending
<1>2. SeenIsPending => SeenIsUploaded
  BY DEF SeenIsPending, SeenIsUploaded
<1> QED BY <1>1, <1>2, UploaderKeeps, PTL DEF UploaderSpec

-------------------------------------------------------------------------------
\* Submissions: types.

USE SubmitAssumption
USE DEF checkoutVars, cacheVars, resultVars, uploadVars, gatewayVars, ownVars, submitVars, Fine, Mishap

LEMMA RequestArchs == ASSUME SubmitTypeOK PROVE request.archs \subseteq Arch /\ request.sample \in {0, 1}
  BY DEF SubmitTypeOK, NoRequest

\* The initial states are typed.
LEMMA SubmitTypedInit == SubmitInit => SubmitTypeOK
<1> SUFFICES ASSUME SubmitInit PROVE SubmitTypeOK
  OBVIOUS
<1>1. None \in ToolchainKeys
  BY DEF None, ToolchainKeys
<1>2. remote \in [RemoteArchive -> Contents] /\ checksum \in [RemoteArchive -> Contents]
  BY <1>1 DEF SubmitInit, Contents
<1>3. mishaps \in 0..MaxMishap /\ submissions \in 0..MaxSubmission /\ tree \in 0..MaxEdit /\ keyed \in 0..MaxEdit
  BY DEF SubmitInit
<1>4. meddled \in BOOLEAN /\ sending \in RemoteArchive
  BY DEF SubmitInit, RemoteArchive
<1>5. request = NoRequest /\ stage = "idle" /\ todo = {} /\ outpaths = {} /\ alive = {} /\ realised = {}
  BY DEF SubmitInit
<1>6. cachedT = {} /\ cachedV = {} /\ toolchains = None
  BY DEF SubmitInit
<1> QED BY <1>1, <1>2, <1>3, <1>4, <1>5, <1>6 DEF SubmitTypeOK

\* Every step keeps the types.
LEMMA SubmitTyped ==
  ASSUME SubmitTypeOK, [SubmitNext]_submitVars
  PROVE  SubmitTypeOK'
<1> USE RequestArchs DEF SubmitTypeOK, Step, Abort, ToolchainKeys
<1>1. CASE UNCHANGED submitVars
  BY <1>1
<1>2. CASE Edit \/ CollectGarbage \/ ClearCache
  <2>1. CASE Edit
    <3>1. meddled' \in BOOLEAN
      BY <2>1, Zenon DEF Edit
    <3>2. tree' \in 0..MaxEdit
      BY <2>1 DEF Edit
    <3> QED BY <2>1, <3>1, <3>2 DEF Edit
  <2>2. CASE CollectGarbage
    BY <2>2 DEF CollectGarbage
  <2>3. CASE ClearCache
    BY <2>3 DEF ClearCache
  <2> QED BY <1>2, <2>1, <2>2, <2>3
<1>3. CASE Begin
  BY <1>3 DEF Begin, None
<1>4. CASE ReuseToolchains
  BY <1>4 DEF ReuseToolchains, Usable, Lookup
<1>5. CASE EnumerateToolchains
  <2>1. toolchains' \in ToolchainKeys /\ mishaps' \in 0..MaxMishap
    BY <1>5 DEF EnumerateToolchains, Evaluated
  <2>2. ToolchainKey(keyed, request) \in ToolchainKeys
    BY DEF ToolchainKey
  <2>3. \A e \in cachedT' : e.key \in ToolchainKeys /\ e.value \in ToolchainKeys
    BY <1>5, <2>1, <2>2 DEF EnumerateToolchains, Stored, Discarded
  <2> QED BY <1>5, <2>1, <2>3 DEF EnumerateToolchains
<1>6. CASE ReuseVariants
  BY <1>6 DEF ReuseVariants
<1>7. CASE EnumerateVariants
  <2>1. VariantKey(tree, request) \in VariantKeys /\ VariantKey(keyed, request) \in VariantKeys
    BY DEF VariantKey, VariantKeys
  <2>2. \A e \in cachedV' : e.key \in VariantKeys /\ e.value \in VariantKeys
    BY <1>7, <2>1 DEF EnumerateVariants, Stored
  <2> QED BY <1>7, <2>2 DEF EnumerateVariants
<1>8. CASE CheckToolchains \/ Prepare
  BY <1>8 DEF CheckToolchains, Prepare, MissingLocally
<1>9. CASE UploadDerivations \/ ExportSplit
  <2>1. CASE UploadDerivations
    <3>1. remote \in [RemoteArchive -> Contents] /\ toolchains \in Contents /\ "drvs" \in RemoteArchive
      BY DEF RemoteArchive, Contents
    <3>2. remote' \in {remote, [remote EXCEPT !["drvs"] = toolchains]}
      BY <2>1 DEF UploadDerivations
    <3>3. remote' \in [RemoteArchive -> Contents]
      BY ONLY <3>1, <3>2
    <3> QED BY <2>1, <3>3 DEF UploadDerivations
  <2>2. CASE ExportSplit
    BY <2>2 DEF ExportSplit, RemoteArchive
  <2> QED BY <1>9, <2>1, <2>2
<1>10. CASE SkipArchive \/ UploadArchive \/ UploadSidecar
  BY <1>10 DEF SkipArchive, UploadArchive, UploadSidecar, Contents
<1>11. CASE Dispatch \/ RunEnds
  BY <1>11 DEF Dispatch, RunEnds
<1>12. CASE SubmissionFails
  BY <1>12 DEF SubmissionFails, Contents, Cut
<1> QED BY <1>1, <1>2, <1>3, <1>4, <1>5, <1>6, <1>7, <1>8, <1>9, <1>10, <1>11, <1>12 DEF SubmitNext

(* The types of a submission, of the cache that outlives it and of the     *)
(* archives on the gateway: toolchain results are of the checkout's states *)
(* and of known architectures, and an archive holds one of them, or is cut *)
(* off.                                                                    *)
THEOREM SubmitTypeCorrect == SubmitSpec => []SubmitTypeOK
<1> QED BY SubmitTypedInit, SubmitTyped, PTL DEF SubmitSpec

-------------------------------------------------------------------------------
\* Submissions: results and archives.

\* What the cache holds was computed from what its key says, or from less.
HonestCache ==
  /\ ~meddled => \A e \in cachedT : e.value.tree = e.key.tree /\ e.value.archs \subseteq e.key.archs
  /\ ~meddled => \A e \in cachedV : e.value = e.key
  /\ ~meddled /\ mishaps = 0 => \A e \in cachedT : e.value = e.key

KeyedInTime == stage \in {"toolchains", "variants"} /\ ~meddled => tree = keyed

ResultsFit ==
  /\ stage \notin {"idle", "toolchains"} /\ ~meddled =>
       toolchains.tree = keyed /\ toolchains.archs \subseteq request.archs
  /\ stage \notin {"idle", "toolchains"} /\ ~meddled /\ mishaps = 0 =>
       toolchains = ToolchainKey(keyed, request)
  /\ stage \notin {"idle", "toolchains", "variants"} /\ ~meddled =>
       variants = VariantKey(keyed, request)

\* The closure archives of the gateway.
Splits == {"common"} \cup Arch

\* The toolchain derivations are those of this submission.
DerivationsSent ==
  /\ todo \subseteq Splits
  /\ stage \in {"split", "upload", "sidecar", "dispatched"} /\ request.dedup => remote["drvs"] = toolchains

\* Without mishaps a sidecar names what its archive holds, once it is written.
SidecarsAgree == mishaps = 0 => \A a \in Splits :
  checksum[a] = remote[a] \/ (stage = "sidecar" /\ sending = a)

\* Without mishaps what is not left to upload has been uploaded.
ArchivesSent == mishaps = 0 =>
  /\ stage \in {"prepare", "drvs", "split"} => toolchains.archs # {} /\ toolchains.archs \subseteq realised
  /\ stage \in {"drvs", "split"} => outpaths = toolchains.archs
  /\ stage \in {"upload", "sidecar", "dispatched"} /\ request.dedup =>
       \A a \in ({"common"} \cup toolchains.archs) \ todo : remote[a] = toolchains
  /\ stage = "sidecar" => remote[sending] = toolchains
  /\ stage = "dispatched" => todo = {}

SubmitInv ==
  HonestCache /\ KeyedInTime /\ ResultsFit /\ DerivationsSent /\ SidecarsAgree /\ ArchivesSent

LEMMA ResultStep ==
  ASSUME SubmitTypeOK, SubmitInv, [SubmitNext]_submitVars
  PROVE  HonestCache' /\ KeyedInTime' /\ ResultsFit'
<1> USE DEF SubmitTypeOK, SubmitInv, HonestCache, KeyedInTime, ResultsFit, Step, Abort
<1>1. CASE UNCHANGED submitVars
  BY <1>1
<1>2. CASE Edit \/ CollectGarbage \/ ClearCache
  <2>1. CASE Edit
    <3>1. ~meddled' => ~meddled /\ stage \notin {"toolchains", "variants"}
      BY <2>1, Zenon DEF Edit
    <3>2. UNCHANGED <<cachedT, cachedV, mishaps, stage, keyed, toolchains, variants, request>>
      BY <2>1 DEF Edit
    <3> QED BY <3>1, <3>2 DEF ToolchainKey, VariantKey
  <2>2. CASE CollectGarbage
    BY <2>2 DEF CollectGarbage
  <2>3. CASE ClearCache
    BY <2>3 DEF ClearCache
  <2> QED BY <1>2, <2>1, <2>2, <2>3
<1>3. CASE Begin
  BY <1>3 DEF Begin
<1>4. CASE ReuseToolchains
  BY <1>4 DEF ReuseToolchains, Usable, Lookup, ToolchainKey
<1>5. CASE EnumerateToolchains
  <2> DEFINE k == ToolchainKey(keyed, request)
  <2>1. /\ tree = keyed \/ meddled
        /\ toolchains'.tree = tree /\ toolchains'.archs \subseteq request.archs
        /\ mishaps' = 0 => mishaps = 0 /\ toolchains' = [tree |-> tree, archs |-> request.archs]
    BY <1>5 DEF EnumerateToolchains, Evaluated
  <2>2. \A e \in cachedT' : e \in cachedT \/ e = [key |-> k, value |-> toolchains']
    BY <1>5 DEF EnumerateToolchains, Stored, Discarded
  <2>3. UNCHANGED <<meddled, cachedV, keyed, request, tree>> /\ stage' = "variants"
    BY <1>5 DEF EnumerateToolchains
  <2> QED BY <2>1, <2>2, <2>3 DEF ToolchainKey
<1>6. CASE ReuseVariants
  BY <1>6 DEF ReuseVariants, Lookup
<1>7. CASE EnumerateVariants
  <2>1. tree = keyed \/ meddled
    BY <1>7 DEF EnumerateVariants
  <2>2. \A e \in cachedV' : e \in cachedV \/ e = [key |-> VariantKey(keyed, request), value |-> variants']
    BY <1>7 DEF EnumerateVariants, Stored
  <2> QED BY <1>7, <2>1, <2>2 DEF EnumerateVariants
<1>8. CASE CheckToolchains \/ Prepare \/ UploadDerivations \/ ExportSplit
  BY <1>8 DEF CheckToolchains, Prepare, UploadDerivations, ExportSplit
<1>9. CASE SkipArchive \/ UploadArchive \/ UploadSidecar \/ Dispatch \/ RunEnds
  BY <1>9 DEF SkipArchive, UploadArchive, UploadSidecar, Dispatch, RunEnds
<1>10. CASE SubmissionFails
  BY <1>10 DEF SubmissionFails
<1> QED BY <1>1, <1>2, <1>3, <1>4, <1>5, <1>6, <1>7, <1>8, <1>9, <1>10 DEF SubmitNext

LEMMA ArchiveStep ==
  ASSUME SubmitTypeOK, SubmitInv, [SubmitNext]_submitVars
  PROVE  DerivationsSent' /\ SidecarsAgree' /\ ArchivesSent'
<1> USE DEF SubmitTypeOK, SubmitInv, DerivationsSent, SidecarsAgree, ArchivesSent, Step, Abort, Splits, RemoteArchive
<1>1. CASE UNCHANGED submitVars
  BY <1>1
<1>2. CASE Edit \/ CollectGarbage \/ ClearCache
  <2>1. CASE Edit
    BY <2>1 DEF Edit
  <2>2. CASE CollectGarbage
    BY <2>2 DEF CollectGarbage
  <2>3. CASE ClearCache
    BY <2>3 DEF ClearCache
  <2> QED BY <1>2, <2>1, <2>2, <2>3
<1>3. CASE Begin
  BY <1>3 DEF Begin
<1>4. CASE ReuseToolchains \/ EnumerateToolchains
  <2>1. mishaps' = 0 => mishaps = 0
    BY <1>4 DEF ReuseToolchains, EnumerateToolchains, Evaluated
  <2>2. stage = "toolchains" /\ stage' = "variants" /\ UNCHANGED <<todo, sending, remote, checksum>>
    BY <1>4 DEF ReuseToolchains, EnumerateToolchains
  <2> QED BY <2>1, <2>2
<1>5. CASE ReuseVariants \/ EnumerateVariants
  BY <1>5 DEF ReuseVariants, EnumerateVariants
<1>6. CASE CheckToolchains
  BY <1>6 DEF CheckToolchains, MissingLocally
<1>7. CASE Prepare
  BY <1>7 DEF Prepare
<1>8. CASE UploadDerivations
  BY <1>8 DEF UploadDerivations
<1>9. CASE ExportSplit
  BY <1>9, ZenonT(60) DEF ExportSplit, ToolchainKeys
<1>10. CASE SkipArchive
  BY <1>10 DEF SkipArchive, ChecksumMatches
<1>11. CASE UploadArchive
  BY <1>11 DEF UploadArchive
<1>12. CASE UploadSidecar
  BY <1>12 DEF UploadSidecar
<1>13. CASE Dispatch \/ RunEnds
  BY <1>13 DEF Dispatch, RunEnds
<1>14. CASE SubmissionFails
  BY <1>14 DEF SubmissionFails
<1> QED BY <1>1, <1>2, <1>3, <1>4, <1>5, <1>6, <1>7, <1>8, <1>9, <1>10, <1>11, <1>12, <1>13, <1>14 DEF SubmitNext

(* A dispatched run works with results for its checkout and arguments, and *)
(* with archives written for them, but for the excepted edits and mishaps, *)
(* whatever earlier submissions left in the cache and on the gateway.      *)
THEOREM DispatchedIsFresh == SubmitSpec => []DispatchIsFresh
<1>1. SubmitInit => SubmitTypeOK /\ SubmitInv
  <2> SUFFICES ASSUME SubmitInit PROVE SubmitInv
    BY SubmitTypedInit
  <2> QED BY DEF SubmitInit, SubmitInv, HonestCache, KeyedInTime, ResultsFit, DerivationsSent,
       SidecarsAgree, ArchivesSent, Splits, RemoteArchive
<1>2. SubmitTypeOK /\ SubmitInv /\ [SubmitNext]_submitVars => (SubmitTypeOK /\ SubmitInv)'
  BY SubmitTyped, ResultStep, ArchiveStep DEF SubmitInv
<1>3. SubmitTypeOK /\ SubmitInv => DispatchIsFresh
  BY DEF SubmitInv, ResultsFit, DerivationsSent, ArchivesSent, DispatchIsFresh, ToolchainKey
<1> QED BY <1>1, <1>2, <1>3, PTL DEF SubmitSpec
=============================================================================
