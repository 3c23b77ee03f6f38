--------------------------------- MODULE Submit ---------------------------------
(***************************************************************************)
(* cli.cmd_submit: one submission after the other from one checkout, with  *)
(* the cache of enumeration results on the submitter's disk and the        *)
(* toolchain archives on the gateway, which outlive them.                  *)
(*                                                                         *)
(* A result is represented by what it was computed from: the state of the  *)
(* checkout and the arguments it depends on.  The cache is honest if an    *)
(* entry was computed from what its key says.                              *)
(***************************************************************************)
EXTENDS Integers, FiniteSets

CONSTANTS
  Arch,          \* the architectures; each has one toolchain here
  Requests,      \* the command lines
  MaxEdit,       \* bound: edits of the checkout
  MaxSubmission, \* bound: submissions
  MaxMishap      \* bound: failing tools and transfers, crashes, collected garbage

ASSUME SubmitAssumption ==
  /\ {MaxEdit, MaxSubmission, MaxMishap} \subseteq Nat
  /\ Arch \cap {"drvs", "common"} = {}
  /\ Requests \subseteq [archs : (SUBSET Arch) \ {{}}, sample : {0, 1}, build : BOOLEAN,
                          cache : BOOLEAN, dedup : BOOLEAN]

VARIABLES
  tree,        \* the contents of the checkout
  cachedT,     \* the toolchain entries of the cache: key and result
  cachedV,     \* the variant entries
  alive,       \* the toolchain results whose derivations are in the local store
  realised,    \* the toolchains that are built in the local store
  remote,      \* remote[a]: the archive on the gateway
  checksum,    \* checksum[a]: the contents its sidecar names
  stage,       \* the step of cmd_submit that comes next, or "idle"
  request,     \* the arguments of the submission
  keyed,       \* the checkout as it was when the keys were made
  toolchains, variants, \* the results this submission works with
  outpaths,    \* the toolchains whose output paths it knows
  todo,        \* the archives it has not uploaded yet
  sending,     \* the one whose sidecar comes next
  submissions, mishaps, meddled

checkoutVars == <<tree, alive, realised>>
cacheVars == <<cachedT, cachedV>>
resultVars == <<toolchains, variants, outpaths>>
uploadVars == <<todo, sending>>
gatewayVars == <<remote, checksum>>
ownVars == <<stage, request, keyed, resultVars, uploadVars, submissions>>
submitVars == <<checkoutVars, cacheVars, gatewayVars, ownVars, mishaps, meddled>>

NoRequest == [archs |-> {}, sample |-> 0, build |-> FALSE, cache |-> FALSE, dedup |-> FALSE]

ToolchainKey(t, r) == [tree |-> t, archs |-> r.archs]
VariantKey(t, r) == [tree |-> t, archs |-> r.archs, sample |-> r.sample]
ToolchainKeys == [tree : 0..MaxEdit, archs : SUBSET Arch]
VariantKeys == [tree : 0..MaxEdit, archs : SUBSET Arch, sample : {0, 1}]
None == [tree |-> 0, archs |-> {}]

\* What an archive contains: written for a toolchain result, or cut off.
Contents == ToolchainKeys \cup {[tree |-> -1, archs |-> {}]}
Cut == [tree |-> -1, archs |-> {}]
RemoteArchive == {"drvs", "common"} \cup Arch

SubmitTypeOK ==
  /\ tree \in 0..MaxEdit /\ keyed \in 0..MaxEdit
  /\ \A e \in cachedT : e.key \in ToolchainKeys /\ e.value \in ToolchainKeys
  /\ \A e \in cachedV : e.key \in VariantKeys /\ e.value \in VariantKeys
  /\ alive \subseteq ToolchainKeys /\ realised \subseteq Arch
  /\ remote \in [RemoteArchive -> Contents] /\ checksum \in [RemoteArchive -> Contents]
  /\ stage \in {"idle", "toolchains", "variants", "check", "prepare", "drvs", "split",
                "upload", "sidecar", "dispatched"}
  /\ request \in Requests \cup {NoRequest}
  /\ toolchains \in ToolchainKeys /\ outpaths \subseteq Arch
  /\ todo \subseteq RemoteArchive /\ sending \in RemoteArchive
  /\ submissions \in 0..MaxSubmission /\ mishaps \in 0..MaxMishap /\ meddled \in BOOLEAN

SubmitInit ==
  /\ tree = 0 /\ keyed = 0
  /\ cachedT = {} /\ cachedV = {} /\ alive = {} /\ realised = {}
  /\ remote = [a \in RemoteArchive |-> None] /\ checksum = [a \in RemoteArchive |-> None]
  /\ stage = "idle" /\ request = NoRequest
  /\ toolchains = None /\ variants = None /\ outpaths = {}
  /\ todo = {} /\ sending = "drvs" /\ submissions = 0 /\ mishaps = 0 /\ meddled = FALSE

Mishap == mishaps < MaxMishap /\ mishaps' = mishaps + 1
Fine == UNCHANGED mishaps

Step(from, to) == stage = from /\ stage' = to

\* cmd_submit returns an error; the next submission may start.
Abort == stage' = "idle"

-------------------------------------------------------------------------------
\* The checkout and the local store, at any time.

\* Between the keys and the results an edit would be attributed to the old keys.
Edit ==
  /\ tree < MaxEdit
  /\ tree' = tree + 1
  /\ meddled' = (meddled \/ stage \in {"toolchains", "variants"})
  /\ UNCHANGED <<alive, realised, cacheVars, gatewayVars, ownVars, mishaps>>

CollectGarbage ==
  /\ alive \cup realised # {}
  /\ alive' = {} /\ realised' = {}
  /\ Mishap
  /\ UNCHANGED <<tree, cacheVars, gatewayVars, ownVars, meddled>>

-------------------------------------------------------------------------------
\* The cache.

Lookup(cache, k) == {e \in cache : e.key = k}

\* Renaming a finished directory into place; a directory that exists wins.
Stored(cache, k, v) == IF Lookup(cache, k) = {} THEN cache \cup {[key |-> k, value |-> v]} ELSE cache

\* A toolchain entry counts only while its aggregate derivation exists, if it has one,
\* and is discarded otherwise.
Usable(k) == {e \in Lookup(cachedT, k) : e.value.archs = {} \/ e.value \in alive}
Discarded(k) == cachedT \ (Lookup(cachedT, k) \ Usable(k))

\* clear-cache.
ClearCache ==
  /\ cachedT \cup cachedV # {}
  /\ cachedT' = {} /\ cachedV' = {}
  /\ UNCHANGED <<checkoutVars, gatewayVars, ownVars, mishaps, meddled>>

-------------------------------------------------------------------------------
\* One submission.

Begin ==
  /\ Step("idle", "toolchains")
  /\ submissions < MaxSubmission
  /\ submissions' = submissions + 1
  /\ request' \in Requests
  /\ keyed' = tree
  /\ toolchains' = None /\ variants' = None /\ outpaths' = {} /\ todo' = {}
  /\ UNCHANGED <<checkoutVars, cacheVars, gatewayVars, sending, mishaps, meddled>>

\* A cached result is used only with the cache on; an entry that cannot be read is missed.
ReuseToolchains ==
  /\ Step("toolchains", "variants")
  /\ request.cache
  /\ \E e \in Usable(ToolchainKey(keyed, request)) : toolchains' = e.value
  /\ Fine
  /\ UNCHANGED <<checkoutVars, cacheVars, gatewayVars, request, keyed, variants, outpaths, uploadVars, submissions, meddled>>

\* What nix-eval-jobs, or one nix eval per pair, prints; a toolchain that fails is left out.
Evaluated(archs) ==
  \/ Fine /\ toolchains' = [tree |-> tree, archs |-> archs]
  \/ Mishap /\ \E some \in SUBSET archs : toolchains' = [tree |-> tree, archs |-> some]

\* enumerate_toolchains_only, with one aggregate derivation over what there is.
EnumerateToolchains ==
  /\ Step("toolchains", "variants")
  /\ Evaluated(request.archs)
  /\ alive' = alive \cup (IF toolchains'.archs = {} THEN {} ELSE {toolchains'})
  /\ LET k == ToolchainKey(keyed, request) IN
     IF request.cache
     THEN /\ Usable(k) = {} \/ mishaps' > mishaps
          /\ cachedT' = Stored(Discarded(k), k, toolchains')
     ELSE UNCHANGED cachedT
  /\ UNCHANGED <<tree, realised, cachedV, gatewayVars, request, keyed, variants, outpaths, uploadVars, submissions, meddled>>

ReuseVariants ==
  /\ Step("variants", "check")
  /\ request.cache
  /\ \E e \in Lookup(cachedV, VariantKey(keyed, request)) : variants' = e.value
  /\ Fine
  /\ UNCHANGED <<checkoutVars, cacheVars, gatewayVars, request, keyed, toolchains, outpaths, uploadVars, submissions, meddled>>

EnumerateVariants ==
  /\ Step("variants", "check")
  /\ variants' = VariantKey(tree, request)
  /\ LET k == VariantKey(keyed, request) IN
     IF request.cache
     THEN Lookup(cachedV, k) = {} /\ cachedV' = Stored(cachedV, k, variants')
     ELSE UNCHANGED cachedV
  /\ Fine
  /\ UNCHANGED <<checkoutVars, cachedT, gatewayVars, request, keyed, toolchains, outpaths, uploadVars, submissions, meddled>>

MissingLocally == toolchains.archs \ realised

\* No aggregate derivation ends the submission, and so does a toolchain that is not
\* built here, unless --build-compilers builds it.
CheckToolchains ==
  /\ stage = "check"
  /\ IF toolchains.archs # {} /\ (MissingLocally = {} \/ request.build)
     THEN stage' = "prepare" /\ realised' = realised \cup MissingLocally
     ELSE Abort /\ UNCHANGED realised
  /\ Fine
  /\ UNCHANGED <<tree, alive, cacheVars, gatewayVars, request, keyed, resultVars, uploadVars, submissions, meddled>>

\* The output paths, from which manifests and the configuration of the run are made.
\* Without them the run goes on with an empty map.
Prepare ==
  /\ Step("prepare", IF request.dedup THEN "drvs" ELSE "upload")
  /\ \/ Fine /\ outpaths' = toolchains.archs
     \/ Mishap /\ outpaths' = {}
  /\ UNCHANGED <<checkoutVars, cacheVars, gatewayVars, request, keyed, toolchains, variants, uploadVars, submissions, meddled>>

\* The toolchain derivations are exported and uploaded every time.
UploadDerivations ==
  /\ stage = "drvs"
  /\ IF toolchains \in alive
     THEN /\ stage' = IF outpaths = {} THEN "upload" ELSE "split"
          /\ remote' = [remote EXCEPT !["drvs"] = toolchains]
     ELSE Abort /\ UNCHANGED remote
  /\ Fine
  /\ UNCHANGED <<checkoutVars, cacheVars, checksum, request, keyed, resultVars, uploadVars, submissions, meddled>>

\* Toolchains that are gone from the store are left out of the split.
ExportSplit ==
  /\ stage = "split"
  /\ LET there == outpaths \cap realised IN
     IF there # {}
     THEN stage' = "upload" /\ todo' = {"common"} \cup there
     ELSE Abort /\ UNCHANGED todo
  /\ Fine
  /\ UNCHANGED <<checkoutVars, cacheVars, gatewayVars, request, keyed, resultVars, sending, submissions, meddled>>

\* A mutant: any sidecar stands for an archive that is there.
AnyChecksum(a) == checksum[a] # None

ChecksumMatches(a) == checksum[a] = toolchains

\* _upload_archive_with_sidecar: an archive whose sidecar names its contents is not
\* uploaded again.
SkipArchive ==
  /\ stage = "upload"
  /\ \E a \in todo : ChecksumMatches(a) /\ todo' = todo \ {a}
  /\ Fine
  /\ UNCHANGED <<checkoutVars, cacheVars, gatewayVars, stage, request, keyed, resultVars, sending, submissions, meddled>>

UploadArchive ==
  /\ Step("upload", "sidecar")
  /\ \E a \in todo :
       /\ ~ChecksumMatches(a)
       /\ todo' = todo \ {a} /\ sending' = a
       /\ remote' = [remote EXCEPT ![a] = toolchains]
  /\ Fine
  /\ UNCHANGED <<checkoutVars, cacheVars, checksum, request, keyed, resultVars, submissions, meddled>>

\* A sidecar that cannot be uploaded is only logged.
UploadSidecar ==
  /\ Step("sidecar", "upload")
  /\ \/ checksum' = [checksum EXCEPT ![sending] = toolchains] /\ Fine
     \/ Mishap /\ UNCHANGED checksum
  /\ UNCHANGED <<checkoutVars, cacheVars, remote, request, keyed, resultVars, uploadVars, submissions, meddled>>

Dispatch ==
  /\ Step("upload", "dispatched")
  /\ todo = {}
  /\ Fine
  /\ UNCHANGED <<checkoutVars, cacheVars, gatewayVars, request, keyed, resultVars, uploadVars, submissions, meddled>>

RunEnds ==
  /\ Step("dispatched", "idle")
  /\ Fine
  /\ UNCHANGED <<checkoutVars, cacheVars, gatewayVars, request, keyed, resultVars, uploadVars, submissions, meddled>>

\* A tool fails or the process is killed; a transfer that stops leaves a cut file.
SubmissionFails ==
  /\ stage \notin {"idle", "dispatched"}
  /\ Mishap /\ Abort
  /\ \/ UNCHANGED remote
     \/ stage = "drvs" /\ remote' = [remote EXCEPT !["drvs"] = Cut]
     \/ /\ stage = "upload"
        /\ \E a \in todo : ~ChecksumMatches(a) /\ remote' = [remote EXCEPT ![a] = Cut]
  /\ UNCHANGED <<checkoutVars, cacheVars, checksum, request, keyed, resultVars, uploadVars, submissions, meddled>>

SubmitNext ==
  \/ Edit
  \/ CollectGarbage
  \/ ClearCache
  \/ Begin
  \/ ReuseToolchains
  \/ EnumerateToolchains
  \/ ReuseVariants
  \/ EnumerateVariants
  \/ CheckToolchains
  \/ Prepare
  \/ UploadDerivations
  \/ ExportSplit
  \/ SkipArchive
  \/ UploadArchive
  \/ UploadSidecar
  \/ Dispatch
  \/ RunEnds
  \/ SubmissionFails

SubmitSpec == SubmitInit /\ [][SubmitNext]_submitVars

-------------------------------------------------------------------------------
(* A run that is dispatched works with results for this checkout and these *)
(* arguments, whether they were cached or computed, and the archives on    *)
(* the gateway were written for them, whatever earlier submissions left    *)
(* behind.  What is excepted: an edit of the checkout during an            *)
(* enumeration, whose result the cache keeps under the older key; a        *)
(* toolchain that failed to evaluate once, which the cache keeps leaving   *)
(* out; and a transfer that failed or was cut off, which leaves a sidecar  *)
(* behind that names the previous contents.                                *)
DispatchIsFresh ==
  stage = "dispatched" =>
    /\ ~meddled => /\ toolchains.tree = keyed
                   /\ toolchains.archs \subseteq request.archs
                   /\ variants = VariantKey(keyed, request)
    /\ request.dedup => remote["drvs"] = toolchains
    /\ ~meddled /\ mishaps = 0 =>
         /\ toolchains = ToolchainKey(keyed, request)
         /\ request.dedup => \A a \in {"common"} \cup request.archs : remote[a] = toolchains
=============================================================================
