------------------------------ MODULE CachixUploader ------------------------------
(***************************************************************************)
(* The submitter's thread that pushes every new path of its nix store to a *)
(* binary cache: it lists the store, remembers what it saw, pushes what is *)
(* new, path by path with retries, and sleeps.                             *)
(***************************************************************************)
EXTENDS Integers, FiniteSets

CONSTANTS
  Path,        \* store paths
  Unpushable,  \* those is_pushable leaves out: derivations, temporary files
  MaxRetries,  \* attempts per push
  MaxTrouble   \* bound: failing listings and pushes

ASSUME UploaderAssumption ==
  /\ Unpushable \subseteq Path /\ MaxRetries \in Nat \ {0} /\ MaxTrouble \in Nat

VARIABLES
  valid,     \* the paths in the local store
  noticed,   \* _seen
  queue,     \* what is left of newly_added
  attempt,   \* the attempts made for the path in hand
  inHand,    \* the path being pushed, as a set
  uploaded,  \* the paths the cache has
  abandoned, \* the paths whose push failed
  round,     \* "list", "push", "sleep" or "ended"
  stopSet,   \* _stop_event
  trouble

uploaderVars == <<valid, noticed, queue, attempt, inHand, uploaded, abandoned, round, stopSet, trouble>>

UploaderTypeOK ==
  /\ {valid, noticed, queue, uploaded, abandoned, inHand} \subseteq SUBSET Path
  /\ attempt \in 0..MaxRetries
  /\ round \in {"list", "push", "sleep", "ended"}
  /\ stopSet \in BOOLEAN /\ trouble \in 0..MaxTrouble

UploaderInit ==
  /\ valid \in SUBSET Path
  /\ noticed = {} /\ queue = {} /\ attempt = 0 /\ inHand = {} /\ uploaded = {} /\ abandoned = {}
  /\ round = "list" /\ stopSet = FALSE /\ trouble = 0

\* A build adds a path to the store.
Realise ==
  /\ \E p \in Path \ valid : valid' = valid \cup {p}
  /\ UNCHANGED <<noticed, queue, attempt, inHand, uploaded, abandoned, round, stopSet, trouble>>

Trouble == trouble < MaxTrouble /\ trouble' = trouble + 1

\* list_new_paths: when both listings fail it returns empty sets, so all is new the
\* next time; when it raises nothing is new.
ListPaths ==
  /\ round = "list"
  /\ \/ noticed' = valid /\ queue' = (valid \ noticed) \ Unpushable /\ UNCHANGED trouble
     \/ noticed' = {} /\ queue' = {} /\ Trouble
     \/ UNCHANGED noticed /\ queue' = {} /\ Trouble
  /\ round' = "push"
  /\ UNCHANGED <<valid, attempt, inHand, uploaded, abandoned, stopSet>>

TakePath ==
  /\ round = "push" /\ inHand = {} /\ queue # {}
  /\ \E p \in queue : inHand' = {p} /\ queue' = queue \ {p}
  /\ attempt' = 0
  /\ UNCHANGED <<valid, noticed, uploaded, abandoned, round, stopSet, trouble>>

\* A mutant: one attempt more than there are.
PushPathOnceMore ==
  /\ round = "push" /\ inHand # {}
  /\ \/ uploaded' = uploaded \cup inHand /\ inHand' = {} /\ UNCHANGED <<attempt, abandoned, trouble>>
     \/ /\ Trouble
        /\ attempt' = attempt + 1
        /\ IF attempt' > MaxRetries
           THEN inHand' = {} /\ abandoned' = abandoned \cup inHand
           ELSE UNCHANGED <<inHand, abandoned>>
        /\ UNCHANGED uploaded
  /\ UNCHANGED <<valid, noticed, queue, round, stopSet>>

\* push_one: another attempt after a pause, as long as there are any; a
\* token file that cannot be read ends it at once.
PushPath ==
  /\ round = "push" /\ inHand # {}
  /\ \/ uploaded' = uploaded \cup inHand /\ inHand' = {} /\ UNCHANGED <<attempt, abandoned, trouble>>
     \/ /\ Trouble
        /\ attempt' = attempt + 1 \/ (attempt = 0 /\ attempt' = MaxRetries)
        /\ IF attempt' = MaxRetries
           THEN inHand' = {} /\ abandoned' = abandoned \cup inHand
           ELSE UNCHANGED <<inHand, abandoned>>
        /\ UNCHANGED uploaded
  /\ UNCHANGED <<valid, noticed, queue, round, stopSet>>

\* A mutant: what is in the store when the pushes are done counts as seen.
PauseSeeing ==
  /\ round = "push" /\ inHand = {} /\ queue = {}
  /\ noticed' = valid
  /\ round' = IF stopSet THEN "ended" ELSE "sleep"
  /\ UNCHANGED <<valid, queue, attempt, inHand, uploaded, abandoned, stopSet, trouble>>

\* Stopping takes effect between the rounds.
Pause ==
  /\ round = "push" /\ inHand = {} /\ queue = {}
  /\ round' = IF stopSet THEN "ended" ELSE "sleep"
  /\ UNCHANGED <<valid, noticed, queue, attempt, inHand, uploaded, abandoned, stopSet, trouble>>

Wake ==
  /\ round = "sleep"
  /\ round' = IF stopSet THEN "ended" ELSE "list"
  /\ UNCHANGED <<valid, noticed, queue, attempt, inHand, uploaded, abandoned, stopSet, trouble>>

\* The submission ends; it waits for the thread for a limited time only.
StopUploader ==
  /\ ~stopSet /\ stopSet' = TRUE
  /\ UNCHANGED <<valid, noticed, queue, attempt, inHand, uploaded, abandoned, round, trouble>>

UploaderStep == ListPaths \/ TakePath \/ PushPath \/ Pause \/ Wake

UploaderNext == UploaderStep \/ Realise \/ StopUploader

UploaderSpec == UploaderInit /\ [][UploaderNext]_uploaderVars

-------------------------------------------------------------------------------
(* Nothing is forgotten between two rounds: what counts as seen was pushed,*)
(* or its push used up the attempts, which no later round repeats.  This   *)
(* also holds for a path that is built while others are pushed, and after  *)
(* listings that failed and forgot what was seen.                          *)
SeenIsUploaded ==
  round \in {"list", "sleep"} => noticed \ Unpushable \subseteq uploaded \cup abandoned
=============================================================================
