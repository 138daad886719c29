----------------------------- MODULE PocRuntime -----------------------------
(***************************************************************************)
(* The comment POC (src/internal/poc) changes the machine it runs on: it   *)
(* writes a private CA, installs its certificate as a trusted root, opens  *)
(* two loopback listeners and loads a packet driver.  Runtime.Run takes    *)
(* these steps one at a time, notes each in state.json after it is done,   *)
(* and undoes them in a deferred clean-up; when the process died first,    *)
(* "wx_channel_poc cleanup" undoes what state.json names.  This module has *)
(* one job, the process that runs it and an operator who may start the     *)
(* offline clean-up, again and again, at any moment the code allows it.    *)
(*                                                                         *)
(* Every step may fail, and either process may die between any two steps.  *)
(*                                                                         *)
(* The code cannot always know what it has done.  The history variable     *)
(* slipped collects what it may lose sight of, at the four points where    *)
(* that happens and nowhere else: the check after an import that reported  *)
(* an error fails; the run dies between a change and its note, or after a  *)
(* note that could not be written; the last note, after such a one, cannot *)
(* be written either; a clean-up is started beside the live run and knows  *)
(* only what the run has noted so far.                                     *)
(***************************************************************************)
EXTENDS Naturals

CONSTANTS
    MaxOverlaps,        \* bound on clean-ups started while the run is alive
    MaxFaults,          \* bound on deaths of the run and lost notes, together
    MaxCleanerDeaths    \* bound on deaths of the offline clean-up

ASSUME PocAssumption ==
    /\ MaxOverlaps \in Nat
    /\ MaxFaults \in Nat
    /\ MaxCleanerDeaths \in Nat

VARIABLES
    present,    \* what there is on the machine of this job's changes
    runtimeDir, \* .poc-runtime/<job> exists
    hasState,   \* ... with a state.json in it
    saved,      \* the marks state.json holds
    litter,     \* ... with the temporary file of a write cut short
    receipt,    \* cleanup-receipt.json
    manifest,   \* cleanup_success of manifest.json: "none", "no" or "yes"
    pc,         \* where Run is
    known,      \* what the run's memory says it has to undo
    errs,       \* its clean-up has met an error
    cpc,        \* where the offline clean-up is
    loaded,     \* what it still has to undo, by the state.json it read
    cerrs,      \* it has met an error
    faults, cleanerDeaths, overlaps,
    unsaid,     \* history: the things whose note could not be written
    slipped     \* history: the things that may be lost sight of, and only they

machine == <<present>>
files == <<runtimeDir, hasState, saved, litter, receipt, manifest>>
run == <<pc, known, errs>>
cleaner == <<cpc, loaded, cerrs>>
counts == <<faults, cleanerDeaths, overlaps>>
history == <<unsaid, slipped>>
vars == <<machine, files, run, cleaner, counts, history>>

(* The changes a job makes.  The listeners go with the process. *)
Listeners == {"bridge", "proxy"}
Marks == Listeners \cup {"certificate", "driver"}
Things == Marks \cup {"secrets"}

NoReceipt == [success |-> FALSE, clean |-> {}]

(***************************************************************************)
(* Where each successful note leads; a note that fails leads to the        *)
(* clean-up, and so do the two notes written on an error path.             *)
(***************************************************************************)
AfterNote == [ noteJob        |-> "approve",
               noteCert       |-> "bridge",
               noteBridge     |-> "proxy",
               noteProxy      |-> "rule",
               noteRule       |-> "collect",
               noteFoundCert  |-> "stopProxy",
               noteFailedRule |-> "stopProxy" ]

(* What each step of a clean-up undoes, and the step after it. *)
Undoes == [ stopProxy   |-> {"proxy", "driver"},
            closeBridge |-> {"bridge"},
            removeCert  |-> {"certificate"},
            destroy     |-> {"secrets"} ]

AfterUndo == [ stopProxy   |-> "closeBridge",
               closeBridge |-> "removeCert",
               removeCert  |-> "destroy",
               destroy     |-> "receipt" ]

AfterCleanerUndo == [ stopProxy  |-> "removeCert",
                      removeCert |-> "destroy",
                      destroy    |-> "keep" ]

Over == {"new", "over", "dead"}
RunPcs == Over \cup DOMAIN AfterNote \cup DOMAIN Undoes
          \cup {"ca", "write", "approve", "install", "imported", "bridge",
                "proxy", "rule", "collect", "receipt", "manifest",
                "removeState", "removeDir", "keep"}
CleanerPcs == {"idle", "receipt", "keep", "removeState", "removeDir"}
              \cup DOMAIN AfterCleanerUndo

Init ==
    /\ present = {}
    /\ runtimeDir = FALSE /\ hasState = FALSE /\ saved = {} /\ litter = FALSE
    /\ receipt = NoReceipt /\ manifest = "none"
    /\ pc = "new" /\ known = {} /\ errs = FALSE
    /\ cpc = "idle" /\ loaded = {} /\ cerrs = FALSE
    /\ faults = 0 /\ cleanerDeaths = 0 /\ overlaps = 0
    /\ unsaid = {} /\ slipped = {}

----------------------------------------------------------------------------
(* Run: set-up *)

Goto(p) == pc' = p
GiveUp == Goto("stopProxy")

(* The process ends, and its memory with it. *)
Ends(p) == Goto(p) /\ known' = {} /\ errs' = FALSE /\ unsaid' = {}

(* The directories and the log are made, and from here on Run's clean-up is  *)
(* deferred; or not all of them are, and Run returns at once.                *)
RunStart ==
    /\ pc = "new"
    /\ \/ runtimeDir' = TRUE /\ Goto("ca")
       \/ runtimeDir' \in BOOLEAN /\ Goto("over")
    /\ UNCHANGED <<machine, hasState, saved, litter, receipt, manifest, known, errs, cleaner, counts, history>>

CreateCA ==
    /\ pc = "ca"
    /\ \/ Goto("write") /\ known' = known \cup {"secrets"}
       \/ GiveUp /\ UNCHANGED known
    /\ UNCHANGED <<machine, files, errs, cleaner, counts, history>>

WriteCA ==
    /\ pc = "write"
    /\ \/ Goto("noteJob") /\ present' = present \cup {"secrets"}
       \/ GiveUp /\ UNCHANGED present
    /\ UNCHANGED <<files, known, errs, cleaner, counts, history>>

(* Mutant: the note also names what is not to be noted. *)
WriteStateOfAll(marks) ==
    /\ runtimeDir
    /\ hasState' = TRUE
    /\ saved' = marks \cup {"secrets"}

(* WriteRuntimeState replaces state.json in one rename. *)
WriteState(marks) ==
    /\ runtimeDir
    /\ hasState' = TRUE
    /\ saved' = marks

NoteFails ==
    /\ UNCHANGED <<hasState, saved>>
    /\ IF runtimeDir THEN faults < MaxFaults /\ faults' = faults + 1
                     ELSE UNCHANGED faults

(* The change that is made and not noted yet, the listeners apart, which end *)
(* with the process.                                                         *)
Pending(p) ==
    IF p = "noteJob" THEN {"secrets"}
    ELSE IF p \in {"imported", "noteCert", "noteFoundCert"} THEN {"certificate"}
    ELSE IF p \in {"noteRule", "noteFailedRule"} THEN {"driver"}
    ELSE {}

Note ==
    /\ pc \in DOMAIN AfterNote
    /\ \/ WriteState(known \cap Marks) /\ Goto(AfterNote[pc]) /\ UNCHANGED <<faults, unsaid>>
       \/ NoteFails /\ GiveUp /\ unsaid' = unsaid \cup Pending(pc)
    /\ UNCHANGED <<machine, runtimeDir, litter, receipt, manifest, known, errs, cleaner,
                   cleanerDeaths, overlaps, slipped>>

(* The operator types APPLY, or does not, or interrupts. *)
Approve ==
    /\ pc = "approve"
    /\ Goto("install") \/ GiveUp
    /\ UNCHANGED <<machine, files, known, errs, cleaner, counts, history>>

(* CertStore.Install: nothing was imported ... *)
InstallFails ==
    /\ pc = "install"
    /\ GiveUp
    /\ UNCHANGED <<machine, files, known, errs, cleaner, counts, history>>

(* ... or the certificate file was, whatever the command reports. *)
Import ==
    /\ pc = "install"
    /\ "secrets" \in present
    /\ present' = present \cup {"certificate"}
    /\ Goto("imported")
    /\ UNCHANGED <<files, known, errs, cleaner, counts, history>>

(* The step is confirmed; or reported as an error and found by the check    *)
(* Run makes then; or the check fails as well, as it does when the run has  *)
(* been interrupted, and the memory does not learn of the certificate.      *)
Imported ==
    /\ pc = "imported"
    /\ \/ /\ pc' \in {"noteCert", "noteFoundCert"}
          /\ known' = known \cup {"certificate"} /\ UNCHANGED slipped
       \/ /\ GiveUp
          /\ slipped' = slipped \cup {"certificate"} /\ UNCHANGED known
    /\ UNCHANGED <<machine, files, errs, cleaner, counts, unsaid>>

Open(at, l, next) ==
    /\ pc = at
    /\ \/ /\ Goto(next)
          /\ present' = present \cup {l}
          /\ known' = known \cup {l}
       \/ GiveUp /\ UNCHANGED <<present, known>>
    /\ UNCHANGED <<files, errs, cleaner, counts, history>>

BridgeStart == Open("bridge", "bridge", "noteBridge")
ProxyStart == Open("proxy", "proxy", "noteProxy")

(* Mutant: a StartProcess that failed is taken to have changed nothing. *)
StartRuleMarkedOnSuccess ==
    /\ pc = "rule"
    /\ \/ /\ Goto("noteRule") /\ present' = present \cup {"driver"}
          /\ known' = known \cup {"driver"}
       \/ /\ Goto("noteFailedRule") /\ present' \in {present, present \cup {"driver"}}
          /\ UNCHANGED known
    /\ UNCHANGED <<files, errs, cleaner, counts, history>>

(* A failed StartProcess may have loaded the driver: it is marked all the same. *)
StartRule ==
    /\ pc = "rule"
    /\ known' = known \cup {"driver"}
    /\ \/ Goto("noteRule") /\ present' = present \cup {"driver"}
       \/ Goto("noteFailedRule") /\ present' \in {present, present \cup {"driver"}}
    /\ UNCHANGED <<files, errs, cleaner, counts, history>>

(* Collecting ends, with its results and a manifest or with an error. *)
Collect ==
    /\ pc = "collect"
    /\ GiveUp
    /\ manifest' \in {manifest, "no"}
    /\ UNCHANGED <<machine, runtimeDir, hasState, saved, litter, receipt, known, errs, cleaner, counts, history>>

----------------------------------------------------------------------------
(* Run: cleanupState *)

(* What a failed step may have undone: the listeners surely. *)
PartOf(x) == {y \in SUBSET x : x \cap Listeners \subseteq y}

(* Mutant: the marks are dropped before the step has succeeded. *)
CleanupUndoUnmarked ==
    /\ pc \in DOMAIN Undoes
    /\ Goto(AfterUndo[pc])
    /\ LET x == Undoes[pc] \cap known IN
       /\ known' = known \ x
       /\ \/ present' = present \ x /\ UNCHANGED errs
          \/ /\ x \ {"proxy"} # {}
             /\ present' \in {present \ y : y \in PartOf(x)}
             /\ errs' = TRUE
    /\ UNCHANGED <<files, cleaner, counts, history>>

CleanupUndo ==
    /\ pc \in DOMAIN Undoes
    /\ Goto(AfterUndo[pc])
    /\ LET x == Undoes[pc] \cap known IN
       \/ /\ present' = present \ x
          /\ known' = known \ x
          /\ UNCHANGED errs
       \/ /\ x \ {"proxy"} # {}
          /\ present' \in {present \ y : y \in PartOf(x)}
          /\ errs' = TRUE
          /\ UNCHANGED known
    /\ UNCHANGED <<files, cleaner, counts, history>>

CleanupReceipt ==
    /\ pc = "receipt"
    /\ Goto("manifest")
    /\ \/ receipt' = [success |-> ~errs, clean |-> Things \ known] /\ UNCHANGED errs
       \/ errs' = TRUE /\ UNCHANGED receipt
    /\ UNCHANGED <<machine, runtimeDir, hasState, saved, litter, manifest, known, cleaner, counts, history>>

(* The manifest says how the clean-up went, as far as it has gone; an error *)
(* so far, or in writing it, keeps state.json.                              *)
CleanupManifest ==
    /\ pc = "manifest"
    /\ \/ /\ manifest' = IF manifest = "none" THEN "none" ELSE IF errs THEN "no" ELSE "yes"
          /\ UNCHANGED errs
       \/ manifest # "none" /\ errs' = TRUE /\ UNCHANGED manifest
    /\ Goto(IF errs' THEN "keep" ELSE "removeState")
    /\ UNCHANGED <<machine, runtimeDir, hasState, saved, litter, receipt, known, cleaner, counts, history>>

CleanupRemoveState ==
    /\ pc = "removeState"
    /\ \/ /\ runtimeDir /\ hasState' = FALSE /\ saved' = {}
          /\ Goto("removeDir") /\ UNCHANGED <<known, errs, unsaid>>
       \/ Ends("over") /\ UNCHANGED <<hasState, saved>>
    /\ UNCHANGED <<machine, runtimeDir, litter, receipt, manifest, cleaner, counts, slipped>>

(* os.Remove takes an empty directory only. *)
CleanupRemoveDir ==
    /\ pc = "removeDir"
    /\ Ends("over")
    /\ \/ ~litter /\ ~hasState /\ runtimeDir' = FALSE
       \/ UNCHANGED runtimeDir
    /\ UNCHANGED <<machine, hasState, saved, litter, receipt, manifest, cleaner, counts, slipped>>

(* The note of what is left; its error is dropped. *)
CleanupKeep ==
    /\ pc = "keep"
    /\ Ends("over")
    /\ \/ WriteState(known \cap Marks) /\ UNCHANGED <<faults, slipped>>
       \/ NoteFails /\ slipped' = slipped \cup unsaid
    /\ UNCHANGED <<machine, runtimeDir, litter, receipt, manifest, cleaner, cleanerDeaths, overlaps>>

(* The run dies: what it had not noted may be lost sight of. *)
Crash ==
    /\ pc \notin Over
    /\ faults < MaxFaults
    /\ faults' = faults + 1
    /\ Ends("dead")
    /\ present' = present \ Listeners
    /\ slipped' = slipped \cup unsaid \cup Pending(pc)
    /\ litter' \in {litter, litter \/ (runtimeDir /\ pc \in DOMAIN AfterNote \cup {"keep"})}
    /\ UNCHANGED <<runtimeDir, hasState, saved, receipt, manifest, cleaner, cleanerDeaths, overlaps>>

----------------------------------------------------------------------------
(* wx_channel_poc cleanup --job-id *)

(***************************************************************************)
(* The command looks whether the run still listens, and reads state.json.  *)
(* Without a runtime directory it reports success, without a state.json an *)
(* error, and changes nothing either way.                                  *)
(***************************************************************************)
CleanerStart ==
    /\ cpc = "idle"
    /\ \/ pc \in Over /\ UNCHANGED overlaps
       \/ pc \notin Over /\ overlaps < MaxOverlaps /\ overlaps' = overlaps + 1
    /\ present \cap Listeners = {}
    /\ runtimeDir /\ hasState
    /\ cpc' = "stopProxy"
    /\ loaded' = saved \cup {"secrets"}
    /\ cerrs' = FALSE
    /\ slipped' = slipped \cup IF pc \in Over THEN {} ELSE Things \ loaded'
    /\ UNCHANGED <<machine, files, run, faults, cleanerDeaths, unsaid>>

CleanerUndoes(ok) ==
    /\ cpc \in DOMAIN AfterCleanerUndo
    /\ cpc' = AfterCleanerUndo[cpc]
    /\ LET x == Undoes[cpc] \cap loaded IN
       IF ok THEN /\ present' = present \ x
                  /\ loaded' = loaded \ x
                  /\ UNCHANGED cerrs
             ELSE /\ x \ {"proxy"} # {}
                  /\ present' \in {present \ y : y \in SUBSET x}
                  /\ cerrs' = TRUE
                  /\ UNCHANGED loaded
    /\ UNCHANGED <<files, run, counts, history>>

CleanerUndo == \E ok \in BOOLEAN : CleanerUndoes(ok)

(* Mutant: the note of what is left names nothing. *)
CleanerKeepNothing ==
    /\ cpc = "keep"
    /\ cpc' = "receipt"
    /\ loaded' = loaded \ Listeners
    /\ \/ cerrs /\ WriteState({})
       \/ UNCHANGED <<hasState, saved>>
    /\ UNCHANGED <<machine, runtimeDir, litter, receipt, manifest, run, cerrs, counts, history>>

(* What is left is noted, if there was an error; that note's own is dropped. *)
CleanerKeep ==
    /\ cpc = "keep"
    /\ cpc' = "receipt"
    /\ loaded' = loaded \ Listeners
    /\ \/ cerrs /\ WriteState(loaded' \cap Marks)
       \/ UNCHANGED <<hasState, saved>>
    /\ UNCHANGED <<machine, runtimeDir, litter, receipt, manifest, run, cerrs, counts, history>>

(* The command ends. *)
CleanerExits ==
    /\ cpc' = "idle"
    /\ loaded' = {}
    /\ cerrs' = FALSE

CleanerReceipt ==
    /\ cpc = "receipt"
    /\ \/ /\ receipt' = [success |-> ~cerrs, clean |-> Things \ loaded]
          /\ IF cerrs THEN CleanerExits
                      ELSE cpc' = "removeState" /\ UNCHANGED <<loaded, cerrs>>
       \/ CleanerExits /\ UNCHANGED receipt
    /\ UNCHANGED <<machine, runtimeDir, hasState, saved, litter, manifest, run, counts, history>>

CleanerRemoveState ==
    /\ cpc = "removeState"
    /\ \/ /\ runtimeDir /\ hasState' = FALSE /\ saved' = {}
          /\ cpc' = "removeDir" /\ UNCHANGED <<loaded, cerrs>>
       \/ CleanerExits /\ UNCHANGED <<hasState, saved>>
    /\ UNCHANGED <<machine, runtimeDir, litter, receipt, manifest, run, counts, history>>

CleanerRemoveDir ==
    /\ cpc = "removeDir"
    /\ \/ ~litter /\ ~hasState /\ runtimeDir' = FALSE
       \/ UNCHANGED runtimeDir
    /\ CleanerExits
    /\ UNCHANGED <<machine, hasState, saved, litter, receipt, manifest, run, counts, history>>

CleanerCrash ==
    /\ cpc # "idle"
    /\ cleanerDeaths < MaxCleanerDeaths
    /\ cleanerDeaths' = cleanerDeaths + 1
    /\ CleanerExits
    /\ litter' \in {litter, litter \/ (runtimeDir /\ cpc = "keep" /\ cerrs)}
    /\ UNCHANGED <<machine, runtimeDir, hasState, saved, receipt, manifest, run, faults, overlaps, history>>

----------------------------------------------------------------------------
RunNext ==
    \/ RunStart \/ CreateCA \/ WriteCA \/ Note \/ Approve
    \/ InstallFails \/ Import \/ Imported
    \/ BridgeStart \/ ProxyStart \/ StartRule \/ Collect
    \/ CleanupUndo \/ CleanupReceipt \/ CleanupManifest
    \/ CleanupRemoveState \/ CleanupRemoveDir \/ CleanupKeep

CleanerNext ==
    \/ CleanerStart \/ CleanerUndo \/ CleanerKeep
    \/ CleanerReceipt \/ CleanerRemoveState \/ CleanerRemoveDir

Next == RunNext \/ CleanerNext \/ Crash \/ CleanerCrash

Spec == Init /\ [][Next]_vars

(* An operator who tries again, and commands that work in the end. *)
Fairness ==
    /\ WF_vars(CleanerNext)
    /\ \A p \in DOMAIN AfterCleanerUndo : SF_vars(cpc = p /\ CleanerUndoes(TRUE))

FairSpec == Spec /\ Fairness

----------------------------------------------------------------------------
(* Nobody is at work on the job. *)
Quiet == pc \in Over /\ cpc = "idle"

(* Every variable has its type. *)
TypeOK ==
    /\ present \subseteq Things
    /\ known \subseteq Things
    /\ loaded \subseteq Things
    /\ saved \subseteq Marks
    /\ runtimeDir \in BOOLEAN /\ hasState \in BOOLEAN /\ litter \in BOOLEAN
    /\ errs \in BOOLEAN /\ cerrs \in BOOLEAN
    /\ receipt.success \in BOOLEAN /\ receipt.clean \subseteq Things
    /\ manifest \in {"none", "no", "yes"}
    /\ pc \in RunPcs
    /\ cpc \in CleanerPcs
    /\ faults \in 0..MaxFaults
    /\ cleanerDeaths \in 0..MaxCleanerDeaths
    /\ overlaps \in 0..MaxOverlaps
    /\ unsaid \subseteq Things /\ slipped \subseteq Things

(* What is left on the machine when nobody is at work is named in a        *)
(* state.json the clean-up command can read; only what slipped through one *)
(* of the gaps above is not.                                               *)
NothingForgotten ==
    Quiet => /\ (present \cap Marks) \ slipped \subseteq saved
             /\ present \ slipped # {} => hasState

(* A receipt or a manifest never calls clean what is still there.          *)
ReceiptHonest ==
    Quiet => /\ receipt.clean \cap present = {}
             /\ receipt.success => present = {}
             /\ manifest = "yes" => present = {}

(* A receipt or a manifest calls nothing clean that is still there but     *)
(* what slipped through one of the gaps.                                   *)
ReceiptExplained ==
    Quiet => /\ receipt.clean \cap present \subseteq slipped
             /\ receipt.success => present \subseteq slipped
             /\ manifest = "yes" => present \subseteq slipped

(* state.json is given up only once all that has not slipped is gone.      *)
DiscardedWhenClean == [][hasState /\ ~hasState' => present \subseteq slipped]_vars

(* Once the run is over or dead, repeating the clean-up restores the       *)
(* machine, what slipped apart, whatever failed or died before.            *)
CleanupRestores == pc \in {"over", "dead"} ~> present \subseteq slipped
=============================================================================
