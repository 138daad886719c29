----------------------------- MODULE CertSmoke ------------------------------
(***************************************************************************)
(* "wx_channel_poc cert-smoke", src/internal/poc/certificate_smoke.go: it  *)
(* installs a certificate of its own as a trusted root, verifies it and    *)
(* removes it.  Unlike Runtime.Run (PocRuntime) it notes the certificate   *)
(* in state.json before the step; and it opens no listener, so that the    *)
(* offline clean-up, which takes free ports for proof that nothing runs    *)
(* (runtime_windows.go), may be started beside it at any time.             *)
(*                                                                         *)
(* Every step may fail, a change of the certificate store also after it    *)
(* took effect, and each process may die between any two steps.            *)
(* Abstracted: the error codes, except that there is one; the receipt of   *)
(* the clean-up (see PocRuntime).                                          *)
(***************************************************************************)
EXTENDS Naturals

VARIABLES
  smoke,             \* where Run is
  foreign,           \* the certificate was trusted before; never changes
  trusted,           \* it is a trusted root
  smokeSecrets,      \* there are files of the CA, the private key among them
  smokeNote,         \* state.json: CertificateInstalled is "plain" false, or "claimed"
  certificateAbsent, \* finalize's variable of that name
  smokeReceipt,      \* the receipt in hand
  onDisk,            \* certificate-smoke-receipt.json
  sweeper,           \* where the offline clean-up is
  sweepNote, sweepFailed,   \* the state it loaded and changes; it has met an error
  overtaken          \* history: it was started while the test was running

smokeVars == <<smoke, foreign, trusted, smokeSecrets, smokeNote, certificateAbsent, smokeReceipt, onDisk,
               sweeper, sweepNote, sweepFailed, overtaken>>
sweepVars == <<sweeper, sweepNote, sweepFailed, overtaken>>

NoSmokeReceipt == [installVerified |-> FALSE, removeVerified |-> FALSE, secretsDestroyed |-> FALSE,
                   stateDestroyed |-> FALSE, failed |-> FALSE]
Unwritten == [NoSmokeReceipt EXCEPT !.failed = TRUE]

SmokeInit ==
  /\ smoke = "new" /\ foreign \in BOOLEAN /\ trusted = foreign
  /\ smokeSecrets = FALSE /\ smokeNote = "none" /\ certificateAbsent = TRUE
  /\ smokeReceipt = NoSmokeReceipt /\ onDisk = Unwritten
  /\ sweeper = "idle" /\ sweepNote = "plain" /\ sweepFailed = FALSE /\ overtaken = FALSE

SmokeAlive == smoke \notin {"new", "over", "dead"}

\* Run goes on; or it sets primaryCode and returns, so that finalize begins: with the
\* removal if the certificate is owned.
SmokeGoes(at) == smoke' = at /\ UNCHANGED smokeReceipt
SmokeFails(at) == smoke' = at /\ smokeReceipt' = [smokeReceipt EXCEPT !.failed = TRUE]

\* WriteRuntimeState, as long as there is the directory.
Noted(note) == smokeNote # "gone" /\ smokeNote' = note

\* RemoveRuntimeState: state.json, then the directory, which an error may leave.
Discarded == smokeNote # "gone" /\ smokeNote' = "gone"
NotDiscarded == smokeNote' \in {smokeNote, IF smokeNote = "gone" THEN "gone" ELSE "emptied"}

-----------------------------------------------------------------------------
(* Run.                                                                    *)

\* The checks, the store and the CA; what fails before ends the test at once.
SmokeBegins ==
  /\ smoke = "new"
  /\ SmokeGoes("writing") \/ SmokeFails("over")
  /\ UNCHANGED <<foreign, trusted, smokeSecrets, smokeNote, certificateAbsent, onDisk, sweepVars>>

\* WriteSecrets removes what it wrote of a CA it cannot complete, if it can.
SmokeWritesCA ==
  /\ smoke = "writing"
  /\ \/ smokeSecrets' = TRUE /\ SmokeGoes("noting")
     \/ smokeSecrets' \in BOOLEAN /\ SmokeFails("destroying")
  /\ UNCHANGED <<foreign, trusted, smokeNote, certificateAbsent, onDisk, sweepVars>>

SmokeNotes ==
  /\ smoke = "noting"
  /\ \/ Noted("plain") /\ SmokeGoes("asking")
     \/ UNCHANGED smokeNote /\ SmokeFails("destroying")
  /\ UNCHANGED <<foreign, trusted, smokeSecrets, certificateAbsent, onDisk, sweepVars>>

\* The operator approves, rejects, or interrupts.
SmokeAsks ==
  /\ smoke = "asking"
  /\ SmokeGoes("checking") \/ SmokeFails("destroying")
  /\ UNCHANGED <<foreign, trusted, smokeSecrets, smokeNote, certificateAbsent, onDisk, sweepVars>>

\* A certificate that is there already is not the test's.
SmokeChecks ==
  /\ smoke = "checking"
  /\ \/ ~trusted /\ SmokeGoes("claiming")
     \/ SmokeFails("destroying")
  /\ UNCHANGED <<foreign, trusted, smokeSecrets, smokeNote, certificateAbsent, onDisk, sweepVars>>

\* The certificate is noted as installed before it is, and owned from then on.
SmokeClaims ==
  /\ smoke = "claiming"
  /\ \/ Noted("claimed") /\ certificateAbsent' = FALSE /\ SmokeGoes("installing")
     \/ UNCHANGED <<smokeNote, certificateAbsent>> /\ SmokeFails("destroying")
  /\ UNCHANGED <<foreign, trusted, smokeSecrets, onDisk, sweepVars>>

\* Install reads the certificate's file.
SmokeInstalls ==
  /\ smoke = "installing"
  /\ \/ smokeSecrets /\ trusted' = TRUE /\ (SmokeGoes("verifying") \/ SmokeFails("removing"))
     \/ UNCHANGED trusted /\ SmokeFails("removing")
  /\ UNCHANGED <<foreign, smokeSecrets, smokeNote, certificateAbsent, onDisk, sweepVars>>

SmokeVerifies ==
  /\ smoke = "verifying"
  /\ \/ /\ trusted
        /\ smoke' = "removing" /\ smokeReceipt' = [smokeReceipt EXCEPT !.installVerified = TRUE]
     \/ SmokeFails("removing")
  /\ UNCHANGED <<foreign, trusted, smokeSecrets, smokeNote, certificateAbsent, onDisk, sweepVars>>

-----------------------------------------------------------------------------
(* finalize.                                                               *)

\* RemoveBySHA256, which finds nothing to do if the certificate is not there.
SmokeRemoves ==
  /\ smoke = "removing"
  /\ \/ trusted' = FALSE /\ (SmokeGoes("confirming") \/ SmokeFails("destroying"))
     \/ UNCHANGED trusted /\ SmokeFails("destroying")
  /\ UNCHANGED <<foreign, smokeSecrets, smokeNote, certificateAbsent, onDisk, sweepVars>>

\* The look whether it is gone, and the note of it.
SmokeConfirms ==
  /\ smoke = "confirming"
  /\ \/ UNCHANGED <<smokeNote, certificateAbsent>> /\ SmokeFails("destroying")
     \/ /\ ~trusted
        /\ certificateAbsent' = TRUE /\ smoke' = "destroying"
        /\ \/ Noted("plain") /\ smokeReceipt' = [smokeReceipt EXCEPT !.removeVerified = TRUE]
           \/ /\ UNCHANGED smokeNote
              /\ smokeReceipt' = [smokeReceipt EXCEPT !.removeVerified = TRUE, !.failed = TRUE]
  /\ UNCHANGED <<foreign, trusted, smokeSecrets, onDisk, sweepVars>>

\* Mutant of MayDiscard: state.json is given up without a look at the certificate.
MayDiscardAnyway == TRUE
\* state.json is given up, once the secrets are gone, if the certificate is gone or never was owned.
MayDiscard == certificateAbsent

SmokeDestroys ==
  /\ smoke = "destroying"
  /\ \/ /\ smokeSecrets' = FALSE
        /\ smokeReceipt' = [smokeReceipt EXCEPT !.secretsDestroyed = TRUE]
        /\ smoke' = IF MayDiscard THEN "discarding" ELSE "reporting"
     \/ smokeSecrets' \in {smokeSecrets, FALSE} /\ SmokeFails("reporting")
  /\ UNCHANGED <<foreign, trusted, smokeNote, certificateAbsent, onDisk, sweepVars>>

SmokeDiscards ==
  /\ smoke = "discarding"
  /\ \/ /\ Discarded
        /\ smoke' = "reporting" /\ smokeReceipt' = [smokeReceipt EXCEPT !.stateDestroyed = TRUE]
     \/ NotDiscarded /\ SmokeFails("reporting")
  /\ UNCHANGED <<foreign, trusted, smokeSecrets, certificateAbsent, onDisk, sweepVars>>

\* The receipt is written; if that fails, once more, as a failure.
SmokeReports ==
  /\ smoke = "reporting"
  /\ \/ onDisk' = smokeReceipt /\ SmokeGoes("over")
     \/ onDisk' = [smokeReceipt EXCEPT !.failed = TRUE] /\ SmokeFails("over")
     \/ UNCHANGED onDisk /\ SmokeFails("over")
  /\ UNCHANGED <<foreign, trusted, smokeSecrets, smokeNote, certificateAbsent, sweepVars>>

SmokeDies ==
  /\ SmokeAlive
  /\ smoke' = "dead"
  /\ UNCHANGED <<foreign, trusted, smokeSecrets, smokeNote, certificateAbsent, smokeReceipt, onDisk, sweepVars>>

SmokeStep ==
  \/ SmokeBegins \/ SmokeWritesCA \/ SmokeNotes \/ SmokeAsks \/ SmokeChecks \/ SmokeClaims
  \/ SmokeInstalls \/ SmokeVerifies \/ SmokeRemoves \/ SmokeConfirms \/ SmokeDestroys
  \/ SmokeDiscards \/ SmokeReports \/ SmokeDies

-----------------------------------------------------------------------------
(* "wx_channel_poc cleanup" of the same job.                               *)

TestUnchanged == UNCHANGED <<smoke, foreign, certificateAbsent, smokeReceipt, onDisk>>

\* Without a state.json it can only fail.
SweepBegins ==
  /\ sweeper = "idle" /\ smokeNote \in {"plain", "claimed"}
  /\ sweeper' = IF smokeNote = "claimed" THEN "removing" ELSE "destroying"
  /\ sweepNote' = smokeNote /\ sweepFailed' = FALSE
  /\ overtaken' = (overtaken \/ SmokeAlive)
  /\ TestUnchanged /\ UNCHANGED <<trusted, smokeSecrets, smokeNote>>

SweepRemoves ==
  /\ sweeper = "removing"
  /\ sweeper' = "destroying"
  /\ \/ trusted' = FALSE /\ sweepNote' = "plain" /\ UNCHANGED sweepFailed
     \/ trusted' \in {trusted, FALSE} /\ sweepFailed' = TRUE /\ UNCHANGED sweepNote
  /\ TestUnchanged /\ UNCHANGED <<smokeSecrets, smokeNote, overtaken>>

SweepDestroys ==
  /\ sweeper = "destroying"
  /\ sweeper' = "ending"
  /\ \/ smokeSecrets' = FALSE /\ UNCHANGED sweepFailed
     \/ smokeSecrets' \in {smokeSecrets, FALSE} /\ sweepFailed' = TRUE
  /\ TestUnchanged /\ UNCHANGED <<trusted, smokeNote, sweepNote, overtaken>>

\* After an error what is left is noted, if that works; else state.json is given up
\* (or kept, when the clean-up's receipt cannot be written).
SweepEnds ==
  /\ sweeper = "ending"
  /\ sweeper' = "idle"
  /\ IF sweepFailed THEN Noted(sweepNote) \/ UNCHANGED smokeNote
                    ELSE Discarded \/ NotDiscarded
  /\ TestUnchanged /\ UNCHANGED <<trusted, smokeSecrets, sweepNote, sweepFailed, overtaken>>

SweepDies ==
  /\ sweeper # "idle"
  /\ sweeper' = "idle"
  /\ TestUnchanged /\ UNCHANGED <<trusted, smokeSecrets, smokeNote, sweepNote, sweepFailed, overtaken>>

SmokeNext == SmokeStep \/ SweepBegins \/ SweepRemoves \/ SweepDestroys \/ SweepEnds \/ SweepDies

SmokeSpec == SmokeInit /\ [][SmokeNext]_smokeVars

-----------------------------------------------------------------------------
SmokeReceipts == [installVerified : BOOLEAN, removeVerified : BOOLEAN, secretsDestroyed : BOOLEAN,
                  stateDestroyed : BOOLEAN, failed : BOOLEAN]

SmokeTypeOK ==
  /\ smoke \in {"new", "writing", "noting", "asking", "checking", "claiming", "installing", "verifying",
                "removing", "confirming", "destroying", "discarding", "reporting", "over", "dead"}
  /\ {foreign, trusted, smokeSecrets, certificateAbsent, sweepFailed, overtaken} \subseteq BOOLEAN
  /\ smokeNote \in {"none", "plain", "claimed", "emptied", "gone"}
  /\ smokeReceipt \in SmokeReceipts /\ onDisk \in SmokeReceipts
  /\ sweeper \in {"idle", "removing", "destroying", "ending"} /\ sweepNote \in {"plain", "claimed"}

\* Whatever fails and whoever dies when: the test's certificate is a trusted root
\* only while state.json claims it, and its secrets outlive no state.json that was
\* written, unless a clean-up was started beside the test; a certificate that was
\* there before stays; and the receipt on disk never says of anything left that it
\* is gone, nor success but for a test that went the whole way.
SmokeAccounted ==
  /\ trusted /\ ~foreign => smokeNote = "claimed" \/ overtaken
  /\ smokeSecrets => smokeNote \in {"none", "plain", "claimed"} \/ overtaken
  /\ foreign => trusted
  /\ onDisk.removeVerified => ~trusted
  /\ onDisk.secretsDestroyed => ~smokeSecrets
  /\ ~onDisk.failed => /\ onDisk.installVerified /\ onDisk.removeVerified
                       /\ ~smokeSecrets /\ smokeNote = "gone"
=============================================================================
