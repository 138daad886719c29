-------------------------- MODULE PocRuntimeProofs --------------------------
(***************************************************************************)
(* Whichever step of a job fails, whichever note is lost, whenever either  *)
(* process dies and whoever starts a clean-up meanwhile: what the job      *)
(* leaves on the machine is named in state.json, no receipt calls it       *)
(* clean, and state.json is not given up before it is gone - all but what  *)
(* slipped through one of the four gaps PocRuntime names.                  *)
(* Then the smoke test of the certificate and the clean-up of what it left *)
(* behind: whatever dies, fails or answers late, no certificate of the     *)
(* test's stays installed without the note by which a clean-up would find  *)
(* it.                                                                     *)
(***************************************************************************)
EXTENDS PocRuntime, CertSmoke, TLAPS

(* The phases of the run. *)
SetUp == {"ca", "write", "approve", "install", "imported", "bridge", "proxy",
          "rule", "collect"} \cup DOMAIN AfterNote
Early == {"new", "ca", "write", "noteJob"}
Ended == {"over", "dead"}
Lasting == {"certificate", "driver", "secrets"}

(* The marks of the steps the run has still to take. *)
Ahead(p) ==
    IF p \in Early \cup {"approve", "install"} THEN Marks
    ELSE IF p \in {"imported", "noteCert", "bridge"} THEN {"bridge", "proxy", "driver"}
    ELSE IF p \in {"noteBridge", "proxy"} THEN {"proxy", "driver"}
    ELSE IF p \in {"noteProxy", "rule"} THEN {"driver"}
    ELSE {}

(* The memory of the run knows what there is, but for a certificate it has  *)
(* not learned of.  Before the first note no clean-up can begin.            *)
RunKnows ==
    /\ pc = "new" => present = {} /\ known = {} /\ unsaid = {}
    /\ pc \in Early => ~hasState /\ cpc = "idle" /\ receipt = NoReceipt
    /\ pc \notin Over => present \subseteq known \cup {"certificate"}
    /\ pc \notin Over \cup {"imported"} /\ "certificate" \in present =>
         "certificate" \in known \cup slipped
    /\ pc \in SetUp \ {"ca"} => "secrets" \in known
    /\ pc \in Ended => present \cap Listeners = {} /\ unsaid = {}

(* A clean-up beside the run reads of nothing the run has still to do; and  *)
(* what it has not read of has slipped, or will have when it is done.       *)
RunLeads ==
    /\ known \cap Ahead(pc) = {}
    /\ pc \in SetUp => saved \subseteq known /\ (cpc # "idle" => loaded \subseteq known)
    /\ cpc # "idle" \/ receipt # NoReceipt => Ahead(pc) \subseteq slipped

(* What each step of the clean-up has undone, if none has failed; the       *)
(* listeners are gone even so.                                              *)
Closed == {"removeCert", "destroy", "receipt", "manifest", "removeState", "removeDir", "keep"}

UndoneInOrder ==
    /\ pc = "closeBridge" /\ ~errs => known \subseteq {"bridge", "certificate", "secrets"}
    /\ pc = "removeCert" /\ ~errs => known \subseteq {"certificate", "secrets"}
    /\ pc = "destroy" /\ ~errs => known \subseteq {"secrets"}
    /\ pc \in {"receipt", "manifest"} /\ ~errs => known = {}
    /\ pc \in {"removeState", "removeDir"} => known = {}
    /\ pc \in {"closeBridge"} \cup Closed => "proxy" \notin present
    /\ pc \in Closed => "bridge" \notin present

(* state.json names what there is, the secrets apart, which need no naming; *)
(* what it does not name has slipped, or its note is pending or has failed. *)
Named(t) == hasState /\ t \in saved \cup {"secrets"}

StateFollows ==
    /\ ~hasState => saved = {}
    /\ \A t \in Lasting : t \in present => Named(t) \/ t \in slipped \cup unsaid \cup Pending(pc)

(* The clean-up command still has to undo what there is. *)
CleanerKnows ==
    /\ cpc # "idle" => present \subseteq loaded \cup slipped /\ present \cap Listeners \subseteq slipped
    /\ cpc = "removeCert" /\ ~cerrs => "driver" \notin loaded
    /\ cpc = "destroy" /\ ~cerrs => loaded \cap {"driver", "certificate"} = {}
    /\ cpc \in {"keep", "receipt"} /\ ~cerrs => loaded \subseteq Listeners
    /\ cpc \in {"removeState", "removeDir"} => present \subseteq slipped

(* Receipts come with a clean-up and stay true. *)
ReceiptsTrue ==
    /\ pc \in SetUp \cup DOMAIN Undoes \cup {"new", "receipt"} => manifest # "yes"
    /\ receipt.clean \cap present \subseteq slipped
    /\ receipt.success => present \subseteq slipped
    /\ manifest = "yes" => present \subseteq slipped

Inv ==
    /\ RunKnows
    /\ RunLeads
    /\ UndoneInOrder
    /\ StateFollows
    /\ CleanerKnows
    /\ ReceiptsTrue

----------------------------------------------------------------------------
(* The tables of steps, entry by entry. *)
LEMMA Notes ==
    /\ DOMAIN AfterNote = {"noteJob", "noteCert", "noteBridge", "noteProxy", "noteRule",
                           "noteFoundCert", "noteFailedRule"}
    /\ AfterNote["noteJob"] = "approve"
    /\ AfterNote["noteCert"] = "bridge"
    /\ AfterNote["noteBridge"] = "proxy"
    /\ AfterNote["noteProxy"] = "rule"
    /\ AfterNote["noteRule"] = "collect"
    /\ AfterNote["noteFoundCert"] = "stopProxy"
    /\ AfterNote["noteFailedRule"] = "stopProxy"
BY DEF AfterNote

LEMMA Undoing ==
    /\ DOMAIN Undoes = {"stopProxy", "closeBridge", "removeCert", "destroy"}
    /\ Undoes["stopProxy"] = {"proxy", "driver"}
    /\ Undoes["closeBridge"] = {"bridge"}
    /\ Undoes["removeCert"] = {"certificate"}
    /\ Undoes["destroy"] = {"secrets"}
    /\ AfterUndo["stopProxy"] = "closeBridge"
    /\ AfterUndo["closeBridge"] = "removeCert"
    /\ AfterUndo["removeCert"] = "destroy"
    /\ AfterUndo["destroy"] = "receipt"
    /\ DOMAIN AfterCleanerUndo = {"stopProxy", "removeCert", "destroy"}
    /\ AfterCleanerUndo["stopProxy"] = "removeCert"
    /\ AfterCleanerUndo["removeCert"] = "destroy"
    /\ AfterCleanerUndo["destroy"] = "keep"
BY DEF Undoes, AfterUndo, AfterCleanerUndo

(* A step of the run's clean-up undoes its part or leaves it in the memory. *)
LEMMA OneUndone == ASSUME CleanupUndo PROVE
    LET x == Undoes[pc] \cap known IN
    /\ pc \in DOMAIN Undoes
    /\ pc' = AfterUndo[pc]
    /\ \/ present' = present \ x /\ known' = known \ x /\ errs' = errs
       \/ /\ errs' = TRUE /\ known' = known
          /\ present' \subseteq present
          /\ present' \cap (x \cap Listeners) = {}
BY DEF CleanupUndo, Goto, PartOf

(* A step of the clean-up command undoes its part or goes on owing it. *)
LEMMA OneCleaned == ASSUME CleanerUndo PROVE
    LET x == Undoes[cpc] \cap loaded IN
    /\ cpc \in DOMAIN AfterCleanerUndo
    /\ cpc' = AfterCleanerUndo[cpc]
    /\ \/ present' = present \ x /\ loaded' = loaded \ x /\ cerrs' = cerrs
       \/ cerrs' = TRUE /\ loaded' = loaded /\ present' \subseteq present
BY DEF CleanerUndo, CleanerUndoes

(* What a receipt written with errors e and leftovers out of c says. *)
LEMMA ReceiptFields ==
    ASSUME NEW e \in BOOLEAN, NEW c, NEW r, r = [success |-> ~e, clean |-> c]
    PROVE  r.success \in BOOLEAN /\ r.clean = c /\ (r.success <=> ~e)
<1>1. r.success = ~e
  BY Zenon
<1>2. r.success \in BOOLEAN
  <2>1. ASSUME NEW s, s = ~e PROVE s \in BOOLEAN
    BY <2>1, SMT
  <2> QED BY <1>1, <2>1
<1>3. r.clean = c
  BY Zenon
<1> QED BY <1>1, <1>2, <1>3, Zenon

----------------------------------------------------------------------------
(* The type invariant is kept, for all constants. *)
LEMMA TypeKept == ASSUME TypeOK, [Next]_vars PROVE TypeOK'
<1> USE DEF TypeOK, RunPcs, CleanerPcs, Over, machine, files, run, cleaner, counts, history, Goto, GiveUp, Ends
<1>1. ASSUME RunStart PROVE TypeOK'
  BY <1>1 DEF RunStart
<1>2. ASSUME CreateCA PROVE TypeOK'
  <2>1. pc' \in RunPcs
    BY <1>2, Notes, Undoing DEF CreateCA
  <2> HIDE DEF RunPcs, CleanerPcs, Over
  <2> QED BY <1>2, <2>1 DEF CreateCA, Things, Marks, Listeners
<1>3. ASSUME WriteCA PROVE TypeOK'
  <2>1. pc' \in RunPcs
    BY <1>3, Notes, Undoing DEF WriteCA
  <2> HIDE DEF RunPcs, CleanerPcs, Over
  <2> QED BY <1>3, <2>1 DEF WriteCA, Things, Marks, Listeners
<1>4. ASSUME Note PROVE TypeOK'
  <2>1. saved' \subseteq Marks /\ hasState' \in BOOLEAN
    BY <1>4 DEF Note, WriteState, NoteFails, TypeOK
  <2>2. faults' \in 0..MaxFaults
    BY <1>4, PocAssumption DEF Note, NoteFails, TypeOK
  <2>3. pc' \in RunPcs
    BY <1>4, Notes, Undoing DEF Note, Goto, GiveUp, RunPcs
  <2>4. unsaid' \subseteq Things
    BY <1>4 DEF Note, Pending, TypeOK, Things, Marks
  <2> QED BY <1>4, <2>1, <2>2, <2>3, <2>4 DEF Note, TypeOK, machine, cleaner
<1>5. ASSUME Approve PROVE TypeOK'
  BY <1>5, Notes, Undoing DEF Approve
<1>6. ASSUME InstallFails PROVE TypeOK'
  BY <1>6, Notes, Undoing DEF InstallFails
<1>7. ASSUME Import PROVE TypeOK'
  BY <1>7 DEF Import, Things, Marks, Listeners
<1>8. ASSUME Imported PROVE TypeOK'
  <2>1. pc' \in RunPcs
    BY <1>8, Notes, Undoing DEF Imported
  <2> HIDE DEF RunPcs, CleanerPcs, Over
  <2> QED BY <1>8, <2>1 DEF Imported, Things, Marks, Listeners
<1>9. ASSUME BridgeStart PROVE TypeOK'
  <2>1. pc' \in RunPcs
    BY <1>9, Notes, Undoing DEF BridgeStart, Open
  <2> HIDE DEF RunPcs, CleanerPcs, Over
  <2> QED BY <1>9, <2>1 DEF BridgeStart, Open, Things, Marks, Listeners
<1>10. ASSUME ProxyStart PROVE TypeOK'
  <2>1. pc' \in RunPcs
    BY <1>10, Notes, Undoing DEF ProxyStart, Open
  <2> HIDE DEF RunPcs, CleanerPcs, Over
  <2> QED BY <1>10, <2>1 DEF ProxyStart, Open, Things, Marks, Listeners
<1>11. ASSUME StartRule PROVE TypeOK'
  <2>1. pc' \in RunPcs
    BY <1>11, Notes, Undoing DEF StartRule
  <2> HIDE DEF RunPcs, CleanerPcs, Over
  <2> QED BY <1>11, <2>1 DEF StartRule, Things, Marks, Listeners
<1>12. ASSUME Collect PROVE TypeOK'
  BY <1>12, Notes, Undoing DEF Collect
<1>13. ASSUME CleanupUndo PROVE TypeOK'
  <2>1. present' \subseteq Things /\ known' \subseteq Things /\ errs' \in BOOLEAN
    BY <1>13, OneUndone DEF TypeOK
  <2>2. pc' \in RunPcs
    BY <1>13, OneUndone, Undoing DEF RunPcs
  <2> QED BY <1>13, <2>1, <2>2 DEF CleanupUndo, TypeOK, files, cleaner, counts, history
<1>14. ASSUME CleanupReceipt PROVE TypeOK'
  <2>1. receipt'.success \in BOOLEAN /\ receipt'.clean \subseteq Things
    <3>1. CASE receipt' = [success |-> ~errs, clean |-> Things \ known]
      BY <3>1, ReceiptFields DEF TypeOK
    <3> QED BY <1>14, <3>1 DEF CleanupReceipt, TypeOK
  <2>2. pc' \in RunPcs /\ errs' \in BOOLEAN
    BY <1>14 DEF CleanupReceipt, Goto, RunPcs, TypeOK
  <2> QED BY <1>14, <2>1, <2>2 DEF CleanupReceipt, TypeOK, machine, cleaner, counts, history
<1>15. ASSUME CleanupManifest PROVE TypeOK'
  <2>1. pc' \in RunPcs
    BY <1>15, Notes, Undoing DEF CleanupManifest
  <2> HIDE DEF RunPcs, CleanerPcs, Over
  <2> QED BY <1>15, <2>1 DEF CleanupManifest
<1>16. ASSUME CleanupRemoveState PROVE TypeOK'
  <2>1. pc' \in RunPcs
    BY <1>16, Notes, Undoing DEF CleanupRemoveState
  <2> HIDE DEF RunPcs, CleanerPcs, Over
  <2> QED BY <1>16, <2>1 DEF CleanupRemoveState, Things, Marks, Listeners
<1>17. ASSUME CleanupRemoveDir PROVE TypeOK'
  <2>1. pc' \in RunPcs
    BY <1>17, Notes, Undoing DEF CleanupRemoveDir
  <2> HIDE DEF RunPcs, CleanerPcs, Over
  <2> QED BY <1>17, <2>1 DEF CleanupRemoveDir
<1>18. ASSUME CleanupKeep PROVE TypeOK'
  <2>1. saved' \subseteq Marks /\ hasState' \in BOOLEAN
    BY <1>18 DEF CleanupKeep, WriteState, NoteFails, TypeOK
  <2>2. faults' \in 0..MaxFaults
    BY <1>18, PocAssumption DEF CleanupKeep, NoteFails, TypeOK
  <2> QED BY <1>18, <2>1, <2>2 DEF CleanupKeep, Goto, RunPcs, Over, TypeOK, machine, cleaner
<1>19. ASSUME Crash PROVE TypeOK'
  <2>1. litter' \in BOOLEAN
    BY <1>19 DEF Crash, TypeOK
  <2>2. faults' \in 0..MaxFaults
    BY <1>19, PocAssumption DEF Crash, TypeOK
  <2>3. slipped' \subseteq Things
    BY <1>19 DEF Crash, Pending, TypeOK, Things, Marks
  <2> QED BY <1>19, <2>1, <2>2, <2>3 DEF Crash, Ends, Goto, RunPcs, Over, TypeOK, cleaner
<1>20. ASSUME CleanerStart PROVE TypeOK'
  <2>1. overlaps' \in 0..MaxOverlaps
    BY <1>20, PocAssumption DEF CleanerStart, TypeOK
  <2>2. cpc' \in CleanerPcs
    BY <1>20, Notes, Undoing DEF CleanerStart
  <2>3. loaded' \subseteq Things /\ slipped' \subseteq Things
    BY <1>20 DEF CleanerStart, TypeOK, Things, Marks, Listeners
  <2> QED BY <1>20, <2>1, <2>2, <2>3 DEF CleanerStart, TypeOK, machine, files, run
<1>21. ASSUME CleanerUndo PROVE TypeOK'
  <2>1. present' \subseteq Things /\ loaded' \subseteq Things /\ cerrs' \in BOOLEAN
    BY <1>21, OneCleaned DEF TypeOK
  <2>2. cpc' \in CleanerPcs
    BY <1>21, OneCleaned, Undoing DEF CleanerPcs
  <2> QED BY <1>21, <2>1, <2>2 DEF CleanerUndo, CleanerUndoes, TypeOK, files, run, counts, history
<1>22. ASSUME CleanerKeep PROVE TypeOK'
  <2>1. saved' \subseteq Marks /\ hasState' \in BOOLEAN
    BY <1>22 DEF CleanerKeep, WriteState, TypeOK
  <2>2. cpc' \in CleanerPcs /\ loaded' \subseteq Things
    BY <1>22 DEF CleanerKeep, CleanerPcs, TypeOK
  <2> QED BY <1>22, <2>1, <2>2 DEF CleanerKeep, TypeOK, machine, run, counts, history
<1>23. ASSUME CleanerReceipt PROVE TypeOK'
  <2>1. receipt'.success \in BOOLEAN /\ receipt'.clean \subseteq Things
    <3>1. CASE receipt' = [success |-> ~cerrs, clean |-> Things \ loaded]
      BY <3>1, ReceiptFields DEF TypeOK
    <3> QED BY <1>23, <3>1 DEF CleanerReceipt, TypeOK
  <2>2. cpc' \in CleanerPcs /\ loaded' \subseteq Things /\ cerrs' \in BOOLEAN
    BY <1>23 DEF CleanerReceipt, CleanerExits, CleanerPcs, TypeOK
  <2> QED BY <1>23, <2>1, <2>2 DEF CleanerReceipt, TypeOK, machine, run, counts, history
<1>24. ASSUME CleanerRemoveState PROVE TypeOK'
  <2>1. saved' \subseteq Marks /\ hasState' \in BOOLEAN
    BY <1>24 DEF CleanerRemoveState, TypeOK
  <2>2. cpc' \in CleanerPcs /\ loaded' \subseteq Things /\ cerrs' \in BOOLEAN
    BY <1>24 DEF CleanerRemoveState, CleanerExits, CleanerPcs, TypeOK
  <2> QED BY <1>24, <2>1, <2>2 DEF CleanerRemoveState, TypeOK, machine, run, counts, history
<1>25. ASSUME CleanerRemoveDir PROVE TypeOK'
  <2>1. cpc' \in CleanerPcs
    BY <1>25, Notes, Undoing DEF CleanerRemoveDir, CleanerExits
  <2> HIDE DEF RunPcs, CleanerPcs, Over
  <2> QED BY <1>25, <2>1 DEF CleanerRemoveDir, CleanerExits, Things, Marks, Listeners
<1>26. ASSUME CleanerCrash PROVE TypeOK'
  <2>1. litter' \in BOOLEAN
    BY <1>26 DEF CleanerCrash, TypeOK
  <2>2. cpc' \in CleanerPcs /\ loaded' \subseteq Things /\ cerrs' \in BOOLEAN
    BY <1>26 DEF CleanerCrash, CleanerExits, CleanerPcs
  <2>3. cleanerDeaths' \in 0..MaxCleanerDeaths
    BY <1>26, PocAssumption DEF CleanerCrash, TypeOK
  <2> QED BY <1>26, <2>1, <2>2, <2>3 DEF CleanerCrash, TypeOK, machine, run
<1>27. ASSUME UNCHANGED vars PROVE TypeOK'
  BY <1>27 DEF vars
<1> QED BY <1>1, <1>2, <1>3, <1>4, <1>5, <1>6, <1>7, <1>8, <1>9, <1>10, <1>11, <1>12, <1>13, <1>14, <1>15, <1>16, <1>17, <1>18, <1>19, <1>20, <1>21, <1>22, <1>23, <1>24, <1>25, <1>26, <1>27
       DEF Next, RunNext, CleanerNext

----------------------------------------------------------------------------
(* No step loses sight of what it has put on the machine (Runtime.Run). *)
LEMMA RunKnowsKept ==
    ASSUME TypeOK, TypeOK', Inv, [Next]_vars
    PROVE  RunKnows'
<1> USE DEF Inv, RunKnows, RunLeads, Early, Ahead, Over, Ended, machine, files, run, cleaner, counts, history, Goto, GiveUp, Ends
<1>1. ASSUME RunStart PROVE RunKnows'
  BY <1>1, Notes DEF RunStart, SetUp
<1>2. ASSUME CreateCA PROVE RunKnows'
  BY <1>2, Notes DEF CreateCA, SetUp
<1>3. ASSUME WriteCA PROVE RunKnows'
  BY <1>3, Notes DEF WriteCA, SetUp
<1>4. ASSUME Note PROVE RunKnows'
  BY <1>4, Notes DEF Note, WriteState, NoteFails, SetUp
<1>5. ASSUME Approve PROVE RunKnows'
  BY <1>5, Notes DEF Approve, SetUp
<1>6. ASSUME InstallFails PROVE RunKnows'
  BY <1>6, Notes DEF InstallFails, SetUp
<1>7. ASSUME Import PROVE RunKnows'
  BY <1>7, Notes DEF Import, SetUp
<1>8. ASSUME Imported PROVE RunKnows'
  BY <1>8, Notes DEF Imported, SetUp
<1>9. ASSUME BridgeStart PROVE RunKnows'
  BY <1>9, Notes DEF BridgeStart, Open, SetUp
<1>10. ASSUME ProxyStart PROVE RunKnows'
  BY <1>10, Notes DEF ProxyStart, Open, SetUp
<1>11. ASSUME StartRule PROVE RunKnows'
  BY <1>11, Notes DEF StartRule, SetUp
<1>12. ASSUME Collect PROVE RunKnows'
  BY <1>12, Notes DEF Collect, SetUp
<1>13. ASSUME CleanupUndo PROVE RunKnows'
  BY <1>13, Notes, Undoing DEF CleanupUndo, PartOf, SetUp
<1>14. ASSUME CleanupReceipt PROVE RunKnows'
  BY <1>14, Notes DEF CleanupReceipt, SetUp
<1>15. ASSUME CleanupManifest PROVE RunKnows'
  BY <1>15, Notes DEF CleanupManifest, SetUp
<1>16. ASSUME CleanupRemoveState PROVE RunKnows'
  BY <1>16, Notes DEF CleanupRemoveState, UndoneInOrder, Closed, Listeners, SetUp
<1>17. ASSUME CleanupRemoveDir PROVE RunKnows'
  BY <1>17, Notes DEF CleanupRemoveDir, UndoneInOrder, Closed, Listeners, SetUp
<1>18. ASSUME CleanupKeep PROVE RunKnows'
  BY <1>18, Notes DEF CleanupKeep, WriteState, NoteFails, UndoneInOrder, Closed, Listeners, SetUp
<1>19. ASSUME Crash PROVE RunKnows'
  BY <1>19, Notes DEF Crash, SetUp
<1>20. ASSUME CleanerStart PROVE RunKnows'
  BY <1>20 DEF CleanerStart
<1>21. ASSUME CleanerUndo PROVE RunKnows'
  BY <1>21, Undoing DEF CleanerUndo, CleanerUndoes
<1>22. ASSUME CleanerKeep PROVE RunKnows'
  BY <1>22 DEF CleanerKeep, WriteState
<1>23. ASSUME CleanerReceipt PROVE RunKnows'
  BY <1>23 DEF CleanerReceipt, CleanerExits
<1>24. ASSUME CleanerRemoveState PROVE RunKnows'
  BY <1>24 DEF CleanerRemoveState, CleanerExits
<1>25. ASSUME CleanerRemoveDir PROVE RunKnows'
  BY <1>25 DEF CleanerRemoveDir, CleanerExits
<1>26. ASSUME CleanerCrash PROVE RunKnows'
  BY <1>26 DEF CleanerCrash, CleanerExits
<1>27. ASSUME UNCHANGED vars PROVE RunKnows'
  BY <1>27 DEF vars
<1> QED BY <1>1, <1>2, <1>3, <1>4, <1>5, <1>6, <1>7, <1>8, <1>9, <1>10, <1>11, <1>12, <1>13, <1>14, <1>15, <1>16, <1>17, <1>18, <1>19, <1>20, <1>21, <1>22, <1>23, <1>24, <1>25, <1>26, <1>27
       DEF Next, RunNext, CleanerNext

----------------------------------------------------------------------------
(* A clean-up beside the run, or one before, has not read of what comes next. *)
LEMMA RunLeadsKept ==
    ASSUME TypeOK, TypeOK', Inv, [Next]_vars
    PROVE  RunLeads'
<1> USE DEF Inv, RunLeads, Ahead, SetUp, RunKnows, Early, Marks, Listeners, Over, Ended, machine, files, run, cleaner, counts, history, Goto, GiveUp, Ends
<1>1. ASSUME RunStart PROVE RunLeads'
  BY <1>1, Notes, Undoing DEF RunStart, StateFollows
<1>2. ASSUME CreateCA PROVE RunLeads'
  BY <1>2, Notes, Undoing DEF CreateCA
<1>3. ASSUME WriteCA PROVE RunLeads'
  BY <1>3, Notes, Undoing DEF WriteCA
<1>4. ASSUME Note PROVE RunLeads'
  BY <1>4, Notes, Undoing DEF Note, WriteState, NoteFails
<1>5. ASSUME Approve PROVE RunLeads'
  BY <1>5, Notes, Undoing DEF Approve
<1>6. ASSUME InstallFails PROVE RunLeads'
  BY <1>6, Notes, Undoing DEF InstallFails
<1>7. ASSUME Import PROVE RunLeads'
  BY <1>7, Notes, Undoing DEF Import
<1>8. ASSUME Imported PROVE RunLeads'
  BY <1>8, Notes, Undoing DEF Imported
<1>9. ASSUME BridgeStart PROVE RunLeads'
  BY <1>9, Notes, Undoing DEF BridgeStart, Open
<1>10. ASSUME ProxyStart PROVE RunLeads'
  BY <1>10, Notes, Undoing DEF ProxyStart, Open
<1>11. ASSUME StartRule PROVE RunLeads'
  BY <1>11, Notes, Undoing DEF StartRule
<1>12. ASSUME Collect PROVE RunLeads'
  BY <1>12, Notes, Undoing DEF Collect
<1>13. ASSUME CleanupUndo PROVE RunLeads'
  BY <1>13, Notes, Undoing DEF CleanupUndo, PartOf
<1>14. ASSUME CleanupReceipt PROVE RunLeads'
  BY <1>14, Notes, Undoing DEF CleanupReceipt
<1>15. ASSUME CleanupManifest PROVE RunLeads'
  BY <1>15, Notes, Undoing DEF CleanupManifest
<1>16. ASSUME CleanupRemoveState PROVE RunLeads'
  BY <1>16, Notes, Undoing DEF CleanupRemoveState
<1>17. ASSUME CleanupRemoveDir PROVE RunLeads'
  BY <1>17, Notes, Undoing DEF CleanupRemoveDir
<1>18. ASSUME CleanupKeep PROVE RunLeads'
  BY <1>18, Notes, Undoing DEF CleanupKeep, WriteState, NoteFails
<1>19. ASSUME Crash PROVE RunLeads'
  BY <1>19, Notes, Undoing DEF Crash
<1>20. ASSUME CleanerStart PROVE RunLeads'
  <2>1. pc' = pc /\ known' = known /\ saved' = saved /\ pc \notin Early
    BY <1>20 DEF CleanerStart
  <2>2. pc \in SetUp => loaded' \subseteq known
    BY <1>20, <2>1, Notes DEF CleanerStart
  <2>3. Ahead(pc) \subseteq slipped'
    <3>1. CASE pc \in SetUp
      <4>1. slipped' = slipped \cup (Things \ loaded')
        BY <1>20, <3>1, Notes DEF CleanerStart
      <4>2. Ahead(pc) \subseteq Things /\ Ahead(pc) \cap loaded' = {}
        BY <2>2, <3>1 DEF Things
      <4> QED BY <4>1, <4>2
    <3>2. CASE pc \notin SetUp
      BY <2>1, <3>2, Notes
    <3> QED BY <3>1, <3>2
  <2> QED BY <1>20, <2>1, <2>2, <2>3
<1>21. ASSUME CleanerUndo PROVE RunLeads'
  BY <1>21, Notes, Undoing DEF CleanerUndo, CleanerUndoes
<1>22. ASSUME CleanerKeep PROVE RunLeads'
  BY <1>22, Notes, Undoing DEF CleanerKeep, WriteState
<1>23. ASSUME CleanerReceipt PROVE RunLeads'
  BY <1>23, Notes, Undoing DEF CleanerReceipt, CleanerExits
<1>24. ASSUME CleanerRemoveState PROVE RunLeads'
  BY <1>24, Notes, Undoing DEF CleanerRemoveState, CleanerExits
<1>25. ASSUME CleanerRemoveDir PROVE RunLeads'
  BY <1>25, Notes, Undoing DEF CleanerRemoveDir, CleanerExits
<1>26. ASSUME CleanerCrash PROVE RunLeads'
  BY <1>26, Notes, Undoing DEF CleanerCrash, CleanerExits
<1>27. ASSUME UNCHANGED vars PROVE RunLeads'
  BY <1>27, Notes, Undoing DEF vars
<1> QED BY <1>1, <1>2, <1>3, <1>4, <1>5, <1>6, <1>7, <1>8, <1>9, <1>10, <1>11, <1>12, <1>13, <1>14, <1>15, <1>16, <1>17, <1>18, <1>19, <1>20, <1>21, <1>22, <1>23, <1>24, <1>25, <1>26, <1>27
       DEF Next, RunNext, CleanerNext

----------------------------------------------------------------------------
(* cleanupState undoes the proxy first, then the bridge, certificate, secrets. *)
LEMMA UndoneInOrderKept ==
    ASSUME TypeOK, TypeOK', Inv, [Next]_vars
    PROVE  UndoneInOrder'
<1> USE DEF Inv, UndoneInOrder, Closed, RunKnows, Over, machine, files, run, cleaner, counts,
           history, Goto, GiveUp, Ends
<1>1. ASSUME RunStart PROVE UndoneInOrder'
  BY <1>1 DEF RunStart
<1>2. ASSUME CreateCA PROVE UndoneInOrder'
  BY <1>2 DEF CreateCA
<1>3. ASSUME WriteCA PROVE UndoneInOrder'
  BY <1>3 DEF WriteCA
<1>4. ASSUME Note PROVE UndoneInOrder'
  BY <1>4, Notes DEF Note, WriteState, NoteFails
<1>5. ASSUME Approve PROVE UndoneInOrder'
  BY <1>5 DEF Approve
<1>6. ASSUME InstallFails PROVE UndoneInOrder'
  BY <1>6 DEF InstallFails
<1>7. ASSUME Import PROVE UndoneInOrder'
  BY <1>7 DEF Import
<1>8. ASSUME Imported PROVE UndoneInOrder'
  BY <1>8 DEF Imported
<1>9. ASSUME BridgeStart PROVE UndoneInOrder'
  BY <1>9 DEF BridgeStart, Open
<1>10. ASSUME ProxyStart PROVE UndoneInOrder'
  BY <1>10 DEF ProxyStart, Open
<1>11. ASSUME StartRule PROVE UndoneInOrder'
  BY <1>11 DEF StartRule
<1>12. ASSUME Collect PROVE UndoneInOrder'
  BY <1>12 DEF Collect
<1>13. ASSUME CleanupUndo PROVE UndoneInOrder'
  <2>6. known \subseteq {"proxy", "driver", "bridge", "certificate", "secrets"} /\ present \subseteq known \cup {"certificate"}
    BY <1>13, OneUndone, Undoing DEF TypeOK, Inv, RunKnows, Over, Things, Marks, Listeners
  <2>1. CASE pc = "stopProxy"
    <3>1. pc' = "closeBridge"
      BY <1>13, <2>1, OneUndone, Undoing
    <3>2. ~errs' => known' \subseteq {"bridge", "certificate", "secrets"}
      BY <1>13, <2>6, <2>1, OneUndone, Undoing
    <3>3. "proxy" \notin present'
      BY <1>13, <2>6, <2>1, OneUndone, Undoing DEF Listeners
    <3> QED BY <1>13, <3>1, <3>2, <3>3 DEF UndoneInOrder, Closed
  <2>2. CASE pc = "closeBridge"
    <3>1. pc' = "removeCert"
      BY <1>13, <2>2, OneUndone, Undoing
    <3>2. ~errs' => known' \subseteq {"certificate", "secrets"}
      BY <1>13, <2>2, OneUndone, Undoing DEF Inv, UndoneInOrder
    <3>3. "proxy" \notin present' /\ "bridge" \notin present'
      BY <1>13, <2>6, <2>2, OneUndone, Undoing DEF Listeners, Inv, UndoneInOrder
    <3> QED BY <1>13, <3>1, <3>2, <3>3 DEF UndoneInOrder, Closed
  <2>3. CASE pc = "removeCert"
    <3>1. pc' = "destroy"
      BY <1>13, <2>3, OneUndone, Undoing
    <3>2. ~errs' => known' \subseteq {"secrets"}
      BY <1>13, <2>3, OneUndone, Undoing DEF Inv, UndoneInOrder
    <3>3. "proxy" \notin present' /\ "bridge" \notin present'
      BY <1>13, <2>3, OneUndone, Undoing DEF Inv, UndoneInOrder, Closed
    <3> QED BY <1>13, <3>1, <3>2, <3>3 DEF UndoneInOrder, Closed
  <2>4. CASE pc = "destroy"
    <3>1. pc' = "receipt"
      BY <1>13, <2>4, OneUndone, Undoing
    <3>2. ~errs' => known' = {}
      BY <1>13, <2>4, OneUndone, Undoing DEF Inv, UndoneInOrder
    <3>3. "proxy" \notin present' /\ "bridge" \notin present'
      BY <1>13, <2>4, OneUndone, Undoing DEF Inv, UndoneInOrder, Closed
    <3> QED BY <1>13, <3>1, <3>2, <3>3 DEF UndoneInOrder, Closed
  <2> QED BY <1>13, <2>1, <2>2, <2>3, <2>4, OneUndone, Undoing
<1>14. ASSUME CleanupReceipt PROVE UndoneInOrder'
  BY <1>14 DEF CleanupReceipt
<1>15. ASSUME CleanupManifest PROVE UndoneInOrder'
  BY <1>15 DEF CleanupManifest
<1>16. ASSUME CleanupRemoveState PROVE UndoneInOrder'
  BY <1>16 DEF CleanupRemoveState
<1>17. ASSUME CleanupRemoveDir PROVE UndoneInOrder'
  BY <1>17 DEF CleanupRemoveDir
<1>18. ASSUME CleanupKeep PROVE UndoneInOrder'
  BY <1>18 DEF CleanupKeep, WriteState, NoteFails
<1>19. ASSUME Crash PROVE UndoneInOrder'
  BY <1>19, Notes DEF Crash
<1>20. ASSUME CleanerStart PROVE UndoneInOrder'
  BY <1>20 DEF CleanerStart
<1>21. ASSUME CleanerUndo PROVE UndoneInOrder'
  BY <1>21, Undoing DEF CleanerUndo, CleanerUndoes
<1>22. ASSUME CleanerKeep PROVE UndoneInOrder'
  BY <1>22 DEF CleanerKeep, WriteState
<1>23. ASSUME CleanerReceipt PROVE UndoneInOrder'
  BY <1>23 DEF CleanerReceipt, CleanerExits
<1>24. ASSUME CleanerRemoveState PROVE UndoneInOrder'
  BY <1>24 DEF CleanerRemoveState, CleanerExits
<1>25. ASSUME CleanerRemoveDir PROVE UndoneInOrder'
  BY <1>25 DEF CleanerRemoveDir, CleanerExits
<1>26. ASSUME CleanerCrash PROVE UndoneInOrder'
  BY <1>26 DEF CleanerCrash, CleanerExits
<1>27. ASSUME UNCHANGED vars PROVE UndoneInOrder'
  BY <1>27 DEF vars
<1> QED BY <1>1, <1>2, <1>3, <1>4, <1>5, <1>6, <1>7, <1>8, <1>9, <1>10, <1>11, <1>12, <1>13, <1>14, <1>15, <1>16, <1>17, <1>18, <1>19, <1>20, <1>21, <1>22, <1>23, <1>24, <1>25, <1>26, <1>27
       DEF Next, RunNext, CleanerNext

----------------------------------------------------------------------------
(* state.json names what there is at every point where the run may die. *)
LEMMA StateFollowsKept ==
    ASSUME TypeOK, TypeOK', Inv, [Next]_vars
    PROVE  StateFollows'
<1> USE DEF Inv, StateFollows, Named, Lasting, Pending, RunKnows, CleanerKnows, UndoneInOrder, Closed,
           Over, Ended, Early, machine, files, run, cleaner, counts, history, Goto, GiveUp, Ends
<1>1. ASSUME RunStart PROVE StateFollows'
  BY <1>1 DEF RunStart
<1>2. ASSUME CreateCA PROVE StateFollows'
  BY <1>2 DEF CreateCA
<1>3. ASSUME WriteCA PROVE StateFollows'
  BY <1>3 DEF WriteCA
<1>4. ASSUME Note PROVE StateFollows'
  <2>1. CASE WriteState(known \cap Marks) /\ Goto(AfterNote[pc]) /\ UNCHANGED <<faults, unsaid>>
    BY <1>4, <2>1, Notes DEF Note, WriteState, Marks, Listeners
  <2>2. CASE NoteFails /\ GiveUp /\ unsaid' = unsaid \cup Pending(pc)
    BY <1>4, <2>2, Notes DEF Note, NoteFails
  <2> QED BY <1>4, <2>1, <2>2 DEF Note
<1>5. ASSUME Approve PROVE StateFollows'
  BY <1>5 DEF Approve
<1>6. ASSUME InstallFails PROVE StateFollows'
  BY <1>6 DEF InstallFails
<1>7. ASSUME Import PROVE StateFollows'
  BY <1>7 DEF Import
<1>8. ASSUME Imported PROVE StateFollows'
  BY <1>8 DEF Imported
<1>9. ASSUME BridgeStart PROVE StateFollows'
  BY <1>9 DEF BridgeStart, Open
<1>10. ASSUME ProxyStart PROVE StateFollows'
  BY <1>10 DEF ProxyStart, Open
<1>11. ASSUME StartRule PROVE StateFollows'
  BY <1>11 DEF StartRule
<1>12. ASSUME Collect PROVE StateFollows'
  BY <1>12 DEF Collect
<1>13. ASSUME CleanupUndo PROVE StateFollows'
  BY <1>13, Undoing DEF CleanupUndo, PartOf, Listeners
<1>14. ASSUME CleanupReceipt PROVE StateFollows'
  BY <1>14 DEF CleanupReceipt
<1>15. ASSUME CleanupManifest PROVE StateFollows'
  BY <1>15 DEF CleanupManifest
<1>16. ASSUME CleanupRemoveState PROVE StateFollows'
  BY <1>16 DEF CleanupRemoveState
<1>17. ASSUME CleanupRemoveDir PROVE StateFollows'
  BY <1>17 DEF CleanupRemoveDir
<1>18. ASSUME CleanupKeep PROVE StateFollows'
  BY <1>18 DEF CleanupKeep, WriteState, NoteFails, Marks, Listeners
<1>19. ASSUME Crash PROVE StateFollows'
  BY <1>19, Notes DEF Crash
<1>20. ASSUME CleanerStart PROVE StateFollows'
  BY <1>20 DEF CleanerStart, Listeners
<1>21. ASSUME CleanerUndo PROVE StateFollows'
  BY <1>21, Undoing DEF CleanerUndo, CleanerUndoes
<1>22. ASSUME CleanerKeep PROVE StateFollows'
  BY <1>22 DEF CleanerKeep, WriteState, Listeners, Marks
<1>23. ASSUME CleanerReceipt PROVE StateFollows'
  BY <1>23 DEF CleanerReceipt, CleanerExits
<1>24. ASSUME CleanerRemoveState PROVE StateFollows'
  BY <1>24 DEF CleanerRemoveState, CleanerExits
<1>25. ASSUME CleanerRemoveDir PROVE StateFollows'
  BY <1>25 DEF CleanerRemoveDir, CleanerExits
<1>26. ASSUME CleanerCrash PROVE StateFollows'
  BY <1>26 DEF CleanerCrash, CleanerExits
<1>27. ASSUME UNCHANGED vars PROVE StateFollows'
  BY <1>27 DEF vars
<1> QED BY <1>1, <1>2, <1>3, <1>4, <1>5, <1>6, <1>7, <1>8, <1>9, <1>10, <1>11, <1>12, <1>13, <1>14, <1>15, <1>16, <1>17, <1>18, <1>19, <1>20, <1>21, <1>22, <1>23, <1>24, <1>25, <1>26, <1>27
       DEF Next, RunNext, CleanerNext

----------------------------------------------------------------------------
(* cleanupPersistedRuntime owes what is still there, by the state it read. *)
LEMMA CleanerKnowsKept ==
    ASSUME TypeOK, TypeOK', Inv, [Next]_vars
    PROVE  CleanerKnows'
<1> USE DEF Inv, CleanerKnows, RunKnows, RunLeads, StateFollows, Named, Lasting, Early, Ahead, Over, Ended, machine, files,
           run, cleaner, counts, history, Goto, GiveUp, Ends
<1>1. ASSUME RunStart PROVE CleanerKnows'
  BY <1>1 DEF RunStart, Listeners
<1>2. ASSUME CreateCA PROVE CleanerKnows'
  BY <1>2 DEF CreateCA, Listeners
<1>3. ASSUME WriteCA PROVE CleanerKnows'
  BY <1>3 DEF WriteCA, Listeners
<1>4. ASSUME Note PROVE CleanerKnows'
  BY <1>4, Notes DEF Note, WriteState, NoteFails, Listeners, Marks
<1>5. ASSUME Approve PROVE CleanerKnows'
  BY <1>5 DEF Approve, Listeners
<1>6. ASSUME InstallFails PROVE CleanerKnows'
  BY <1>6 DEF InstallFails, Listeners
<1>7. ASSUME Import PROVE CleanerKnows'
  BY <1>7 DEF Import, Listeners, Marks
<1>8. ASSUME Imported PROVE CleanerKnows'
  BY <1>8 DEF Imported, Listeners
<1>9. ASSUME BridgeStart PROVE CleanerKnows'
  BY <1>9 DEF BridgeStart, Open, Listeners
<1>10. ASSUME ProxyStart PROVE CleanerKnows'
  BY <1>10 DEF ProxyStart, Open, Listeners
<1>11. ASSUME StartRule PROVE CleanerKnows'
  BY <1>11 DEF StartRule, Listeners
<1>12. ASSUME Collect PROVE CleanerKnows'
  BY <1>12 DEF Collect, Listeners
<1>13. ASSUME CleanupUndo PROVE CleanerKnows'
  BY <1>13, Undoing DEF CleanupUndo, PartOf, Listeners
<1>14. ASSUME CleanupReceipt PROVE CleanerKnows'
  BY <1>14 DEF CleanupReceipt, Listeners, Things, TypeOK
<1>15. ASSUME CleanupManifest PROVE CleanerKnows'
  BY <1>15 DEF CleanupManifest, Listeners
<1>16. ASSUME CleanupRemoveState PROVE CleanerKnows'
  BY <1>16 DEF CleanupRemoveState, Listeners
<1>17. ASSUME CleanupRemoveDir PROVE CleanerKnows'
  BY <1>17 DEF CleanupRemoveDir, Listeners
<1>18. ASSUME CleanupKeep PROVE CleanerKnows'
  BY <1>18 DEF CleanupKeep, WriteState, NoteFails, Listeners, Marks
<1>19. ASSUME Crash PROVE CleanerKnows'
  BY <1>19, Notes DEF Crash, Listeners
<1>20. ASSUME CleanerStart PROVE CleanerKnows'
  <2>1. cpc' = "stopProxy" /\ present' = present /\ present \cap Listeners = {}
    BY <1>20 DEF CleanerStart
  <2>2. present \subseteq loaded' \cup slipped'
    <3>1. CASE pc \in Over
      <4>1. unsaid = {} /\ Pending(pc) = {} /\ loaded' = saved \cup {"secrets"} /\ slipped' = slipped
        BY <1>20, <3>1 DEF CleanerStart, Pending
      <4>2. \A t \in present : t \in Lasting
        BY <2>1 DEF TypeOK, Things, Marks, Listeners
      <4> QED BY <4>1, <4>2
    <3>2. CASE pc \notin Over
      BY <1>20, <3>2 DEF CleanerStart, TypeOK
    <3> QED BY <3>1, <3>2
  <2> QED BY <2>1, <2>2
<1>21. ASSUME CleanerUndo PROVE CleanerKnows'
  <2>6. loaded \subseteq {"proxy", "driver", "bridge", "certificate", "secrets"}
    BY <1>21 DEF TypeOK, Things, Marks, Listeners
  <2>5. present' \subseteq loaded' \cup slipped' /\ present' \cap Listeners \subseteq slipped'
    <3>1. slipped' = slipped /\ present \subseteq loaded \cup slipped /\ present \cap Listeners \subseteq slipped
      BY <1>21, Undoing DEF CleanerUndo, CleanerUndoes
    <3> QED BY <1>21, <3>1, OneCleaned
  <2>1. CASE cpc = "stopProxy"
    <3>1. cpc' = "removeCert" /\ (~cerrs' => "driver" \notin loaded')
      BY <1>21, <2>1, OneCleaned, Undoing
    <3> QED BY <2>5, <3>1
  <2>2. CASE cpc = "removeCert"
    <3>1. cpc' = "destroy" /\ (~cerrs' => "driver" \notin loaded' /\ "certificate" \notin loaded')
      BY <1>21, <2>2, OneCleaned, Undoing
    <3> QED BY <2>5, <3>1
  <2>3. CASE cpc = "destroy"
    <3>1. cpc' = "keep" /\ (~cerrs' => loaded' \subseteq Listeners)
      BY <1>21, <2>6, <2>3, OneCleaned, Undoing DEF Listeners
    <3> QED BY <2>5, <3>1
  <2> QED BY <1>21, <2>1, <2>2, <2>3, OneCleaned, Undoing
<1>22. ASSUME CleanerKeep PROVE CleanerKnows'
  BY <1>22 DEF CleanerKeep, WriteState, Listeners, Marks
<1>23. ASSUME CleanerReceipt PROVE CleanerKnows'
  BY <1>23 DEF CleanerReceipt, CleanerExits, Listeners, Things, TypeOK
<1>24. ASSUME CleanerRemoveState PROVE CleanerKnows'
  BY <1>24 DEF CleanerRemoveState, CleanerExits, Listeners
<1>25. ASSUME CleanerRemoveDir PROVE CleanerKnows'
  BY <1>25 DEF CleanerRemoveDir, CleanerExits, Listeners
<1>26. ASSUME CleanerCrash PROVE CleanerKnows'
  BY <1>26 DEF CleanerCrash, CleanerExits, Listeners
<1>27. ASSUME UNCHANGED vars PROVE CleanerKnows'
  BY <1>27 DEF vars
<1> QED BY <1>1, <1>2, <1>3, <1>4, <1>5, <1>6, <1>7, <1>8, <1>9, <1>10, <1>11, <1>12, <1>13, <1>14, <1>15, <1>16, <1>17, <1>18, <1>19, <1>20, <1>21, <1>22, <1>23, <1>24, <1>25, <1>26, <1>27
       DEF Next, RunNext, CleanerNext

----------------------------------------------------------------------------
(* Nothing comes back once a receipt or a manifest has called it clean. *)
LEMMA ReceiptsTrueKept ==
    ASSUME TypeOK, TypeOK', Inv, [Next]_vars
    PROVE  ReceiptsTrue'
<1> USE DEF Inv, ReceiptsTrue, CleanerKnows, UndoneInOrder, RunKnows, RunLeads, Early, Ahead, Over, SetUp, NoReceipt,
           machine, files, run, cleaner, counts, history, Goto, GiveUp, Ends
<1>1. ASSUME RunStart PROVE ReceiptsTrue'
  BY <1>1, Notes, Undoing DEF RunStart
<1>2. ASSUME CreateCA PROVE ReceiptsTrue'
  BY <1>2, Notes, Undoing DEF CreateCA
<1>3. ASSUME WriteCA PROVE ReceiptsTrue'
  BY <1>3, Notes, Undoing DEF WriteCA
<1>4. ASSUME Note PROVE ReceiptsTrue'
  BY <1>4, Notes, Undoing DEF Note, WriteState, NoteFails, Marks
<1>5. ASSUME Approve PROVE ReceiptsTrue'
  BY <1>5, Notes, Undoing DEF Approve
<1>6. ASSUME InstallFails PROVE ReceiptsTrue'
  BY <1>6, Notes, Undoing DEF InstallFails
<1>7. ASSUME Import PROVE ReceiptsTrue'
  BY <1>7, Notes, Undoing DEF Import, Marks, Listeners
<1>8. ASSUME Imported PROVE ReceiptsTrue'
  BY <1>8, Notes, Undoing DEF Imported
<1>9. ASSUME BridgeStart PROVE ReceiptsTrue'
  BY <1>9, Notes, Undoing DEF BridgeStart, Open
<1>10. ASSUME ProxyStart PROVE ReceiptsTrue'
  BY <1>10, Notes, Undoing DEF ProxyStart, Open
<1>11. ASSUME StartRule PROVE ReceiptsTrue'
  BY <1>11, Notes, Undoing DEF StartRule
<1>12. ASSUME Collect PROVE ReceiptsTrue'
  BY <1>12, Notes, Undoing DEF Collect
<1>13. ASSUME CleanupUndo PROVE ReceiptsTrue'
  BY <1>13, Notes, Undoing DEF CleanupUndo, PartOf, Listeners
<1>14. ASSUME CleanupReceipt PROVE ReceiptsTrue'
  BY <1>14, Notes, Undoing DEF CleanupReceipt, Things, TypeOK
<1>15. ASSUME CleanupManifest PROVE ReceiptsTrue'
  BY <1>15, Notes, Undoing DEF CleanupManifest
<1>16. ASSUME CleanupRemoveState PROVE ReceiptsTrue'
  BY <1>16, Notes, Undoing DEF CleanupRemoveState
<1>17. ASSUME CleanupRemoveDir PROVE ReceiptsTrue'
  BY <1>17, Notes, Undoing DEF CleanupRemoveDir
<1>18. ASSUME CleanupKeep PROVE ReceiptsTrue'
  BY <1>18, Notes, Undoing DEF CleanupKeep, WriteState, NoteFails, Marks
<1>19. ASSUME Crash PROVE ReceiptsTrue'
  BY <1>19, Notes, Undoing DEF Crash, Listeners
<1>20. ASSUME CleanerStart PROVE ReceiptsTrue'
  BY <1>20, Notes, Undoing DEF CleanerStart, Listeners
<1>21. ASSUME CleanerUndo PROVE ReceiptsTrue'
  BY <1>21, Notes, Undoing DEF CleanerUndo, CleanerUndoes
<1>22. ASSUME CleanerKeep PROVE ReceiptsTrue'
  BY <1>22, Notes, Undoing DEF CleanerKeep, WriteState, Marks, Listeners
<1>23. ASSUME CleanerReceipt PROVE ReceiptsTrue'
  <2>1. cpc = "receipt" /\ present' = present /\ manifest' = manifest /\ pc' = pc /\ slipped' = slipped
    BY <1>23 DEF CleanerReceipt
  <2>2. present \subseteq loaded \cup slipped /\ (~cerrs => present \subseteq slipped)
    BY <2>1
  <2>3. receipt'.clean \cap present \subseteq slipped /\ (receipt'.success => present \subseteq slipped)
    <3>1. CASE receipt' = [success |-> ~cerrs, clean |-> Things \ loaded]
      <4>1. receipt'.clean = Things \ loaded /\ (receipt'.success <=> ~cerrs)
        BY <3>1, ReceiptFields DEF TypeOK
      <4> QED BY <2>2, <4>1
    <3>2. CASE receipt' = receipt
      BY <3>2
    <3> QED BY <1>23, <3>1, <3>2 DEF CleanerReceipt
  <2> QED BY <2>1, <2>3
<1>24. ASSUME CleanerRemoveState PROVE ReceiptsTrue'
  BY <1>24, Notes, Undoing DEF CleanerRemoveState, CleanerExits
<1>25. ASSUME CleanerRemoveDir PROVE ReceiptsTrue'
  BY <1>25, Notes, Undoing DEF CleanerRemoveDir, CleanerExits
<1>26. ASSUME CleanerCrash PROVE ReceiptsTrue'
  BY <1>26, Notes, Undoing DEF CleanerCrash, CleanerExits
<1>27. ASSUME UNCHANGED vars PROVE ReceiptsTrue'
  BY <1>27 DEF vars
<1> QED BY <1>1, <1>2, <1>3, <1>4, <1>5, <1>6, <1>7, <1>8, <1>9, <1>10, <1>11, <1>12, <1>13, <1>14, <1>15, <1>16, <1>17, <1>18, <1>19, <1>20, <1>21, <1>22, <1>23, <1>24, <1>25, <1>26, <1>27
       DEF Next, RunNext, CleanerNext

----------------------------------------------------------------------------
(* A machine before any run satisfies both. *)
LEMMA InvStarts == ASSUME Init PROVE Inv
<1>1. receipt = NoReceipt /\ ~receipt.success /\ receipt.clean = {}
  BY DEF Init, NoReceipt
<1>2. pc \notin SetUp
  BY Notes DEF Init, SetUp
<1>3. RunKnows /\ RunLeads
  BY <1>1, <1>2 DEF Init, RunKnows, RunLeads, Ended, Over
<1>4. UndoneInOrder /\ StateFollows /\ CleanerKnows
  BY DEF Init, UndoneInOrder, Closed, StateFollows, CleanerKnows
<1>5. ReceiptsTrue
  BY <1>1 DEF Init, ReceiptsTrue
<1> QED BY <1>3, <1>4, <1>5 DEF Inv

LEMMA TypeStarts == ASSUME Init PROVE TypeOK
<1>1. receipt.success = FALSE /\ receipt.clean = {}
  BY Zenon DEF Init, NoReceipt
<1>2. pc \in RunPcs /\ cpc \in CleanerPcs
  BY DEF Init, RunPcs, CleanerPcs, Over
<1>3. /\ runtimeDir \in BOOLEAN /\ hasState \in BOOLEAN /\ litter \in BOOLEAN
      /\ errs \in BOOLEAN /\ cerrs \in BOOLEAN
  BY Zenon DEF Init
<1>4. faults \in 0..MaxFaults /\ cleanerDeaths \in 0..MaxCleanerDeaths /\ overlaps \in 0..MaxOverlaps
  BY PocAssumption DEF Init
<1> QED BY <1>1, <1>2, <1>3, <1>4 DEF Init, TypeOK

(* Every variable keeps its type, whatever fails and dies. *)
THEOREM TypeCorrect == Spec => []TypeOK
BY TypeStarts, TypeKept, PTL DEF Spec

(* The invariant, whatever fails and dies and whoever starts a clean-up. *)
THEOREM Knowledge == Spec => []Inv
<1>1. TypeOK /\ Inv /\ [Next]_vars => Inv' /\ TypeOK'
  BY TypeKept, RunKnowsKept, RunLeadsKept, UndoneInOrderKept, StateFollowsKept, CleanerKnowsKept,
     ReceiptsTrueKept DEF Inv
<1>2. Init => TypeOK /\ Inv
  BY InvStarts, TypeStarts
<1> QED BY <1>1, <1>2, PTL DEF Spec

(* state.json is given up by neither clean-up before all it names is gone,  *)
(* but for what has slipped (runtime.go:361-381, 549-573).                  *)
THEOREM GivenUpWhenClean == Spec => DiscardedWhenClean
<1>1. TypeOK /\ Inv /\ [Next]_vars => [hasState /\ ~hasState' => present \subseteq slipped]_vars
  <2> SUFFICES ASSUME Inv, Next, hasState, ~hasState'
               PROVE  present \subseteq slipped
    OBVIOUS
  <2>1. CleanupRemoveState \/ CleanerRemoveState
    BY DEF Next, RunNext, CleanerNext, RunStart, CreateCA, WriteCA, Note, NoteFails, WriteState,
           Approve, InstallFails, Import, Imported, BridgeStart, ProxyStart, Open, StartRule,
           Collect, CleanupUndo, CleanupReceipt, CleanupManifest, CleanupRemoveDir, CleanupKeep,
           Crash, CleanerStart, CleanerUndo, CleanerUndoes, CleanerKeep, CleanerReceipt,
           CleanerRemoveDir, CleanerCrash, files
  <2>2. CASE CleanupRemoveState
    BY <2>2 DEF CleanupRemoveState, Inv, RunKnows, UndoneInOrder, Over
  <2>3. CASE CleanerRemoveState
    BY <2>3 DEF CleanerRemoveState, Inv, CleanerKnows
  <2> QED BY <2>1, <2>2, <2>3
<1> QED BY <1>1, TypeCorrect, Knowledge, PTL DEF Spec, DiscardedWhenClean

(* What the run leaves behind, ended or dead, state.json names, so that     *)
(* "wx_channel_poc cleanup" can find it; only what slipped is not named.    *)
THEOREM LeftIsNamed == Spec => []NothingForgotten
<1>1. TypeOK /\ Inv => NothingForgotten
  <2> SUFFICES ASSUME TypeOK, Inv, Quiet
               PROVE  /\ (present \cap Marks) \ slipped \subseteq saved
                      /\ present \ slipped # {} => hasState
    BY DEF NothingForgotten
  <2>1. present \cap Listeners = {} /\ unsaid = {} /\ Pending(pc) = {}
    BY DEF Quiet, Inv, RunKnows, Over, Ended, Pending
  <2>2. \A t \in present : t \in Lasting
    BY <2>1 DEF TypeOK, Things, Marks, Listeners, Lasting
  <2>3. \A t \in present \ slipped : Named(t)
    BY <2>1, <2>2 DEF Inv, StateFollows
  <2> QED BY <2>3 DEF Named, Marks, Listeners
<1> QED BY <1>1, TypeCorrect, Knowledge, PTL

(* No receipt and no manifest calls clean what is still on the machine and  *)
(* has not slipped.                                                         *)
THEOREM ReceiptsAreTrue == Spec => []ReceiptExplained
<1>1. Inv => ReceiptExplained
  BY DEF ReceiptExplained, Inv, ReceiptsTrue
<1> QED BY <1>1, Knowledge, PTL

-----------------------------------------------------------------------------
\* Where the certificate is the test's, and where it has not been yet.
Owning == {"installing", "verifying", "removing", "confirming"}
Before == {"new", "writing", "noting", "asking", "checking", "claiming"}

\* Who claims the certificate, in state.json or in hand, did not find it there.
ForeignInv ==
  /\ foreign => trusted
  /\ foreign => smoke \notin Owning \cup {"claiming"}
  /\ foreign => smokeNote # "claimed" /\ sweepNote # "claimed"
  /\ sweeper = "removing" => sweepNote = "claimed"

\* The test's progress: what it knows of the certificate, and what is there while it has not begun.
ProgressInv ==
  /\ smoke \in Before => certificateAbsent
  /\ smoke \in Owning => ~certificateAbsent
  /\ smoke \in {"new", "writing"} => smokeNote = "none" /\ sweeper = "idle"
  /\ smoke = "new" => trusted = foreign /\ ~smokeSecrets

\* What the receipt in hand says is so, and what one says that has met no error.
ReceiptInv ==
  /\ smokeReceipt.removeVerified => ~trusted /\ certificateAbsent /\ smoke \notin Before \cup Owning
  /\ smokeReceipt.secretsDestroyed => ~smokeSecrets /\ smoke \in {"discarding", "reporting", "over", "dead"}
  /\ smokeReceipt.stateDestroyed => smokeNote = "gone" /\ smoke \in {"reporting", "over", "dead"}
  /\ smoke = "discarding" => smokeReceipt.secretsDestroyed /\ certificateAbsent
  /\ ~smokeReceipt.failed =>
       /\ smoke \in {"removing", "confirming", "destroying", "discarding", "reporting"} => smokeReceipt.installVerified
       /\ smoke \in {"destroying", "discarding", "reporting"} => smokeReceipt.removeVerified
       /\ smoke = "reporting" => smokeReceipt.secretsDestroyed /\ smokeReceipt.stateDestroyed

\* Only a test that has ended has written a receipt.
WrittenInv ==
  /\ smoke # "over" => onDisk = Unwritten
  /\ onDisk.removeVerified => ~trusted
  /\ onDisk.secretsDestroyed => ~smokeSecrets
  /\ ~onDisk.failed => /\ onDisk.installVerified /\ onDisk.removeVerified
                       /\ onDisk.secretsDestroyed /\ smokeNote = "gone"

\* Unless a clean-up began beside the test, state.json says what there is; and a
\* clean-up that gives it up, or takes the certificate out of it, has left nothing of that.
NotedInv ==
  ~overtaken =>
    /\ trusted /\ ~foreign => smokeNote = "claimed" /\ ~certificateAbsent
    /\ smoke \in Owning => smokeNote = "claimed"
    /\ smokeSecrets => smokeNote \in {"none", "plain", "claimed"}
    /\ sweeper # "idle" => smoke \in {"over", "dead"} /\ smokeNote # "none"
    /\ sweeper \in {"destroying", "ending"} /\ (sweepNote = "plain" \/ ~sweepFailed) => ~trusted \/ foreign
    /\ sweeper = "ending" /\ ~sweepFailed => ~smokeSecrets

\* The types, one by one.
SmokeTypes ==
  /\ smoke \in {"new", "writing", "noting", "asking", "checking", "claiming", "installing", "verifying",
                "removing", "confirming", "destroying", "discarding", "reporting", "over", "dead"}
  /\ foreign \in BOOLEAN /\ trusted \in BOOLEAN /\ smokeSecrets \in BOOLEAN /\ certificateAbsent \in BOOLEAN
  /\ sweepFailed \in BOOLEAN /\ overtaken \in BOOLEAN
  /\ smokeNote \in {"none", "plain", "claimed", "emptied", "gone"}
  /\ sweeper \in {"idle", "removing", "destroying", "ending"} /\ sweepNote \in {"plain", "claimed"}
PaperTypes == smokeReceipt \in SmokeReceipts /\ onDisk \in SmokeReceipts

SmokeInv == SmokeTypes /\ PaperTypes /\ ForeignInv /\ ProgressInv /\ ReceiptInv /\ WrittenInv /\ NotedInv

\* What the receipts may be, and what is in one that changes.
LEMMA ReceiptTypes ==
  /\ NoSmokeReceipt \in SmokeReceipts /\ Unwritten \in SmokeReceipts /\ ~NoSmokeReceipt.removeVerified
  /\ ~NoSmokeReceipt.secretsDestroyed /\ ~NoSmokeReceipt.stateDestroyed
  /\ Unwritten.failed /\ ~Unwritten.removeVerified /\ ~Unwritten.secretsDestroyed
BY DEF NoSmokeReceipt, Unwritten, SmokeReceipts

LEMMA SmokeInitInv == SmokeInit => SmokeInv
<1> SUFFICES ASSUME SmokeInit
             PROVE  SmokeInv
  OBVIOUS
<1>1. SmokeTypes
  BY DEF SmokeInit, SmokeTypes
<1>2. PaperTypes
  BY ReceiptTypes DEF SmokeInit, PaperTypes
<1>3. ForeignInv
  BY DEF SmokeInit, ForeignInv, Owning
<1>4. ProgressInv
  BY DEF SmokeInit, ProgressInv, Owning
<1>5. ReceiptInv
  BY ReceiptTypes DEF SmokeInit, ReceiptInv
<1>6. WrittenInv
  BY ReceiptTypes DEF SmokeInit, WrittenInv
<1>7. NotedInv
  BY DEF SmokeInit, NotedInv, Owning
<1> QED BY <1>1, <1>2, <1>3, <1>4, <1>5, <1>6, <1>7 DEF SmokeInv

LEMMA SmokeBeginsKeepsInv ==
  ASSUME SmokeInv, SmokeBegins
  PROVE  SmokeInv'
<1> USE DEF SmokeBegins, SmokeGoes, SmokeFails, sweepVars
<1>0. SmokeTypes /\ PaperTypes /\ ForeignInv /\ ProgressInv /\ ReceiptInv /\ WrittenInv /\ NotedInv
  BY DEF SmokeInv
<1>1. SmokeTypes'
  BY <1>0 DEF SmokeTypes
<1>2. PaperTypes'
  BY <1>0 DEF PaperTypes, SmokeReceipts
<1>3. ForeignInv'
  BY <1>0 DEF ForeignInv, Owning
<1>4. ProgressInv'
  BY <1>0 DEF ProgressInv, Owning, Before
<1>5. ReceiptInv'
  BY <1>0 DEF PaperTypes, ReceiptInv, SmokeReceipts, Before
<1>6. WrittenInv'
  BY <1>0 DEF WrittenInv
<1>7. NotedInv'
  BY <1>0 DEF NotedInv, Owning
<1> QED BY <1>1, <1>2, <1>3, <1>4, <1>5, <1>6, <1>7 DEF SmokeInv

LEMMA SmokeWritesCAKeepsInv ==
  ASSUME SmokeInv, SmokeWritesCA
  PROVE  SmokeInv'
<1> USE ReceiptTypes DEF SmokeWritesCA, SmokeGoes, SmokeFails, sweepVars
<1>0. SmokeTypes /\ PaperTypes /\ ForeignInv /\ ProgressInv /\ ReceiptInv /\ WrittenInv /\ NotedInv
  BY DEF SmokeInv
<1>1. SmokeTypes'
  <2>1. /\ trusted' \in BOOLEAN /\ smokeSecrets' \in BOOLEAN
        /\ certificateAbsent' \in BOOLEAN /\ sweepFailed' \in BOOLEAN
    BY <1>0, Zenon DEF SmokeTypes
  <2>2. /\ foreign' \in BOOLEAN /\ overtaken' \in BOOLEAN
        /\ smokeNote' \in {"none", "plain", "claimed", "emptied", "gone"} /\ sweepNote' \in {"plain", "claimed"}
    BY <1>0 DEF SmokeTypes
  <2>3. /\ smoke' \in {"new", "writing", "noting", "asking", "checking", "claiming", "installing", "verifying",
                      "removing", "confirming", "destroying", "discarding", "reporting", "over", "dead"}
        /\ sweeper' \in {"idle", "removing", "destroying", "ending"}
    BY <1>0 DEF SmokeTypes
  <2> QED BY <2>1, <2>2, <2>3 DEF SmokeTypes
<1>2. PaperTypes'
  BY <1>0 DEF PaperTypes, SmokeReceipts
<1>3. ForeignInv'
  BY <1>0 DEF ForeignInv, Owning
<1>4. ProgressInv'
  BY <1>0 DEF ProgressInv, Owning, Before
<1>5. ReceiptInv'
  BY <1>0 DEF PaperTypes, ReceiptInv, SmokeReceipts, Before
<1>6. WrittenInv'
  BY <1>0 DEF WrittenInv
<1>7. NotedInv'
  BY <1>0 DEF NotedInv, ProgressInv, Owning
<1> QED BY <1>1, <1>2, <1>3, <1>4, <1>5, <1>6, <1>7 DEF SmokeInv

LEMMA SmokeNotesKeepsInv ==
  ASSUME SmokeInv, SmokeNotes
  PROVE  SmokeInv'
<1> USE DEF SmokeNotes, SmokeGoes, SmokeFails, sweepVars, Noted
<1>0. SmokeTypes /\ PaperTypes /\ ForeignInv /\ ProgressInv /\ ReceiptInv /\ WrittenInv /\ NotedInv
  BY DEF SmokeInv
<1>1. SmokeTypes'
  BY <1>0 DEF SmokeTypes
<1>2. PaperTypes'
  BY <1>0 DEF PaperTypes, SmokeReceipts
<1>3. ForeignInv'
  BY <1>0 DEF ForeignInv, Owning
<1>4. ProgressInv'
  BY <1>0 DEF ProgressInv, Owning, Before
<1>5. ReceiptInv'
  BY <1>0 DEF PaperTypes, ReceiptInv, SmokeReceipts, Before
<1>6. WrittenInv'
  BY <1>0 DEF WrittenInv
<1>7. NotedInv'
  BY <1>0 DEF NotedInv, ProgressInv, Owning, Before
<1> QED BY <1>1, <1>2, <1>3, <1>4, <1>5, <1>6, <1>7 DEF SmokeInv

LEMMA SmokeAsksKeepsInv ==
  ASSUME SmokeInv, SmokeAsks
  PROVE  SmokeInv'
<1> USE DEF SmokeAsks, SmokeGoes, SmokeFails, sweepVars
<1>0. SmokeTypes /\ PaperTypes /\ ForeignInv /\ ProgressInv /\ ReceiptInv /\ WrittenInv /\ NotedInv
  BY DEF SmokeInv
<1>1. SmokeTypes'
  BY <1>0 DEF SmokeTypes
<1>2. PaperTypes'
  BY <1>0 DEF PaperTypes, SmokeReceipts
<1>3. ForeignInv'
  BY <1>0 DEF ForeignInv, Owning
<1>4. ProgressInv'
  BY <1>0 DEF ProgressInv, Owning, Before
<1>5. ReceiptInv'
  BY <1>0 DEF PaperTypes, ReceiptInv, SmokeReceipts, Before
<1>6. WrittenInv'
  BY <1>0 DEF WrittenInv
<1>7. NotedInv'
  BY <1>0 DEF NotedInv, Owning
<1> QED BY <1>1, <1>2, <1>3, <1>4, <1>5, <1>6, <1>7 DEF SmokeInv

LEMMA SmokeChecksKeepsInv ==
  ASSUME SmokeInv, SmokeChecks
  PROVE  SmokeInv'
<1> USE DEF SmokeChecks, SmokeGoes, SmokeFails, sweepVars
<1>0. SmokeTypes /\ PaperTypes /\ ForeignInv /\ ProgressInv /\ ReceiptInv /\ WrittenInv /\ NotedInv
  BY DEF SmokeInv
<1>1. SmokeTypes'
  BY <1>0 DEF SmokeTypes
<1>2. PaperTypes'
  BY <1>0 DEF PaperTypes, SmokeReceipts
<1>3. ForeignInv'
  BY <1>0 DEF ForeignInv, Owning
<1>4. ProgressInv'
  BY <1>0 DEF ProgressInv, Owning, Before
<1>5. ReceiptInv'
  BY <1>0 DEF PaperTypes, ReceiptInv, SmokeReceipts, Before
<1>6. WrittenInv'
  BY <1>0 DEF WrittenInv
<1>7. NotedInv'
  BY <1>0 DEF NotedInv, Owning
<1> QED BY <1>1, <1>2, <1>3, <1>4, <1>5, <1>6, <1>7 DEF SmokeInv

LEMMA SmokeClaimsKeepsInv ==
  ASSUME SmokeInv, SmokeClaims
  PROVE  SmokeInv'
<1> USE DEF SmokeClaims, SmokeGoes, SmokeFails, sweepVars, Noted
<1>0. SmokeTypes /\ PaperTypes /\ ForeignInv /\ ProgressInv /\ ReceiptInv /\ WrittenInv /\ NotedInv
  BY DEF SmokeInv
<1>1. SmokeTypes'
  <2>1. /\ trusted' \in BOOLEAN /\ smokeSecrets' \in BOOLEAN
        /\ certificateAbsent' \in BOOLEAN /\ sweepFailed' \in BOOLEAN
    BY <1>0, Zenon DEF SmokeTypes
  <2>2. /\ foreign' \in BOOLEAN /\ overtaken' \in BOOLEAN
        /\ smokeNote' \in {"none", "plain", "claimed", "emptied", "gone"} /\ sweepNote' \in {"plain", "claimed"}
    BY <1>0 DEF SmokeTypes
  <2>3. /\ smoke' \in {"new", "writing", "noting", "asking", "checking", "claiming", "installing", "verifying",
                      "removing", "confirming", "destroying", "discarding", "reporting", "over", "dead"}
        /\ sweeper' \in {"idle", "removing", "destroying", "ending"}
    BY <1>0 DEF SmokeTypes
  <2> QED BY <2>1, <2>2, <2>3 DEF SmokeTypes
<1>2. PaperTypes'
  BY <1>0 DEF PaperTypes, SmokeReceipts
<1>3. ForeignInv'
  BY <1>0 DEF ForeignInv
<1>4. ProgressInv'
  BY <1>0 DEF ProgressInv, Owning, Before
<1>5. ReceiptInv'
  BY <1>0 DEF PaperTypes, ReceiptInv, SmokeReceipts, Before
<1>6. WrittenInv'
  BY <1>0 DEF WrittenInv
<1>7. NotedInv'
  BY <1>0 DEF NotedInv, Owning
<1> QED BY <1>1, <1>2, <1>3, <1>4, <1>5, <1>6, <1>7 DEF SmokeInv

LEMMA SmokeInstallsKeepsInv ==
  ASSUME SmokeInv, SmokeInstalls
  PROVE  SmokeInv'
<1> USE ReceiptTypes DEF SmokeInstalls, SmokeGoes, SmokeFails, sweepVars
<1>0. SmokeTypes /\ PaperTypes /\ ForeignInv /\ ProgressInv /\ ReceiptInv /\ WrittenInv /\ NotedInv
  BY DEF SmokeInv
<1>1. SmokeTypes'
  <2>1. /\ trusted' \in BOOLEAN /\ smokeSecrets' \in BOOLEAN
        /\ certificateAbsent' \in BOOLEAN /\ sweepFailed' \in BOOLEAN
    BY <1>0, Zenon DEF SmokeTypes
  <2>2. /\ foreign' \in BOOLEAN /\ overtaken' \in BOOLEAN
        /\ smokeNote' \in {"none", "plain", "claimed", "emptied", "gone"} /\ sweepNote' \in {"plain", "claimed"}
    BY <1>0 DEF SmokeTypes
  <2>3. /\ smoke' \in {"new", "writing", "noting", "asking", "checking", "claiming", "installing", "verifying",
                      "removing", "confirming", "destroying", "discarding", "reporting", "over", "dead"}
        /\ sweeper' \in {"idle", "removing", "destroying", "ending"}
    BY <1>0 DEF SmokeTypes
  <2> QED BY <2>1, <2>2, <2>3 DEF SmokeTypes
<1>2. PaperTypes'
  BY <1>0 DEF PaperTypes, SmokeReceipts
<1>3. ForeignInv'
  BY <1>0 DEF ForeignInv, Owning
<1>4. ProgressInv'
  BY <1>0 DEF ProgressInv, Owning, Before
<1>5. ReceiptInv'
  BY <1>0 DEF PaperTypes, ReceiptInv, SmokeReceipts, Owning
<1>6. WrittenInv'
  BY <1>0 DEF WrittenInv
<1>7. NotedInv'
  BY <1>0 DEF NotedInv, ProgressInv, Owning
<1> QED BY <1>1, <1>2, <1>3, <1>4, <1>5, <1>6, <1>7 DEF SmokeInv

LEMMA SmokeVerifiesKeepsInv ==
  ASSUME SmokeInv, SmokeVerifies
  PROVE  SmokeInv'
<1> USE DEF SmokeVerifies, SmokeFails, sweepVars
<1>0. SmokeTypes /\ PaperTypes /\ ForeignInv /\ ProgressInv /\ ReceiptInv /\ WrittenInv /\ NotedInv
  BY DEF SmokeInv
<1>1. SmokeTypes'
  BY <1>0 DEF SmokeTypes
<1>2. PaperTypes'
  BY <1>0 DEF PaperTypes, SmokeReceipts
<1>3. ForeignInv'
  BY <1>0 DEF ForeignInv, Owning
<1>4. ProgressInv'
  BY <1>0 DEF ProgressInv, Owning, Before
<1>5. ReceiptInv'
  BY <1>0 DEF PaperTypes, ReceiptInv, SmokeReceipts, Owning
<1>6. WrittenInv'
  BY <1>0 DEF WrittenInv
<1>7. NotedInv'
  BY <1>0 DEF NotedInv, Owning
<1> QED BY <1>1, <1>2, <1>3, <1>4, <1>5, <1>6, <1>7 DEF SmokeInv

LEMMA SmokeRemovesKeepsInv ==
  ASSUME SmokeInv, SmokeRemoves
  PROVE  SmokeInv'
<1> USE DEF SmokeRemoves, SmokeGoes, SmokeFails, sweepVars
<1>0. SmokeTypes /\ PaperTypes /\ ForeignInv /\ ProgressInv /\ ReceiptInv /\ WrittenInv /\ NotedInv
  BY DEF SmokeInv
<1>1. SmokeTypes'
  <2>1. /\ trusted' \in BOOLEAN /\ smokeSecrets' \in BOOLEAN
        /\ certificateAbsent' \in BOOLEAN /\ sweepFailed' \in BOOLEAN
    BY <1>0, Zenon DEF SmokeTypes
  <2>2. /\ foreign' \in BOOLEAN /\ overtaken' \in BOOLEAN
        /\ smokeNote' \in {"none", "plain", "claimed", "emptied", "gone"} /\ sweepNote' \in {"plain", "claimed"}
    BY <1>0 DEF SmokeTypes
  <2>3. /\ smoke' \in {"new", "writing", "noting", "asking", "checking", "claiming", "installing", "verifying",
                      "removing", "confirming", "destroying", "discarding", "reporting", "over", "dead"}
        /\ sweeper' \in {"idle", "removing", "destroying", "ending"}
    BY <1>0 DEF SmokeTypes
  <2> QED BY <2>1, <2>2, <2>3 DEF SmokeTypes
<1>2. PaperTypes'
  BY <1>0 DEF PaperTypes, SmokeReceipts
<1>3. ForeignInv'
  BY <1>0 DEF ForeignInv, Owning
<1>4. ProgressInv'
  BY <1>0 DEF ProgressInv, Owning, Before
<1>5. ReceiptInv'
  BY <1>0 DEF PaperTypes, ReceiptInv, SmokeReceipts, Owning
<1>6. WrittenInv'
  BY <1>0 DEF WrittenInv
<1>7. NotedInv'
  BY <1>0 DEF NotedInv, Owning
<1> QED BY <1>1, <1>2, <1>3, <1>4, <1>5, <1>6, <1>7 DEF SmokeInv

LEMMA SmokeConfirmsKeepsInv ==
  ASSUME SmokeInv, SmokeConfirms
  PROVE  SmokeInv'
<1> USE DEF SmokeConfirms, SmokeFails, sweepVars, Noted
<1>0. SmokeTypes /\ PaperTypes /\ ForeignInv /\ ProgressInv /\ ReceiptInv /\ WrittenInv /\ NotedInv
  BY DEF SmokeInv
<1>1. SmokeTypes'
  <2>1. /\ trusted' \in BOOLEAN /\ smokeSecrets' \in BOOLEAN
        /\ certificateAbsent' \in BOOLEAN /\ sweepFailed' \in BOOLEAN
    BY <1>0, Zenon DEF SmokeTypes
  <2>2. /\ foreign' \in BOOLEAN /\ overtaken' \in BOOLEAN
        /\ smokeNote' \in {"none", "plain", "claimed", "emptied", "gone"} /\ sweepNote' \in {"plain", "claimed"}
    BY <1>0 DEF SmokeTypes
  <2>3. /\ smoke' \in {"new", "writing", "noting", "asking", "checking", "claiming", "installing", "verifying",
                      "removing", "confirming", "destroying", "discarding", "reporting", "over", "dead"}
        /\ sweeper' \in {"idle", "removing", "destroying", "ending"}
    BY <1>0 DEF SmokeTypes
  <2> QED BY <2>1, <2>2, <2>3 DEF SmokeTypes
<1>2. PaperTypes'
  BY <1>0 DEF PaperTypes, SmokeReceipts
<1>3. ForeignInv'
  BY <1>0 DEF ForeignInv, Owning
<1>4. ProgressInv'
  BY <1>0 DEF ProgressInv, Owning, Before
<1>5. ReceiptInv'
  BY <1>0 DEF PaperTypes, ReceiptInv, SmokeReceipts, Owning, Before
<1>6. WrittenInv'
  BY <1>0 DEF WrittenInv
<1>7. NotedInv'
  BY <1>0 DEF NotedInv, Owning
<1> QED BY <1>1, <1>2, <1>3, <1>4, <1>5, <1>6, <1>7 DEF SmokeInv

LEMMA SmokeDestroysKeepsInv ==
  ASSUME SmokeInv, SmokeDestroys
  PROVE  SmokeInv'
<1> USE ReceiptTypes DEF SmokeDestroys, SmokeFails, sweepVars
<1>0. SmokeTypes /\ PaperTypes /\ ForeignInv /\ ProgressInv /\ ReceiptInv /\ WrittenInv /\ NotedInv
  BY DEF SmokeInv
<1>1. SmokeTypes'
  <2>1. /\ trusted' \in BOOLEAN /\ smokeSecrets' \in BOOLEAN
        /\ certificateAbsent' \in BOOLEAN /\ sweepFailed' \in BOOLEAN
    BY <1>0, Zenon DEF SmokeTypes
  <2>2. /\ foreign' \in BOOLEAN /\ overtaken' \in BOOLEAN
        /\ smokeNote' \in {"none", "plain", "claimed", "emptied", "gone"} /\ sweepNote' \in {"plain", "claimed"}
    BY <1>0 DEF SmokeTypes
  <2>3. /\ smoke' \in {"new", "writing", "noting", "asking", "checking", "claiming", "installing", "verifying",
                      "removing", "confirming", "destroying", "discarding", "reporting", "over", "dead"}
        /\ sweeper' \in {"idle", "removing", "destroying", "ending"}
    BY <1>0 DEF SmokeTypes
  <2> QED BY <2>1, <2>2, <2>3 DEF SmokeTypes
<1>2. PaperTypes'
  BY <1>0 DEF PaperTypes, SmokeReceipts
<1>3. ForeignInv'
  BY <1>0 DEF ForeignInv, Owning
<1>4. ProgressInv'
  BY <1>0 DEF ProgressInv, Owning, Before
<1>5. ReceiptInv'
  BY <1>0 DEF PaperTypes, ReceiptInv, SmokeReceipts, Owning, Before, MayDiscard
<1>6. WrittenInv'
  BY <1>0 DEF WrittenInv
<1>7. NotedInv'
  BY <1>0 DEF NotedInv, Owning
<1> QED BY <1>1, <1>2, <1>3, <1>4, <1>5, <1>6, <1>7 DEF SmokeInv

LEMMA SmokeDiscardsKeepsInv ==
  ASSUME SmokeInv, SmokeDiscards
  PROVE  SmokeInv'
<1> USE DEF SmokeDiscards, SmokeFails, sweepVars, Discarded, NotDiscarded
<1>0. SmokeTypes /\ PaperTypes /\ ForeignInv /\ ProgressInv /\ ReceiptInv /\ WrittenInv /\ NotedInv
  BY DEF SmokeInv
<1>1. SmokeTypes'
  BY <1>0 DEF SmokeTypes
<1>2. PaperTypes'
  BY <1>0 DEF PaperTypes, SmokeReceipts
<1>3. ForeignInv'
  BY <1>0 DEF ForeignInv, Owning
<1>4. ProgressInv'
  BY <1>0 DEF ProgressInv, Owning, Before
<1>5. ReceiptInv'
  BY <1>0 DEF PaperTypes, ReceiptInv, SmokeReceipts, Owning, Before
<1>6. WrittenInv'
  BY <1>0 DEF WrittenInv
<1>7. NotedInv'
  BY <1>0 DEF NotedInv, ReceiptInv, Owning
<1> QED BY <1>1, <1>2, <1>3, <1>4, <1>5, <1>6, <1>7 DEF SmokeInv

LEMMA SmokeReportsKeepsInv ==
  ASSUME SmokeInv, SmokeReports
  PROVE  SmokeInv'
<1> USE DEF SmokeReports, SmokeGoes, SmokeFails, sweepVars
<1>0. SmokeTypes /\ PaperTypes /\ ForeignInv /\ ProgressInv /\ ReceiptInv /\ WrittenInv /\ NotedInv
  BY DEF SmokeInv
<1>1. SmokeTypes'
  BY <1>0 DEF SmokeTypes
<1>2. PaperTypes'
  BY <1>0 DEF PaperTypes, SmokeReceipts
<1>3. ForeignInv'
  BY <1>0 DEF ForeignInv, Owning
<1>4. ProgressInv'
  BY <1>0 DEF ProgressInv, Owning, Before
<1>5. ReceiptInv'
  BY <1>0 DEF PaperTypes, ReceiptInv, SmokeReceipts, Owning, Before
<1>6. WrittenInv'
  BY <1>0 DEF PaperTypes, WrittenInv, ReceiptInv, SmokeReceipts
<1>7. NotedInv'
  BY <1>0 DEF NotedInv, Owning
<1> QED BY <1>1, <1>2, <1>3, <1>4, <1>5, <1>6, <1>7 DEF SmokeInv

LEMMA SmokeDiesKeepsInv ==
  ASSUME SmokeInv, SmokeDies
  PROVE  SmokeInv'
<1> USE DEF SmokeDies, sweepVars
<1>0. SmokeTypes /\ PaperTypes /\ ForeignInv /\ ProgressInv /\ ReceiptInv /\ WrittenInv /\ NotedInv
  BY DEF SmokeInv
<1>1. SmokeTypes'
  BY <1>0 DEF SmokeTypes
<1>2. PaperTypes'
  BY <1>0 DEF PaperTypes
<1>3. ForeignInv'
  BY <1>0 DEF ForeignInv, Owning
<1>4. ProgressInv'
  BY <1>0 DEF ProgressInv, Owning, Before
<1>5. ReceiptInv'
  BY <1>0 DEF ReceiptInv, Owning, Before
<1>6. WrittenInv'
  BY <1>0 DEF WrittenInv, SmokeAlive
<1>7. NotedInv'
  BY <1>0 DEF NotedInv, Owning
<1> QED BY <1>1, <1>2, <1>3, <1>4, <1>5, <1>6, <1>7 DEF SmokeInv

LEMMA SweepBeginsKeepsInv ==
  ASSUME SmokeInv, SweepBegins
  PROVE  SmokeInv'
<1> USE DEF SweepBegins, TestUnchanged
<1>0. SmokeTypes /\ PaperTypes /\ ForeignInv /\ ProgressInv /\ ReceiptInv /\ WrittenInv /\ NotedInv
  BY DEF SmokeInv
<1>1. SmokeTypes'
  BY <1>0 DEF SmokeTypes
<1>2. PaperTypes'
  BY <1>0 DEF PaperTypes
<1>3. ForeignInv'
  BY <1>0 DEF ForeignInv
<1>4. ProgressInv'
  BY <1>0 DEF ProgressInv
<1>5. ReceiptInv'
  BY <1>0 DEF ReceiptInv
<1>6. WrittenInv'
  BY <1>0 DEF WrittenInv
<1>7. NotedInv'
  BY <1>0 DEF NotedInv, ProgressInv, SmokeAlive
<1> QED BY <1>1, <1>2, <1>3, <1>4, <1>5, <1>6, <1>7 DEF SmokeInv

LEMMA SweepRemovesKeepsInv ==
  ASSUME SmokeInv, SweepRemoves
  PROVE  SmokeInv'
<1> USE ReceiptTypes DEF SweepRemoves, TestUnchanged
<1>0. SmokeTypes /\ PaperTypes /\ ForeignInv /\ ProgressInv /\ ReceiptInv /\ WrittenInv /\ NotedInv
  BY DEF SmokeInv
<1>1. SmokeTypes'
  <2>1. /\ trusted' \in BOOLEAN /\ smokeSecrets' \in BOOLEAN
        /\ certificateAbsent' \in BOOLEAN /\ sweepFailed' \in BOOLEAN
    BY <1>0, Zenon DEF SmokeTypes
  <2>2. /\ foreign' \in BOOLEAN /\ overtaken' \in BOOLEAN
        /\ smokeNote' \in {"none", "plain", "claimed", "emptied", "gone"} /\ sweepNote' \in {"plain", "claimed"}
    BY <1>0 DEF SmokeTypes
  <2>3. /\ smoke' \in {"new", "writing", "noting", "asking", "checking", "claiming", "installing", "verifying",
                      "removing", "confirming", "destroying", "discarding", "reporting", "over", "dead"}
        /\ sweeper' \in {"idle", "removing", "destroying", "ending"}
    BY <1>0 DEF SmokeTypes
  <2> QED BY <2>1, <2>2, <2>3 DEF SmokeTypes
<1>2. PaperTypes'
  BY <1>0 DEF PaperTypes
<1>3. ForeignInv'
  BY <1>0 DEF ForeignInv
<1>4. ProgressInv'
  BY <1>0 DEF ProgressInv
<1>5. ReceiptInv'
  BY <1>0 DEF SmokeTypes, ReceiptInv, SmokeReceipts
<1>6. WrittenInv'
  BY <1>0 DEF SmokeTypes, WrittenInv, SmokeReceipts
<1>7. NotedInv'
  BY <1>0 DEF NotedInv, ForeignInv
<1> QED BY <1>1, <1>2, <1>3, <1>4, <1>5, <1>6, <1>7 DEF SmokeInv

LEMMA SweepDestroysKeepsInv ==
  ASSUME SmokeInv, SweepDestroys
  PROVE  SmokeInv'
<1> USE ReceiptTypes DEF SweepDestroys, TestUnchanged
<1>0. SmokeTypes /\ PaperTypes /\ ForeignInv /\ ProgressInv /\ ReceiptInv /\ WrittenInv /\ NotedInv
  BY DEF SmokeInv
<1>1. SmokeTypes'
  <2>1. /\ trusted' \in BOOLEAN /\ smokeSecrets' \in BOOLEAN
        /\ certificateAbsent' \in BOOLEAN /\ sweepFailed' \in BOOLEAN
    BY <1>0, Zenon DEF SmokeTypes
  <2>2. /\ foreign' \in BOOLEAN /\ overtaken' \in BOOLEAN
        /\ smokeNote' \in {"none", "plain", "claimed", "emptied", "gone"} /\ sweepNote' \in {"plain", "claimed"}
    BY <1>0 DEF SmokeTypes
  <2>3. /\ smoke' \in {"new", "writing", "noting", "asking", "checking", "claiming", "installing", "verifying",
                      "removing", "confirming", "destroying", "discarding", "reporting", "over", "dead"}
        /\ sweeper' \in {"idle", "removing", "destroying", "ending"}
    BY <1>0 DEF SmokeTypes
  <2> QED BY <2>1, <2>2, <2>3 DEF SmokeTypes
<1>2. PaperTypes'
  BY <1>0 DEF PaperTypes
<1>3. ForeignInv'
  BY <1>0 DEF ForeignInv
<1>4. ProgressInv'
  BY <1>0 DEF ProgressInv
<1>5. ReceiptInv'
  BY <1>0 DEF SmokeTypes, ReceiptInv, SmokeReceipts
<1>6. WrittenInv'
  BY <1>0 DEF SmokeTypes, WrittenInv, SmokeReceipts
<1>7. NotedInv'
  BY <1>0 DEF NotedInv
<1> QED BY <1>1, <1>2, <1>3, <1>4, <1>5, <1>6, <1>7 DEF SmokeInv

LEMMA SweepEndsKeepsInv ==
  ASSUME SmokeInv, SweepEnds
  PROVE  SmokeInv'
<1> USE DEF SweepEnds, TestUnchanged, Noted, Discarded, NotDiscarded
<1>0. SmokeTypes /\ PaperTypes /\ ForeignInv /\ ProgressInv /\ ReceiptInv /\ WrittenInv /\ NotedInv
  BY DEF SmokeInv
<1>1. SmokeTypes'
  BY <1>0 DEF SmokeTypes
<1>2. PaperTypes'
  BY <1>0 DEF PaperTypes
<1>3. ForeignInv'
  BY <1>0 DEF ForeignInv
<1>4. ProgressInv'
  BY <1>0 DEF ProgressInv
<1>5. ReceiptInv'
  BY <1>0 DEF ReceiptInv
<1>6. WrittenInv'
  BY <1>0 DEF WrittenInv
<1>7. NotedInv'
  BY <1>0 DEF SmokeTypes, NotedInv, Owning
<1> QED BY <1>1, <1>2, <1>3, <1>4, <1>5, <1>6, <1>7 DEF SmokeInv

LEMMA SweepDiesKeepsInv ==
  ASSUME SmokeInv, SweepDies
  PROVE  SmokeInv'
<1> USE DEF SweepDies, TestUnchanged
<1>0. SmokeTypes /\ PaperTypes /\ ForeignInv /\ ProgressInv /\ ReceiptInv /\ WrittenInv /\ NotedInv
  BY DEF SmokeInv
<1>1. SmokeTypes'
  BY <1>0 DEF SmokeTypes
<1>2. PaperTypes'
  BY <1>0 DEF PaperTypes
<1>3. ForeignInv'
  BY <1>0 DEF ForeignInv
<1>4. ProgressInv'
  BY <1>0 DEF ProgressInv
<1>5. ReceiptInv'
  BY <1>0 DEF ReceiptInv
<1>6. WrittenInv'
  BY <1>0 DEF WrittenInv
<1>7. NotedInv'
  BY <1>0 DEF NotedInv
<1> QED BY <1>1, <1>2, <1>3, <1>4, <1>5, <1>6, <1>7 DEF SmokeInv

\* A root and its key have their note, and what the receipt says is so.
LEMMA SmokeInvSuffices == SmokeInv => SmokeTypeOK /\ SmokeAccounted
<1> SUFFICES ASSUME SmokeInv
             PROVE  SmokeTypeOK /\ SmokeAccounted
  OBVIOUS
<1>1. SmokeTypes /\ PaperTypes /\ ForeignInv /\ WrittenInv /\ NotedInv
  BY DEF SmokeInv
<1>2. {foreign, trusted, smokeSecrets, certificateAbsent, sweepFailed, overtaken} \subseteq BOOLEAN
  BY <1>1, Zenon DEF SmokeTypes
<1>3. SmokeTypeOK
  BY <1>1, <1>2 DEF SmokeTypes, PaperTypes, SmokeTypeOK
<1>4. SmokeAccounted
  BY <1>1 DEF ForeignInv, WrittenInv, NotedInv, SmokeAccounted
<1> QED BY <1>3, <1>4

\* SmokeAccounted and the types of CertSmoke, whichever steps fail and whoever dies:
\* certificate_smoke.go:62-330 beside runtime.go:444-575.
THEOREM SmokesAccounted == SmokeSpec => [](SmokeTypeOK /\ SmokeAccounted)
<1>1. SmokeInv /\ [SmokeNext]_smokeVars => SmokeInv'
  <2> SUFFICES ASSUME SmokeInv, [SmokeNext]_smokeVars
               PROVE  SmokeInv'
    OBVIOUS
  <2>1. CASE SmokeStep
    BY <2>1, SmokeBeginsKeepsInv, SmokeWritesCAKeepsInv, SmokeNotesKeepsInv, SmokeAsksKeepsInv,
       SmokeChecksKeepsInv, SmokeClaimsKeepsInv, SmokeInstallsKeepsInv, SmokeVerifiesKeepsInv,
       SmokeRemovesKeepsInv, SmokeConfirmsKeepsInv, SmokeDestroysKeepsInv, SmokeDiscardsKeepsInv,
       SmokeReportsKeepsInv, SmokeDiesKeepsInv DEF SmokeStep
  <2>2. CASE SweepBegins \/ SweepRemoves \/ SweepDestroys \/ SweepEnds \/ SweepDies
    BY <2>2, SweepBeginsKeepsInv, SweepRemovesKeepsInv, SweepDestroysKeepsInv, SweepEndsKeepsInv,
       SweepDiesKeepsInv
  <2>3. CASE UNCHANGED smokeVars
    <3>1. SmokeTypes' /\ PaperTypes'
      BY <2>3 DEF smokeVars, SmokeInv, SmokeTypes, PaperTypes
    <3>2. ForeignInv' /\ ProgressInv'
      BY <2>3 DEF smokeVars, SmokeInv, ForeignInv, ProgressInv
    <3>3. ReceiptInv' /\ WrittenInv' /\ NotedInv'
      BY <2>3 DEF smokeVars, SmokeInv, ReceiptInv, WrittenInv, NotedInv
    <3> QED BY <3>1, <3>2, <3>3 DEF SmokeInv
  <2> QED BY <2>1, <2>2, <2>3 DEF SmokeNext
<1> QED BY <1>1, SmokeInitInv, SmokeInvSuffices, PTL DEF SmokeSpec

=============================================================================
