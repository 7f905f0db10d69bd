------------------------------- MODULE BackOffice -------------------------------
(***************************************************************************)
(* The parts of openb00ks around its ledger and its queues, side by side.  *)
(* They share no state that their properties are about, so a behaviour     *)
(* goes through one of them, chosen at the start, while the others rest.   *)
(***************************************************************************)
EXTENDS Access, Mfa, VendorMemory, ReceiptStages, TaxPack, SearchIndex, Decisions

VARIABLE part       \* the part a behaviour goes through

vars == <<part, accessVars, mfaVars, vendorVars, stageVars, taxVars, searchVars, decisionVars>>

Parts == {"access", "mfa", "vendors", "stages", "tax", "search", "decisions"}

Init ==
    /\ part \in Parts
    /\ AccessInit /\ MfaInit /\ VendorInit /\ StagesInit /\ TaxInit /\ SearchInit
    (* a part that rests starts in one way only                            *)
    /\ part # "stages" => pipelineMode = "legacy"
    /\ part # "tax" => lines = {} /\ statement = NoStatement /\ settings = Missing /\
                       \A p \in Papers : filed[p] = NotFiled
    /\ IF part = "decisions" THEN DecideInit ELSE question = Unasked /\ answer = Unasked

Next ==
    /\ UNCHANGED part
    /\ \/ /\ part = "access" /\ AccessNext
          /\ UNCHANGED <<mfaVars, vendorVars, stageVars, taxVars, searchVars, decisionVars>>
       \/ /\ part = "mfa" /\ MfaNext
          /\ UNCHANGED <<accessVars, vendorVars, stageVars, taxVars, searchVars, decisionVars>>
       \/ /\ part = "vendors" /\ VendorNext
          /\ UNCHANGED <<accessVars, mfaVars, stageVars, taxVars, searchVars, decisionVars>>
       \/ /\ part = "stages" /\ StagesNext
          /\ UNCHANGED <<accessVars, mfaVars, vendorVars, taxVars, searchVars, decisionVars>>
       \/ /\ part = "tax" /\ TaxNext
          /\ UNCHANGED <<accessVars, mfaVars, vendorVars, stageVars, searchVars, decisionVars>>
       \/ /\ part = "search" /\ SearchNext
          /\ UNCHANGED <<accessVars, mfaVars, vendorVars, stageVars, taxVars, decisionVars>>
       \/ /\ part = "decisions" /\ Decide
          /\ UNCHANGED <<accessVars, mfaVars, vendorVars, stageVars, taxVars, searchVars>>

Spec == Init /\ [][Next]_vars

(* Every part keeps its variables to the values its code writes.           *)
TypeOK ==
    /\ AccessTypeOK /\ MfaTypeOK /\ VendorTypeOK
    /\ StagesTypeOK /\ TaxTypeOK /\ SearchTypeOK /\ DecisionTypeOK
=============================================================================
