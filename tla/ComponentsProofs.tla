-------------------------- MODULE ComponentsProofs ---------------------------
(***************************************************************************)
(* The composition that TLC runs adds nothing to the components and takes  *)
(* nothing from them: in each of its behaviours every component behaves as *)
(* its own specification says, so that the theorems about the components   *)
(* are theorems about the run, for every value of its constants.           *)
(***************************************************************************)
EXTENDS MCComponents, SessionStoreProofs, ToolLoopProofs, CorpusProofs,
        AccountEventsProofs, RequestProofs

\* What the steps of the composition are to each component: its own, or none.
LEMMA StepsOfEach ==
    [MCNext]_MCVars =>
        /\ [Next]_vars /\ [LoopNext]_loopVars /\ [CorpusNext]_corpusVars
        /\ [AccountNext]_accountVars /\ [CasesNext]_casesVars
        /\ [QuotaNext]_quotaVars /\ [SubmissionNext]_submissionVars
<1>1. ASSUME UNCHANGED MCVars
      PROVE  UNCHANGED <<vars, loopVars, corpusVars, accountVars, casesVars, quotaVars,
                         submissionVars>>
  BY <1>1 DEF MCVars
<1>2. ASSUME MCNext
      PROVE  /\ Next \/ UNCHANGED vars
             /\ LoopNext \/ UNCHANGED loopVars
             /\ CorpusNext \/ UNCHANGED corpusVars
             /\ AccountNext \/ UNCHANGED accountVars
             /\ CasesNext \/ UNCHANGED casesVars
             /\ QuotaNext \/ UNCHANGED quotaVars
             /\ SubmissionNext \/ UNCHANGED submissionVars
  BY <1>2, Zenon DEF MCNext
<1> QED BY <1>1, <1>2

\* Every behaviour that TLC explores is one of each component.
THEOREM ComponentsBehave ==
    MCSpec => /\ Spec /\ LoopSpec /\ CorpusSpec /\ AccountSpec /\ CasesSpec
              /\ QuotaSpec /\ SubmissionSpec
<1>1. MCInit => /\ Init /\ LoopInit /\ CorpusInit /\ AccountInit /\ CasesInit
                /\ QuotaInit /\ SubmissionInit
  BY DEF MCInit
<1> QED BY <1>1, StepsOfEach, PTL DEF MCSpec, Spec, LoopSpec, CorpusSpec, AccountSpec,
           CasesSpec, QuotaSpec, SubmissionSpec

\* Every component keeps its types while the others run beside it.
THEOREM ComponentTypesCorrect == MCSpec => []ComponentTypes
<1>1. MCSpec => /\ []TypeOK /\ []LoopTypeOK /\ []CorpusTypeOK /\ []AccountTypeOK
                /\ []CasesTypeOK /\ []QuotaTypeOK /\ []SubmissionTypeOK
  BY ComponentsBehave, TypeCorrect, LoopTypeCorrect, CorpusTypeCorrect,
     AccountTypeCorrect, CasesTypeCorrect, QuotaTypeCorrect, SubmissionTypeCorrect
<1>2. TypeOK /\ LoopTypeOK /\ CorpusTypeOK /\ AccountTypeOK /\ CasesTypeOK
        /\ QuotaTypeOK /\ SubmissionTypeOK => ComponentTypes
  BY DEF ComponentTypes
<1> QED BY <1>1, <1>2, PTL

=============================================================================
