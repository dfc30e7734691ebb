-------------------------- MODULE ComponentsProofs --------------------------
(***************************************************************************)
(* Theorems about the sum of the components that MCComponents checks: it   *)
(* implements the specification of each, so that whatever holds of a       *)
(* component holds in the sum.                                             *)
(***************************************************************************)
EXTENDS MCComponents, WorkerProofs, BoardProofs, CacheProofs

\* A step of the sum is a step of one component and leaves the others alone, so a
\* behaviour of the sum is one of every component, with what its scheduling guarantees:
\* what the run components shows is about the specifications of the components.
THEOREM ComponentsImplementEach ==
  ComponentsSpec =>
    CodexSpec /\ ClaudeSpec /\ BoardSpec /\ ServiceSpec /\ ReadsSpec /\ AssemblerSpec
<1>1. ComponentsInit => /\ CodexInit /\ ClaudeInit /\ BoardInit
                        /\ ServiceInit /\ ReadsInit /\ AssemblerInit
  BY Zenon DEF ComponentsInit
<1>2. [ComponentsNext]_componentsVars =>
        /\ [CodexNext]_codexVars /\ [ClaudeNext]_claudeVars /\ [BoardNext]_boardVars
        /\ [ServiceNext]_serviceVars /\ [ReadsNext]_readsVars /\ [AssemblerNext]_assemblerVars
  <2> SUFFICES ASSUME [ComponentsNext]_componentsVars
               PROVE  /\ [CodexNext]_codexVars /\ [ClaudeNext]_claudeVars /\ [BoardNext]_boardVars
                      /\ [ServiceNext]_serviceVars /\ [ReadsNext]_readsVars
                      /\ [AssemblerNext]_assemblerVars
    OBVIOUS
  <2>1. CASE UNCHANGED componentsVars
    <3>1. /\ UNCHANGED codexVars /\ UNCHANGED claudeVars /\ UNCHANGED boardVars
          /\ UNCHANGED serviceVars /\ UNCHANGED readsVars /\ UNCHANGED assemblerVars
      BY <2>1 DEF componentsVars
    <3> QED
      BY <3>1, Zenon
  <2>2. CASE ComponentsNext
    <3>1. /\ part = "codex" \/ UNCHANGED codexVars
          /\ part \in {"claude", "tools"} \/ UNCHANGED claudeVars
          /\ part = "client" \/ UNCHANGED boardVars
          /\ part = "service" \/ UNCHANGED serviceVars
          /\ part = "reads" \/ UNCHANGED readsVars
          /\ part = "context" \/ UNCHANGED assemblerVars
      BY <2>2, Zenon DEF ComponentsNext, Only
    <3>2. \/ part = "codex" /\ CodexNext
          \/ part \in {"claude", "tools"} /\ ClaudeNext
          \/ part = "client" /\ BoardNext
          \/ part = "service" /\ ServiceNext
          \/ part = "reads" /\ ReadsNext
          \/ part = "context" /\ AssemblerNext
      BY <2>2, Zenon DEF ComponentsNext, ClaudeNext
    <3> QED
      BY <3>1, <3>2
  <2> QED
    BY <2>1, <2>2
<1> QED
  BY <1>1, <1>2, PTL
     DEF ComponentsSpec, CodexSpec, ClaudeSpec, BoardSpec, ServiceSpec, ReadsSpec, AssemblerSpec

\* So the type invariants of the components hold in the sum.
THEOREM ComponentsTypes == ComponentsSpec => []ComponentsTypeOK
BY ComponentsImplementEach, CodexTypes, ClaudeTypes, BoardTypes, ServiceTypes, ReadsTypesInvariant,
   AssemblerTypes, PTL DEF ComponentsTypeOK
=============================================================================
