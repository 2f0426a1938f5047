------------------------------ MODULE BackOffice ------------------------------
(***************************************************************************)
(* The services around the two message paths: the reply decision, the       *)
(* runtime configuration, the generation of a reply under group policies,    *)
(* the knowledge base and the device registry.  They share the configuration *)
(* row and nothing else, so a behaviour is in one area from its start.       *)
(***************************************************************************)
EXTENDS ReplyDecision, ReplyGeneration, KnowledgeBase, DeviceRegistry

Areas == {"decision", "config", "generation", "knowledge", "registry"}

VARIABLE area

vars == <<area, chatVars, configVars, generationVars, knowledgeVars, registryVars>>

TypeOK ==
    /\ area \in Areas
    /\ DecisionTypeOK /\ ConfigTypeOK /\ GenerationTypeOK /\ KnowledgeTypeOK /\ RegistryTypeOK

Init ==
    /\ area \in Areas
    /\ DecisionInit /\ (area = "decision" \/ <<policyRow, rules>> = CHOOSE s \in Settings : TRUE)
    /\ forms = [a \in Admins |-> NoForm]
    /\ IF area = "generation" THEN config \in ConfigRows ELSE config = NoConfig
    /\ GenerationInit /\ KnowledgeInit /\ RegistryInit

DecisionArea ==
    /\ area = "decision" /\ DecisionNext
    /\ UNCHANGED <<area, configVars, generationVars, knowledgeVars, registryVars>>

ConfigArea ==
    /\ area = "config" /\ ConfigNext
    /\ UNCHANGED <<area, chatVars, generationVars, knowledgeVars, registryVars>>

GenerationArea ==
    /\ area = "generation" /\ GenerationNext
    /\ UNCHANGED <<area, chatVars, forms, knowledgeVars, registryVars>>

KnowledgeArea ==
    /\ area = "knowledge" /\ KnowledgeNext
    /\ UNCHANGED <<area, chatVars, configVars, generationVars, registryVars>>

RegistryArea ==
    /\ area = "registry" /\ RegistryNext
    /\ UNCHANGED <<area, chatVars, configVars, generationVars, knowledgeVars>>

Next == DecisionArea \/ ConfigArea \/ GenerationArea \/ KnowledgeArea \/ RegistryArea

Spec == Init /\ [][Next]_vars
=============================================================================
