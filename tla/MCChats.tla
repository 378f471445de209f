------------------------------- MODULE MCChats -------------------------------
(***************************************************************************)
(* Instance for TLC of the modules about who answers a message, and of the *)
(* page that sets it up.  They share no state, so a behaviour is one of    *)
(* one of them: part says which, and what the others start with is fixed.  *)
(***************************************************************************)
EXTENDS InboundRouting, AgentLoop, ReplyRules, AiMetrics, AiSettingsPage, TLC

VARIABLE part

chatsVars ==
  <<part, inboundVars, agentVars, rulesVars, metricsVars, aiPageVars>>

ChatsInit ==
  /\ part \in {"inbound", "agent", "rules", "metrics", "ai"}
  /\ InboundInit
  /\ AgentInit
  /\ RulesInit
  /\ MetricsInit
  /\ AiPageInit
  /\ part # "inbound" => open /\ settings = [role |-> "off", failedOnly |-> FALSE]

ChatsNext ==
  \/ /\ part = "inbound" /\ InboundNext
     /\ UNCHANGED <<part, agentVars, rulesVars, metricsVars, aiPageVars>>
  \/ /\ part = "agent" /\ AgentNext
     /\ UNCHANGED <<part, inboundVars, rulesVars, metricsVars, aiPageVars>>
  \/ /\ part = "rules" /\ RulesNext
     /\ UNCHANGED <<part, inboundVars, agentVars, metricsVars, aiPageVars>>
  \/ /\ part = "metrics" /\ MetricsNext
     /\ UNCHANGED <<part, inboundVars, agentVars, rulesVars, aiPageVars>>
  \/ /\ part = "ai" /\ AiPageNext
     /\ UNCHANGED <<part, inboundVars, agentVars, rulesVars, metricsVars>>

ChatsSpec == ChatsInit /\ [][ChatsNext]_chatsVars

Symmetric == Permutations(Reply)

\* What the modules keep has its type.
ChatsTypesOK == InboundTypeOK /\ AgentTypeOK /\ MetricsTypeOK /\ AiPageTypeOK

\* The newest messages that fit are the history, whatever is taken out of it for the
\* texts answered now; the window and its complement share the day, the filter asks for
\* a code, and the figures of the two scopes agree where they count the same.
RulesAndFiguresHold == RulesMeetTheirReference /\ MetricsAddUp
=============================================================================
