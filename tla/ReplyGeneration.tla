--------------------------- MODULE ReplyGeneration ---------------------------
(***************************************************************************)
(* One reply run from the gate to the send worker's precheck, read by read,  *)
(* while administrators change the group, its reply policy and the settings  *)
(* underneath it.                                                            *)
(***************************************************************************)
EXTENDS RuntimeConfig

CONSTANTS PolicyBodies, \* what administrators post, as partial policies
          Snippets,     \* the knowledge chunks the query matches against
          ScoresSeen,   \* bound: thousandths a chunk may score
          TopK,         \* 8 in the code
          FetchLimit,   \* 2000 in the code: rows read, in no order, before any is scored
          NoPolicy,
          ConfigRows,   \* the runtime configurations looked at
          LlmContents   \* the contents a model may return

VARIABLES group,  \* the groups row: enabled, autoReply
          policy, \* its group_reply_policies row
          run

generationVars == <<group, policy, run>>

PolicyDefaults ==
    [autoReply |-> TRUE, takeover |-> FALSE, enabled |-> TRUE, cannedFirst |-> TRUE,
     knowledgeFirst |-> TRUE, mode |-> "keyword_first", provider |-> NoValue]

PolicyFields == DOMAIN PolicyDefaults
Later == {"knowledgeFirst", "mode", "provider"} \* used after the policy is read
Modes == {"off", "keyword_first", "vector_first", "hybrid"}
Providers == {"standard", "ark_bot"}
Policy == [autoReply : BOOLEAN, takeover : BOOLEAN, enabled : BOOLEAN, cannedFirst : BOOLEAN,
           knowledgeFirst : BOOLEAN, mode : Modes, provider : Providers \cup {NoValue}]
LaterSettings == [knowledgeFirst : BOOLEAN, mode : Modes, provider : Providers \cup {NoValue}]

(* POST: an upsert.  What the body leaves out is defaulted only on create. *)
SavedAnew(old, body) == [f \in PolicyFields |->
    IF f \in DOMAIN body THEN body[f] ELSE PolicyDefaults[f]]
Saved(old, body) == [f \in PolicyFields |->
    IF f \in DOMAIN body THEN body[f] ELSE IF old = NoPolicy THEN PolicyDefaults[f] ELSE old[f]]

ASSUME GenerationAssumption ==
    /\ {TopK, FetchLimit} \subseteq Nat \ {0} /\ IsFiniteSet(Snippets) /\ ScoresSeen \subseteq Int
    /\ NoPolicy \notin Policy
    /\ \A body \in PolicyBodies : Saved(NoPolicy, body) \in Policy
    /\ \A row \in ConfigRows :
         row = NoConfig \/ (IsRow(row) /\ \A k \in Keys : row[k] \notin Masks)

(* getEffectiveGroupPolicy: without a row the switch of the group object    *)
(* counts that the caller passes, however old that object is.               *)
EffectivePolicy(g, p) ==
    IF p # NoPolicy THEN p ELSE [PolicyDefaults EXCEPT !.autoReply = g.autoReply]

(* What keeps a group silent: its row, its policy row, the switch in its    *)
(* row, and that switch without a policy row to overrule it.                *)
Reasons == {"group", "policy", "switch", "bare_switch"}
Silences(g, p) ==
    {r \in Reasons :
       CASE r = "group" -> ~g.enabled
         [] r = "policy" -> p # NoPolicy /\ (~p.autoReply \/ p.takeover \/ ~p.enabled)
         [] r = "switch" -> ~g.autoReply
         [] r = "bare_switch" -> ~g.autoReply /\ p = NoPolicy}

Ats == {"idle", "gate", "policy", "decide", "settings", "canned", "retrieve", "prompt",
        "model", "precheck", "handed", "refused", "quiet", "failed"}
Sources == {"canned", "no_kb_no_fallback", "kb_llm", "llm_only", "kb_llm_ark_bot",
            "llm_only_ark_bot"}
NoSource == "none"

(* group: the row as the run read it; silenced: what has kept the group     *)
(* silent ever since; offered: the scores of the rows fetched, until the    *)
(* prompt is made; prompt: the chunks in it.                                *)
NoScores == <<>>
NewGroup == [enabled |-> TRUE, autoReply |-> TRUE]
IdleRun == [at |-> "idle", group |-> NewGroup, silenced |-> {}, seen |-> NoPolicy,
            prompt |-> {}, offered |-> NoScores, source |-> NoSource]

GenerationTypeOK ==
    /\ group \in [enabled : BOOLEAN, autoReply : BOOLEAN]
    /\ policy \in Policy \cup {NoPolicy}
    /\ run \in [at : Ats, group : [enabled : BOOLEAN, autoReply : BOOLEAN],
                silenced : SUBSET Reasons, seen : LaterSettings \cup {NoPolicy},
                prompt : SUBSET Snippets,
                offered : {NoScores} \cup UNION {[ks -> ScoresSeen] : ks \in SUBSET Snippets},
                source : Sources \cup {NoSource}]

GenerationInit ==
    /\ group = NewGroup
    /\ policy = NoPolicy
    /\ run = IdleRun

-----------------------------------------------------------------------------
(* Administrators.  Each change may end the silence a run has known. *)
StillSilenced == run' = [run EXCEPT !.silenced = @ \cap Silences(group', policy')]

PatchGroup ==
    /\ \E f \in {"enabled", "autoReply"} : group' = [group EXCEPT ![f] = ~@]
    /\ UNCHANGED <<policy, config>>
    /\ StillSilenced

PostPolicy(body) ==
    /\ policy' = Saved(policy, body)
    /\ UNCHANGED <<group, config>>
    /\ StillSilenced

DeletePolicy ==
    /\ policy # NoPolicy
    /\ policy' = NoPolicy
    /\ UNCHANGED <<group, config>>
    /\ StillSilenced

-----------------------------------------------------------------------------
(* The run.  Begin: the group is read, and passed on from here. *)
RunAt(a) == run.at = a
GoTo(a) == run' = [run EXCEPT !.at = a]

Begin ==
    /\ RunAt("idle")
    /\ run' = [IdleRun EXCEPT !.at = IF group.enabled THEN "gate" ELSE "quiet",
                              !.group = group, !.silenced = Silences(group, policy)]
    /\ UNCHANGED <<group, policy, config>>

GateOpen(e) == TRUE
GatePasses(e) == e.autoReply /\ ~e.takeover /\ e.enabled

Gate ==
    /\ RunAt("gate")
    /\ GoTo(IF GatePasses(EffectivePolicy(run.group, policy)) THEN "decide" ELSE "quiet")
    /\ UNCHANGED <<group, policy, config>>

(* evaluateReplyDecision reads the policy row again; module ReplyDecision   *)
(* says what the score makes of the text.                                   *)
Decided ==
    /\ RunAt("decide")
    /\ LET off == policy # NoPolicy /\ (policy.takeover \/ ~policy.enabled)
       IN \E yes \in BOOLEAN : GoTo(IF yes /\ ~off THEN "settings" ELSE "quiet")
    /\ UNCHANGED <<group, policy, config>>

(* generateReplyCore: the runtime configuration (nobody edits it here),     *)
(* then the policy a third time.                                            *)
ReadSettings ==
    /\ RunAt("settings")
    /\ config' = Ensured
    /\ GoTo("policy")
    /\ UNCHANGED <<group, policy>>

ReadPolicy ==
    /\ RunAt("policy")
    /\ LET e == EffectivePolicy(run.group, policy)
       IN run' = [run EXCEPT !.seen = [f \in Later |-> e[f]],
                            !.at = IF e.cannedFirst THEN "canned" ELSE "retrieve"]
    /\ UNCHANGED <<group, policy, config>>

(* The first enabled rule in scope, by priority, that matches the text. *)
TryCanned ==
    /\ RunAt("canned")
    /\ \/ GoTo("retrieve")
       \/ run' = [run EXCEPT !.at = "precheck", !.source = "canned"]
    /\ UNCHANGED <<group, policy, config>>

(* The rows fetched: any of them when there are more than the limit.        *)
Fetched == {ks \in SUBSET Snippets : Cardinality(ks) = Min({FetchLimit, Cardinality(Snippets)})}

(* Their scores by mode: keywords never score below zero, vectors may. *)
Scorings(ks, mode) ==
    IF mode = "keyword_first" THEN [ks -> {n \in ScoresSeen : n >= 0}] ELSE [ks -> ScoresSeen]

(* As many of the pool as there is room for, none of them less similar than *)
(* one that is left out; equal scores come in any order.                    *)
AnyOf(pool, scores) ==
    {s \in SUBSET pool : Cardinality(s) = Min({TopK, Cardinality(pool)})}
TopOf(pool, scores) ==
    {s \in SUBSET pool : /\ Cardinality(s) = Min({TopK, Cardinality(pool)})
                         /\ \A a \in s, b \in pool \ s : scores[a] >= scores[b]}

(* The most similar, from the positive ones only when they fill the place. *)
Picks(ks, scores) ==
    LET positive == {k \in ks : scores[k] > 0}
    IN TopOf(IF Cardinality(positive) >= TopK THEN positive ELSE ks, scores)

(* retrieveChunks, then the chunks scoring above 0.001 go into the prompt. *)
Retrieve ==
    /\ RunAt("retrieve")
    /\ IF run.seen.mode = "off" THEN GoTo("prompt")
       ELSE \E ks \in Fetched : \E scores \in Scorings(ks, run.seen.mode) :
              \E pick \in Picks(ks, scores) :
                run' = [run EXCEPT !.at = "prompt", !.offered = scores,
                                   !.prompt = {k \in pick : scores[k] > 1}]
    /\ UNCHANGED <<group, policy, config>>

HasKb == run.prompt # {}

ComposePrompt ==
    /\ RunAt("prompt")
    /\ IF run.seen.knowledgeFirst /\ ~HasKb /\ Effective(config, "fallback") # "yes"
       THEN run' = [run EXCEPT !.at = "precheck", !.source = "no_kb_no_fallback",
                               !.offered = NoScores]
       ELSE run' = [run EXCEPT !.at = "model", !.offered = NoScores]
    /\ UNCHANGED <<group, policy, config>>

Mode == IF run.seen.provider # NoValue THEN run.seen.provider ELSE Effective(config, "provider")

(* resolveLlmRuntimeForReply: an incomplete ark_bot falls back to standard. *)
Provider ==
    IF Mode = "ark_bot" /\ Effective(config, "arkModel") # NoValue
         /\ Effective(config, "arkKey") # NoValue
    THEN "ark_bot" ELSE "standard"

(* parseLlmReplyFromModelContent: bare or fenced JSON with every key the    *)
(* schema has no default for and a text; other fields are coerced.  What    *)
(* the model says in should_reply is not looked at.                         *)
RequiredKeys == {"should_reply", "reply_text", "confidence", "risk_level", "style"}
Parses(content) ==
    content.form \in {"json", "fenced"} /\ RequiredKeys \subseteq content.keys /\ ~content.nullText

CallModel ==
    /\ RunAt("model")
    /\ \E content \in LlmContents :
         IF Parses(content)
         THEN run' = [run EXCEPT !.at = "precheck",
                !.source = CASE HasKb /\ Provider = "ark_bot" -> "kb_llm_ark_bot"
                             [] HasKb /\ Provider # "ark_bot" -> "kb_llm"
                             [] ~HasKb /\ Provider = "ark_bot" -> "llm_only_ark_bot"
                             [] OTHER -> "llm_only"]
         ELSE GoTo("failed")
    /\ UNCHANGED <<group, policy, config>>

(* checkSendOutboundPrecheck of the reply just queued: the group's own      *)
(* switches and the hourly cap, not the policy.                             *)
PrecheckUnread(g) == TRUE
PrecheckPasses(g) == g.enabled /\ g.autoReply

Precheck ==
    /\ RunAt("precheck")
    /\ \E capped \in BOOLEAN : GoTo(IF PrecheckPasses(group) /\ ~capped THEN "handed" ELSE "refused")
    /\ UNCHANGED <<group, policy, config>>

RunEnds ==
    /\ run.at \in {"handed", "refused", "quiet", "failed"}
    /\ run' = IdleRun
    /\ UNCHANGED <<group, policy, config>>

GenerationNext ==
    \/ PatchGroup \/ DeletePolicy \/ \E body \in PolicyBodies : PostPolicy(body)
    \/ Begin \/ Gate \/ Decided \/ ReadSettings \/ ReadPolicy \/ TryCanned \/ Retrieve
    \/ ComposePrompt \/ CallModel \/ Precheck \/ RunEnds

-----------------------------------------------------------------------------
(* For one reason that holds from before the run to this moment, a group    *)
(* gets no reply, although the run reads its row once and its policy row    *)
(* three times while both are edited: nothing is generated while the group   *)
(* is disabled, its policy row silences it, or its switch is off and it has *)
(* no policy row; and nothing is sent while its switch is off.  Two reasons *)
(* in turn do not add up to one: between them the run may get through.      *)
(* (group-reply-burst.service.ts:91-98, send-message.worker.ts:136-139)     *)
SilencedGroupStaysSilent ==
    /\ run.silenced \cap {"group", "policy", "bare_switch"} # {} =>
         run.at \in {"idle", "gate", "quiet"}
    /\ "switch" \in run.silenced => run.at # "handed"

(* Saving a policy changes no setting the body leaves out, whether it       *)
(* creates the row or updates it, with one exception: the first save turns  *)
(* the replies of a group on whose own switch is off                        *)
(* (admin-v1.routes.ts:480-522, group-reply-policy.service.ts:28-51).       *)
PolicySaveIsLocal ==
    [][\A body \in PolicyBodies : PostPolicy(body) =>
         \A f \in PolicyFields \ DOMAIN body :
           \/ EffectivePolicy(group', policy')[f] = EffectivePolicy(group, policy)[f]
           \/ f = "autoReply" /\ policy = NoPolicy /\ ~group.autoReply]_policy

(* However few of the rows fetched score, the prompt holds exactly the TopK *)
(* most similar of those worth showing: choosing from the positive scores   *)
(* only when they are enough, and filtering afterwards, loses none and adds *)
(* none.  It is about the rows fetched, which of a larger base are any      *)
(* (knowledge-chunk.service.ts:107-161, reply-pipeline.service.ts:143-147). *)
PromptHoldsTheBest ==
    run.at = "prompt" =>
    LET from(ks, n) == Cardinality({k \in ks : run.offered[k] >= n})
    IN \A n \in {x \in ScoresSeen : x > 1} :
         from(run.prompt, n) = Min({TopK, from(DOMAIN run.offered, n)})
=============================================================================
