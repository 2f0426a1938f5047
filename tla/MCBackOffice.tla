----------------------------- MODULE MCBackOffice -----------------------------
EXTENDS BackOffice

MCCueSets == {{"activity_question"}, {"faq_question", "complaint"}, {"complaint"},
              {"tail", "silence_breaker_candidate"}, {"lead_signal", "refund"}}

MCSeededRules == <<[type |-> "risk", keywords |-> {"refund"}, topics |-> {"complaint"}],
                   [type |-> "trigger", threshold |-> 50, weights |-> WeightDefaults]>>

(* A rule that answers leads outright, but not while the robot overtalks. *)
MCLeadRule == <<[type |-> "trigger", threshold |-> Unset,
                 weights |-> [w \in DOMAIN WeightDefaults |->
                              CASE w = "lead" -> 60 [] w = "silence" -> -20
                                [] w = "overtalk" -> -60 [] OTHER -> Unset]]>>

MCSettings ==
    {<<NoRow, MCSeededRules>>, <<NoRow, MCLeadRule>>,
     <<[takeover |-> FALSE, enabled |-> TRUE, risk |-> FALSE, threshold |-> 40], <<>> >>,
     <<[takeover |-> TRUE, enabled |-> FALSE, risk |-> TRUE, threshold |-> Unset], <<>> >>}

(* No embedding or ark_bot of its own in the environment. *)
MCEnv ==
    [n \in {"ARK_BOT_MODEL", "ARK_BOT_API_KEY", "EMBEDDING_BASE_URL", "EMBEDDING_MODEL",
            "EMBEDDING_API_KEY"} |-> NoValue]
    @@ "LLM_API_KEY" :> <<"e">>
    @@ [n \in {"LLM_BASE_URL", "LLM_MODEL", "ARK_BOT_BASE_URL",
               "DEFAULT_ARK_BOT_BASE_URL", "text-embedding-3-small", "standard", "zh-CN",
               "keyword_first", "yes", "120"} |-> n]

MCTexts == {"typed"}

(* A short key; a long one typed with a blank before it; a placeholder. *)
MCKeyTexts == {<<"k">>, <<"blank", "s", "k", "-", "1", "2", "3", "4", "5", "6">>,
               <<"bullet", "bullet", "blank", "bullet">>}
MCEditable == {"language", "arkKey"}

MCPolicyBodies == {<<>>, [takeover |-> TRUE],
    [autoReply |-> FALSE, knowledgeFirst |-> FALSE, mode |-> "off"],
    [provider |-> "ark_bot", cannedFirst |-> FALSE, mode |-> "hybrid"]}

MCConfigRows ==
    {NoConfig, [EmptyRow EXCEPT !.arkModel = "typed", !.provider = "ark_bot", !.fallback = "no"]}

MCScores == {-400, 300, 800}

MCLlmContents == {[form |-> "fenced", keys |-> RequiredKeys, nullText |-> FALSE],
                  [form |-> "json", keys |-> RequiredKeys \ {"confidence"}, nullText |-> FALSE]}

(* Paragraphs that share a chunk, that fill several, that just miss one. *)
MCContents == {<<1, 1>>, <<9, 1>>, <<3>>}

Symmetry == Permutations(Senders) \cup Permutations(Admins) \cup Permutations(Requests)
            \cup Permutations(RobotIds)
=============================================================================
