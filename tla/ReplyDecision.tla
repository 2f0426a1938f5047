---------------------------- MODULE ReplyDecision ----------------------------
(***************************************************************************)
(* evaluateReplyDecision over the conversation of one group: takeover and   *)
(* switch, risk interception, then a score of bonuses and penalties against *)
(* a threshold.  A text is the set of cues it holds: the intent whose       *)
(* keyword it contains, "tail" for a question form that no intent lists     *)
(* (so, or not, an ending), or a blocked keyword.                           *)
(***************************************************************************)
EXTENDS Integers, SequencesExt

CONSTANTS Senders, NoSender, \* webhook events carry a sender id, executor events none
          CueSets,           \* the texts looked at, as sets of cues
          Gaps, MaxChat,     \* seconds between two messages; bound on the conversation
          AnchorLag,         \* bound: messages stored after the one decided about
          RecentLimit,       \* how many messages the decision reads back
          SilenceThreshold,  \* groups.silenceThresholdSeconds
          Unset,             \* a number that the configuration leaves out
          NoRow, NoRuling,
          Settings           \* bound: pairs of a group_reply_policies row and the enabled
                             \* rule_configs by priority

(* The bonuses and penalties, and what one that the rule leaves out counts. *)
WeightDefaults == [question |-> 35, intent |-> 25, lead |-> 20, silence |-> 20, chill |-> 15,
                   overtalk |-> -35, dual |-> -20]
Number == Int \cup {Unset}

PolicyRow == [takeover : BOOLEAN, enabled : BOOLEAN, risk : BOOLEAN,
              threshold : Number]

Rule == [type : {"risk"}, keywords : SUBSET STRING, topics : SUBSET STRING]
        \cup [type : {"trigger"}, threshold : Number,
            weights : [DOMAIN WeightDefaults -> Number]]

ASSUME DecisionAssumption ==
    /\ Gaps \subseteq Nat \ {0} /\ MaxChat \in Nat /\ RecentLimit \in Nat \ {0}
    /\ SilenceThreshold \in Nat \ {0}
    /\ Settings \subseteq ({NoRow} \cup PolicyRow) \X Seq(Rule)

VARIABLES chat,      \* the inbound_messages of the group, oldest first
          policyRow, rules,
          ruling     \* the last decision, until the next message

chatVars == <<chat, policyRow, rules, ruling>>

IntentOrder == <<"faq_question", "activity_question", "recommendation_request",
    "small_talk", "complaint", "emotional", "off_topic", "lead_signal", "greeting",
    "silence_breaker_candidate">>

DefaultThreshold == 50

(* The first intent of the dictionary with a keyword in the text. *)
Intent(cues) ==
    LET hit == SelectInSeq(IntentOrder, LAMBDA i : i \in cues)
    IN IF hit = 0 THEN "unknown" ELSE IntentOrder[hit]

(* Every keyword of faq_question is also a question mark or word. *)
IsQuestion(cues) == cues \cap {"faq_question", "tail"} # {}

DecisionTypeOK ==
    /\ chat \in Seq([robot : BOOLEAN, sender : Senders \cup {NoSender}, at : Nat])
    /\ Len(chat) <= MaxChat
    /\ <<policyRow, rules>> \in Settings
    /\ ruling \in {NoRuling} \cup
         [reply : BOOLEAN, score : Int, reason : {"takeover", "disabled",
          "risk_keywords", "risk_intent", "score"}, delay : Nat, anchor : 1..MaxChat, cues : CueSets]

DecisionInit ==
    /\ chat = <<>> /\ ruling = NoRuling
    /\ \E s \in Settings : policyRow = s[1] /\ rules = s[2]

-----------------------------------------------------------------------------
(* A message is stored: a person's, or one the filters mark as the robot's  *)
(* (its own, an echo of an outbound message, or a repeated capture).        *)
(* Bound: the people of a conversation all come through the same channel.   *)
Speak ==
    /\ Len(chat) < MaxChat
    /\ \E gap \in Gaps, s \in Senders \cup {NoSender}, robot \in BOOLEAN :
         /\ robot => s = NoSender
         /\ \A x \in ToSet(chat) : x.robot \/ robot \/ (x.sender = NoSender <=> s = NoSender)
         /\ chat' = Append(chat, [robot |-> robot, sender |-> s,
                        at |-> gap + (IF chat = <<>> THEN 0 ELSE Last(chat).at)])
    /\ ruling' = NoRuling
    /\ UNCHANGED <<policyRow, rules>>

(* The newest RecentLimit messages, by their place in the conversation. *)
Recent == {i \in 1..Len(chat) : i > Len(chat) - RecentLimit}

People == {i \in Recent : ~chat[i].robot}

(* Seconds since the person before the anchor spoke; 0 when there is none,  *)
(* which earns no bonus either.                                             *)
SilenceBefore(m) ==
    LET earlier == {i \in People : chat[i].at < m.at}
    IN IF earlier = {} THEN 0 ELSE m.at - chat[Max(earlier)].at

RobotCountInAMinute(m) ==
    Cardinality({i \in Recent : chat[i].robot /\ chat[i].at >= m.at - 60})
RobotCount(m) == Cardinality({i \in Recent : chat[i].robot /\ chat[i].at >= m.at - 600})

DualChat ==
    LET named == {i \in People : chat[i].sender # NoSender}
        last5 == {i \in named : Cardinality({j \in named : j > i}) < 5}
    IN Cardinality(last5) >= 4 /\ Cardinality({chat[i].sender : i \in last5}) = 2

(* configs.find: the most preferred rule of the type hides the others. *)
HasRule(type) == SelectInSeq(rules, LAMBDA r : r.type = type) # 0
TheRule(type) == rules[SelectInSeq(rules, LAMBDA r : r.type = type)]

Threshold ==
    IF policyRow # NoRow /\ policyRow.threshold # Unset THEN policyRow.threshold
    ELSE IF HasRule("trigger") /\ TheRule("trigger").threshold # Unset
         THEN TheRule("trigger").threshold
         ELSE DefaultThreshold

Weight(name) ==
    IF HasRule("trigger") /\ TheRule("trigger").weights[name] # Unset
    THEN TheRule("trigger").weights[name]
    ELSE WeightDefaults[name]

Worth(holds, name) == IF holds THEN Weight(name) ELSE 0

(* The intent bonus is for intents that ask, and for a question no intent   *)
(* claims.                                                                  *)
AsksSomething(cues) ==
    \/ Intent(cues) \in {"faq_question", "activity_question", "recommendation_request"}
    \/ Intent(cues) = "unknown" /\ IsQuestion(cues)

AnyIntent(cues) == TRUE
BreaksSilence(cues) == Intent(cues) = "silence_breaker_candidate"

Score(m, cues) ==
    LET silence == SilenceBefore(m) IN
    Worth(IsQuestion(cues), "question")
    + Worth(AsksSomething(cues), "intent")
    + Worth(Intent(cues) = "lead_signal", "lead")
    + Worth(silence >= 120, "silence")
    + Worth(silence >= SilenceThreshold /\ BreaksSilence(cues), "chill")
    + Worth(RobotCount(m) > 2, "overtalk")
    + Worth(DualChat, "dual")

RiskOn == policyRow = NoRow \/ policyRow.risk

BlockedKeyword(cues) ==
    RiskOn /\ HasRule("risk") /\ cues \cap TheRule("risk").keywords # {}

BlockedIntent(cues) ==
    /\ RiskOn
    /\ \/ Intent(cues) \in {"complaint", "emotional", "off_topic"}
       \/ HasRule("risk") /\ Intent(cues) \in TheRule("risk").topics

Reason(cues) ==
    CASE policyRow # NoRow /\ policyRow.takeover -> "takeover"
      [] policyRow # NoRow /\ ~policyRow.enabled -> "disabled"
      [] BlockedKeyword(cues) -> "risk_keywords"
      [] BlockedIntent(cues) -> "risk_intent"
      [] OTHER -> "score"

(* The jitter is 0 to 1000 ms; 1 stands for any delay but 0. *)
Evaluate ==
    /\ ruling = NoRuling
    /\ \E i \in {j \in 1..Len(chat) : j >= Len(chat) - AnchorLag}, cues \in CueSets :
         LET due == Reason(cues) = "score" /\ Score(chat[i], cues) >= Threshold IN
         /\ ~chat[i].robot
         /\ \E delay \in IF due THEN {0, 1} ELSE {0} :
              ruling' = [reply |-> due, reason |-> Reason(cues),
                         score |-> IF Reason(cues) = "score" THEN Score(chat[i], cues) ELSE 0,
                         delay |-> delay, anchor |-> i, cues |-> cues]
    /\ UNCHANGED <<chat, policyRow, rules>>

DecisionNext == Speak \/ Evaluate

(* The flush goes on only with a decision to reply and a delay other than 0. *)
Answers == ruling # NoRuling /\ ruling.reply /\ ruling.delay # 0

-----------------------------------------------------------------------------
(* What a condition can add at most, and the bonuses of which the intent    *)
(* of a text earns one.                                                     *)
Gain(name) == IF Weight(name) > 0 THEN Weight(name) ELSE 0
IntentBonuses == {"intent", "lead", "chill"}

(* Whatever weights and threshold are in force: as long as no one bonus for *)
(* an intent reaches the threshold together with what silence and the       *)
(* penalties may add, as with the seeded ones, only a text with a question  *)
(* form is answered.  No other bonuses ever add up: a text has one intent,  *)
(* and none of the bonuses counts twice                                     *)
(* (reply-decision.engine.ts:125-175, intent.service.ts:16-24).             *)
OnlyQuestionsAreAnswered ==
    /\ Answers
    /\ \A b \in IntentBonuses : Gain(b) + Gain("silence") + Gain("overtalk") + Gain("dual") < Threshold
    => IsQuestion(ruling.cues)

(* Whatever weights and threshold are in force: as long as the overtalk     *)
(* penalty keeps the best that a question can earn below the threshold, as  *)
(* the seeded one does, nothing is answered while more than two of the      *)
(* messages read back are the robot's and at most ten minutes older than    *)
(* the anchor (reply-decision.engine.ts:158-165).                           *)
OvertalkSilences ==
    /\ Answers
    /\ \A b \in IntentBonuses : Gain("question") + Gain(b) + Gain("silence") + Gain("dual")
                                  + Weight("overtalk") < Threshold
    => Cardinality({i \in Recent : chat[i].robot
                      /\ chat[ruling.anchor].at - chat[i].at <= 600}) <= 2
=============================================================================
