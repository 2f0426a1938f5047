-------------------------- MODULE BackOffice_proofs ---------------------------
(***************************************************************************)
(* The decision to reply, the runtime configuration and the generation of a *)
(* reply, for every conversation, every configuration row and every policy  *)
(* an administrator may store; with the two modules it extends, the types   *)
(* of all the services.                                                     *)
(***************************************************************************)
EXTENDS KnowledgeBase_proofs, DeviceRegistry_proofs, FiniteSetTheorems, WellFoundedInduction,
        SequenceTheorems

(* A set of natural numbers has a least one.                                 *)
LEMMA MinIsLeast ==
  ASSUME NEW S \in SUBSET Nat, S # {}
  PROVE  Min(S) \in S /\ \A y \in S : Min(S) <= y
<1> DEFINE Less == OpToRel(<, Nat)
<1>1. \A x, y \in Nat : <<x, y>> \in Less <=> x < y
  BY DEF OpToRel
<1>2. IsWellFoundedOn(Less, Nat)
  BY NatLessThanWellFounded
<1> HIDE DEF Less
<1>3. PICK x \in S : \A y \in S : ~(<<y, x>> \in Less)
  BY <1>2, WFMin
<1>4. ASSUME NEW y \in S PROVE x <= y
  <2>1. x \in Nat /\ y \in Nat
    OBVIOUS
  <2>2. <<y, x>> \in Less <=> y < x
    BY <1>1, <2>1
  <2>3. ~(y < x)
    BY <1>3, <2>2
  <2>4. QED
    BY <2>1, <2>3
<1>5. QED
  BY <1>3, <1>4 DEF Min

-----------------------------------------------------------------------------
(* The first rule of a type is one of the rules and of that type.            *)
LEMMA RuleIsOfItsType ==
  ASSUME rules \in Seq(Rule), NEW type, HasRule(type)
  PROVE  TheRule(type) \in Rule /\ TheRule(type).type = type
<1> DEFINE hits == {i \in 1..Len(rules) : rules[i].type = type}
           first == SelectInSeq(rules, LAMBDA r : r.type = type)
<1>1. first = IF hits # {} THEN Min(hits) ELSE 0
  BY DEF SelectInSeq
<1>2. first # 0 /\ TheRule(type) = rules[first]
  BY DEF HasRule, TheRule
<1>3. first \in hits
  BY <1>1, <1>2, MinIsLeast
<1> HIDE DEF first
<1>4. QED
  BY <1>2, <1>3

(* The threshold is a number whatever the rows leave out.                    *)
LEMMA ThresholdIsNumber ==
  ASSUME <<policyRow, rules>> \in Settings
  PROVE  Threshold \in Int
<1>1. policyRow \in {NoRow} \cup PolicyRow /\ rules \in Seq(Rule)
  BY DecisionAssumption
<1>2. HasRule("trigger") => TheRule("trigger").threshold \in Number
  BY <1>1, RuleIsOfItsType DEF Rule
<1>3. QED
  BY <1>1, <1>2 DEF Threshold, DefaultThreshold, PolicyRow, Number

(* So is every bonus and every penalty.                                     *)
LEMMA WeightIsNumber ==
  ASSUME <<policyRow, rules>> \in Settings, NEW w \in DOMAIN WeightDefaults
  PROVE  Weight(w) \in Int /\ Gain(w) \in Nat /\ Weight(w) <= Gain(w)
<1>1. rules \in Seq(Rule)
  BY DecisionAssumption
<1>2. HasRule("trigger") => TheRule("trigger").weights \in [DOMAIN WeightDefaults -> Number]
  BY <1>1, RuleIsOfItsType DEF Rule
<1>3. WeightDefaults[w] \in Int
  BY DEF WeightDefaults
<1>4. Weight(w) \in Int
  BY <1>2, <1>3 DEF Weight, Number
<1>5. QED
  BY <1>4 DEF Gain

(* A score is a number.  At most one of the bonuses for an intent is in it;  *)
(* without a question its bonus is not, and with many answers of the robot  *)
(* the penalty is.                                                          *)
LEMMA ScoreBounds ==
  ASSUME <<policyRow, rules>> \in Settings, NEW m, NEW cues
  PROVE  /\ Score(m, cues) \in Int
         /\ ~IsQuestion(cues) => \E b \in IntentBonuses :
              Score(m, cues) <= Gain(b) + Gain("silence") + Gain("overtalk") + Gain("dual")
         /\ RobotCount(m) > 2 => \E b \in IntentBonuses :
              Score(m, cues) <= Gain("question") + Gain(b) + Gain("silence") + Gain("dual")
                                + Weight("overtalk")
<1> DEFINE asks == AsksSomething(cues)
           lead == Intent(cues) = "lead_signal"
           chill == SilenceBefore(m) >= SilenceThreshold /\ BreaksSilence(cues)
<1>1. /\ asks => Intent(cues) \in {"faq_question", "activity_question",
                                   "recommendation_request", "unknown"}
      /\ chill => Intent(cues) = "silence_breaker_candidate"
  BY DEF AsksSomething, BreaksSilence
<1>2. ~(asks /\ lead) /\ ~(asks /\ chill) /\ ~(lead /\ chill)
  BY <1>1
<1>3. \A w \in {"question", "intent", "lead", "silence", "chill", "overtalk", "dual"} :
        Weight(w) \in Int /\ Gain(w) \in Nat /\ Weight(w) <= Gain(w)
  BY WeightIsNumber DEF WeightDefaults
<1> DEFINE q == IF IsQuestion(cues) THEN Weight("question") ELSE 0
           a == IF asks THEN Weight("intent") ELSE 0
           l == IF lead THEN Weight("lead") ELSE 0
           s == IF SilenceBefore(m) >= 120 THEN Weight("silence") ELSE 0
           c == IF chill THEN Weight("chill") ELSE 0
           o == IF RobotCount(m) > 2 THEN Weight("overtalk") ELSE 0
           d == IF DualChat THEN Weight("dual") ELSE 0
<1>4. /\ Score(m, cues) = q + a + l + s + c + o + d
      /\ q \in Int /\ a \in Int /\ l \in Int /\ s \in Int /\ c \in Int /\ o \in Int /\ d \in Int
      /\ q = IF IsQuestion(cues) THEN Weight("question") ELSE 0
      /\ a = IF asks THEN Weight("intent") ELSE 0
      /\ l = IF lead THEN Weight("lead") ELSE 0
      /\ s \in {0, Weight("silence")}
      /\ c = IF chill THEN Weight("chill") ELSE 0
      /\ o = IF RobotCount(m) > 2 THEN Weight("overtalk") ELSE 0
      /\ d \in {0, Weight("dual")}
  <2>1. Score(m, cues) = q + a + l + s + c + o + d
    BY DEF Score, Worth
  <2>2. q \in Int /\ a \in Int /\ l \in Int /\ s \in Int /\ c \in Int /\ o \in Int /\ d \in Int
    BY <1>3
  <2>3. QED
    BY <2>1, <2>2
<1> HIDE DEF q, a, l, s, c, o, d
<1> HIDE DEF asks, lead, chill
<1>5. q <= Gain("question") /\ s <= Gain("silence") /\ o <= Gain("overtalk") /\ d <= Gain("dual")
  BY <1>3, <1>4
<1>6. PICK b \in IntentBonuses : a + l + c <= Gain(b)
  <2>1. asks => a + l + c <= Gain("intent")
    BY <1>2, <1>3, <1>4
  <2>2. lead => a + l + c <= Gain("lead")
    BY <1>2, <1>3, <1>4
  <2>3. ~asks /\ ~lead => a + l + c <= Gain("chill")
    BY <1>3, <1>4
  <2>4. QED
    BY <2>1, <2>2, <2>3 DEF IntentBonuses
<1>7. Gain(b) \in Nat /\ \A w \in {"question", "silence", "overtalk", "dual"} : Gain(w) \in Nat
  BY <1>3 DEF IntentBonuses
<1>8. ~IsQuestion(cues) =>
        Score(m, cues) <= Gain(b) + Gain("silence") + Gain("overtalk") + Gain("dual")
  BY <1>4, <1>5, <1>6, <1>7
<1>9. RobotCount(m) > 2 =>
        Score(m, cues) <= Gain("question") + Gain(b) + Gain("silence") + Gain("dual")
                          + Weight("overtalk")
  BY <1>3, <1>4, <1>5, <1>6, <1>7
<1>10. QED
  BY <1>4, <1>8, <1>9

(* The replies of the robot that count are a number.                        *)
LEMMA RobotCountIsNumber ==
  ASSUME NEW m, Len(chat) \in Nat
  PROVE  RobotCount(m) \in Nat
<1>1. IsFiniteSet(1..Len(chat))
  BY FS_Interval
<1>2. {i \in Recent : chat[i].robot /\ chat[i].at >= m.at - 600} \in SUBSET (1..Len(chat))
  BY DEF Recent
<1>3. QED
  BY <1>1, <1>2, FS_Subset, FS_CardinalityType DEF RobotCount

-----------------------------------------------------------------------------
(* A reply was decided by the score of a message of the conversation as it   *)
(* still stands, against the threshold in force.                            *)
RepliesAreScored ==
    ruling # NoRuling =>
      /\ ruling.anchor \in 1..Len(chat)
      /\ ruling.reply => Score(chat[ruling.anchor], ruling.cues) >= Threshold

DecisionInv == DecisionTypeOK /\ RepliesAreScored

(* Every message has a time.                                                *)
LEMMA ChatIsTimed ==
  ASSUME DecisionTypeOK
  PROVE  /\ Len(chat) \in Nat /\ \A i \in 1..Len(chat) : chat[i].at \in Nat
         /\ (IF chat = <<>> THEN 0 ELSE Last(chat).at) \in Nat
<1> DEFINE Message == [robot : BOOLEAN, sender : Senders \cup {NoSender}, at : Nat]
<1>1. chat \in Seq(Message)
  BY DEF DecisionTypeOK
<1>2. \A m \in Message : m.at \in Nat
  OBVIOUS
<1> HIDE DEF Message
<1>3. chat # <<>> => Len(chat) \in 1..Len(chat)
  BY <1>1
<1>4. QED
  BY <1>1, <1>2, <1>3 DEF Last

(* The same messages score the same against the same threshold.             *)
LEMMA ScoreStays ==
  ASSUME UNCHANGED <<chat, policyRow, rules>>
  PROVE  Threshold' = Threshold /\ \A m, cues : Score(m, cues)' = Score(m, cues)
<1>1. HasRule("trigger")' = HasRule("trigger") /\ TheRule("trigger")' = TheRule("trigger")
  BY DEF HasRule, TheRule, SelectInSeq
<1>2. Threshold' = Threshold
  BY <1>1 DEF Threshold
<1>3. People' = People /\ Recent' = Recent
  BY DEF People, Recent
<1>4. ASSUME NEW m PROVE SilenceBefore(m)' = SilenceBefore(m) /\ RobotCount(m)' = RobotCount(m)
  BY <1>3 DEF SilenceBefore, RobotCount
<1>5. DualChat' = DualChat
  BY <1>3 DEF DualChat
<1>6. \A w : Weight(w)' = Weight(w)
  BY <1>1 DEF Weight
<1>7. ASSUME NEW m, NEW cues PROVE Score(m, cues)' = Score(m, cues)
  BY <1>4, <1>5, <1>6 DEF Score, Worth
<1>8. QED
  BY <1>2, <1>7

LEMMA DecisionStarts == DecisionInit => DecisionInv
BY DecisionAssumption DEF DecisionInit, DecisionInv, DecisionTypeOK, RepliesAreScored

LEMMA DecisionKeeps == DecisionInv /\ [DecisionNext]_chatVars => DecisionInv'
<1> SUFFICES ASSUME DecisionInv, [DecisionNext]_chatVars PROVE DecisionInv'
  OBVIOUS
<1> USE DecisionAssumption
<1>1. CASE Speak
  <2>1. PICK gap \in Gaps, s \in Senders \cup {NoSender}, robot \in BOOLEAN :
          chat' = Append(chat, [robot |-> robot, sender |-> s,
                     at |-> gap + (IF chat = <<>> THEN 0 ELSE Last(chat).at)])
    BY <1>1 DEF Speak
  <2>2. (IF chat = <<>> THEN 0 ELSE Last(chat).at) \in Nat
    BY ChatIsTimed DEF DecisionInv
  <2>3. UNCHANGED <<policyRow, rules>> /\ ruling' = NoRuling /\ Len(chat) < MaxChat
    BY <1>1 DEF Speak
  <2>4. gap + (IF chat = <<>> THEN 0 ELSE Last(chat).at) \in Nat
    BY <2>2
  <2>5. chat' \in Seq([robot : BOOLEAN, sender : Senders \cup {NoSender}, at : Nat])
        /\ Len(chat') = Len(chat) + 1
    BY <2>1, <2>4 DEF DecisionInv, DecisionTypeOK
  <2>6. QED
    BY <2>3, <2>5, ChatIsTimed DEF DecisionInv, DecisionTypeOK, RepliesAreScored
<1>2. CASE Evaluate
  <2>1. PICK i \in 1..Len(chat), cues \in CueSets, delay \in {0, 1}, due \in BOOLEAN :
          /\ due => Reason(cues) = "score" /\ Score(chat[i], cues) >= Threshold
          /\ ruling' = [reply |-> due, reason |-> Reason(cues),
                        score |-> IF Reason(cues) = "score" THEN Score(chat[i], cues) ELSE 0,
                        delay |-> delay, anchor |-> i, cues |-> cues]
    BY <1>2 DEF Evaluate
  <2>2. Reason(cues) \in {"takeover", "disabled", "risk_keywords", "risk_intent", "score"}
    BY DEF Reason
  <2>3. (IF Reason(cues) = "score" THEN Score(chat[i], cues) ELSE 0) \in Int
    BY ScoreBounds DEF DecisionInv, DecisionTypeOK
  <2>4. UNCHANGED <<chat, policyRow, rules>>
    BY <1>2 DEF Evaluate
  <2>5. DecisionTypeOK'
    BY <2>1, <2>2, <2>3, <2>4 DEF DecisionInv, DecisionTypeOK
  <2>6. ruling'.anchor = i /\ ruling'.cues = cues /\ ruling'.reply = due
    BY <2>1
  <2>7. RepliesAreScored'
    BY <2>1, <2>4, <2>6, ScoreStays DEF RepliesAreScored
  <2>8. QED
    BY <2>5, <2>7 DEF DecisionInv
<1>3. CASE UNCHANGED chatVars
  <2>1. DecisionTypeOK'
    BY <1>3 DEF chatVars, DecisionInv, DecisionTypeOK
  <2>2. RepliesAreScored'
    BY <1>3, ScoreStays DEF chatVars, DecisionInv, RepliesAreScored
  <2>3. QED
    BY <2>1, <2>2 DEF DecisionInv
<1>4. QED
  BY <1>1, <1>2, <1>3 DEF DecisionNext

(* No other area touches a conversation.                                    *)
LEMMA DecisionHolds == Spec => []DecisionInv
<1>1. Init => DecisionInv
  BY DecisionStarts DEF Init
<1>2. DecisionInv /\ [Next]_vars => DecisionInv'
  <2>1. [Next]_vars => [DecisionNext]_chatVars
    BY DEF Next, vars, DecisionArea, ConfigArea, GenerationArea, KnowledgeArea, RegistryArea,
           chatVars
  <2>2. QED BY <2>1, DecisionKeeps
<1>3. QED
  BY <1>1, <1>2, PTL DEF Spec

(* Whatever the weights and the threshold: where no bonus of an intent        *)
(* reaches it with the others that do not need a question, what is answered *)
(* is a question.                                                           *)
THEOREM OnlyQuestionsAreAnsweredHolds == Spec => []OnlyQuestionsAreAnswered
<1>1. DecisionInv => OnlyQuestionsAreAnswered
  <2> SUFFICES ASSUME DecisionInv, Answers, ~IsQuestion(ruling.cues)
               PROVE  \E b \in IntentBonuses :
                        ~(Gain(b) + Gain("silence") + Gain("overtalk") + Gain("dual") < Threshold)
    BY DEF OnlyQuestionsAreAnswered
  <2> DEFINE score == Score(chat[ruling.anchor], ruling.cues)
  <2>1. <<policyRow, rules>> \in Settings
    BY DEF DecisionInv, DecisionTypeOK
  <2>2. Threshold \in Int /\ score >= Threshold /\ score \in Int
    BY <2>1, ThresholdIsNumber, ScoreBounds DEF DecisionInv, RepliesAreScored, Answers
  <2>3. PICK b \in IntentBonuses :
          score <= Gain(b) + Gain("silence") + Gain("overtalk") + Gain("dual")
    BY <2>1, ScoreBounds
  <2>4. \A w \in {b, "silence", "overtalk", "dual"} : Gain(w) \in Nat
    BY <2>1, WeightIsNumber DEF WeightDefaults, IntentBonuses
  <2> HIDE DEF score
  <2>5. QED
    BY <2>2, <2>3, <2>4
<1>2. QED
  BY <1>1, DecisionHolds, PTL

(* Whatever the weights and the threshold: where the penalty outweighs all a *)
(* question can earn, nothing is answered while the robot has spoken more   *)
(* than twice in the ten minutes before.                                    *)
THEOREM OvertalkSilencesHolds == Spec => []OvertalkSilences
<1>1. DecisionInv => OvertalkSilences
  <2> SUFFICES ASSUME DecisionInv, Answers,
                      \A b \in IntentBonuses : Gain("question") + Gain(b) + Gain("silence")
                         + Gain("dual") + Weight("overtalk") < Threshold
               PROVE  Cardinality({i \in Recent : chat[i].robot
                        /\ chat[ruling.anchor].at - chat[i].at <= 600}) <= 2
    BY DEF OvertalkSilences
  <2> DEFINE m == chat[ruling.anchor]
             score == Score(m, ruling.cues)
  <2>1. <<policyRow, rules>> \in Settings /\ Len(chat) \in Nat
    BY DEF DecisionInv, DecisionTypeOK
  <2>2. Threshold \in Int /\ score >= Threshold /\ score \in Int
    BY <2>1, ThresholdIsNumber, ScoreBounds DEF DecisionInv, RepliesAreScored, Answers
  <2>3. RobotCount(m) > 2 => \E b \in IntentBonuses :
          score <= Gain("question") + Gain(b) + Gain("silence") + Gain("dual") + Weight("overtalk")
    BY <2>1, ScoreBounds
  <2>4. \A b \in IntentBonuses : \A w \in {"question", b, "silence", "dual"} :
          Gain(w) \in Nat /\ Weight("overtalk") \in Int
    BY <2>1, WeightIsNumber DEF WeightDefaults, IntentBonuses
  <2>5. RobotCount(m) \in Nat
    BY <2>1, RobotCountIsNumber
  <2> HIDE DEF score
  <2>6. RobotCount(m) <= 2
    BY <2>2, <2>3, <2>4, <2>5
  <2>7. m.at \in Nat /\ \A i \in Recent : chat[i].at \in Nat
    BY ChatIsTimed DEF DecisionInv, RepliesAreScored, Answers, Recent
  <2>8. {i \in Recent : chat[i].robot /\ m.at - chat[i].at <= 600}
          = {i \in Recent : chat[i].robot /\ chat[i].at >= m.at - 600}
    BY <2>7
  <2>9. QED
    BY <2>6, <2>8 DEF RobotCount
<1>2. QED
  BY <1>1, DecisionHolds, PTL

-----------------------------------------------------------------------------
(* A set of numbers up to n has a greatest one: seen from n it is the least. *)
LEMMA MaxOfPlaces ==
  ASSUME NEW n \in Nat, NEW S \in SUBSET (1..n), S # {}
  PROVE  Max(S) \in S /\ \A y \in S : Max(S) >= y
<1> DEFINE T == {n - y : y \in S}
<1>1. T \in SUBSET Nat /\ T # {}
  <2>1. \A y \in S : y \in Nat /\ y <= n /\ n - y \in Nat
    OBVIOUS
  <2>2. \A z \in T : z \in Nat
    BY <2>1
  <2>3. PICK y \in S : TRUE
    OBVIOUS
  <2>4. n - y \in T
    BY <2>3
  <2>5. QED
    BY <2>2, <2>4
<1> HIDE DEF T
<1>2. Min(T) \in T /\ \A z \in T : Min(T) <= z
  BY <1>1, MinIsLeast
<1> USE DEF T
<1>3. PICK x \in S : Min(T) = n - x
  BY <1>2
<1>4. \A y \in S : n - x <= n - y
  BY <1>2, <1>3
<1>5. \A y \in S : x >= y
  BY <1>4
<1>6. QED
  BY <1>5 DEF Max

(* A trimmed text is a text; it starts at the first character that is not    *)
(* blank and ends at the last.                                              *)
LEMMA TrimmedText ==
  ASSUME NEW t \in Seq(Chars)
  PROVE  /\ Trim(t) \in Seq(Chars)
         /\ \A p \in 1..Len(t) : t[1] # "blank" /\ t[p] # "blank" =>
              Len(Trim(t)) >= p /\ \A i \in 1..p : Trim(t)[i] = t[i]
<1> DEFINE hits == {i \in 1..Len(t) : t[i] # "blank"}
           first == SelectInSeq(t, LAMBDA c : c # "blank")
           last == SelectLastInSeq(t, LAMBDA c : c # "blank")
<1>1. /\ first = IF hits # {} THEN Min(hits) ELSE 0
      /\ last = IF hits # {} THEN Max(hits) ELSE 0
      /\ Trim(t) = IF first = 0 THEN <<>> ELSE SubSeq(t, first, last)
  BY DEF SelectInSeq, SelectLastInSeq, Trim
<1>2. hits \in SUBSET (1..Len(t)) /\ hits \in SUBSET Nat /\ Len(t) \in Nat
  OBVIOUS
<1>3. CASE hits = {}
  <2>1. Trim(t) = <<>> /\ \A p \in 1..Len(t) : t[p] = "blank"
    BY <1>1, <1>3
  <2>2. QED
    BY <2>1
<1>4. CASE hits # {}
  <2>1. /\ first \in hits /\ \A y \in hits : first <= y
        /\ last \in hits /\ \A y \in hits : last >= y
    <3>1. first = Min(hits) /\ last = Max(hits)
      BY <1>1, <1>4
    <3> HIDE DEF hits, first, last
    <3>2. QED
      BY <1>2, <1>4, <3>1, MinIsLeast, MaxOfPlaces
  <2> HIDE DEF first, last
  <2>2. first \in 1..Len(t) /\ last \in 1..Len(t) /\ first <= last
    BY <2>1
  <2>3. Trim(t) = SubSeq(t, first, last)
    BY <1>1, <2>2, first # 0
  <2>4. \A i \in first..last : t[i] \in Chars
    BY <2>2
  <2>5. /\ SubSeq(t, first, last) \in Seq(Chars)
        /\ Len(SubSeq(t, first, last)) = last - first + 1
        /\ \A i \in 1..(last - first + 1) : SubSeq(t, first, last)[i] = t[first + i - 1]
    BY <2>2, <2>4, SubSeqProperties
  <2>6. ASSUME NEW p \in 1..Len(t), t[1] # "blank", t[p] # "blank"
        PROVE  Len(Trim(t)) >= p /\ \A i \in 1..p : Trim(t)[i] = t[i]
    <3>1. 1 \in hits /\ p \in hits
      BY <2>6
    <3>2. first = 1 /\ last >= p
      BY <2>1, <2>2, <3>1
    <3>3. QED
      BY <2>2, <2>3, <2>5, <3>2
  <2>7. QED
    BY <2>3, <2>5, <2>6
<1>5. QED
  BY <1>3, <1>4

(* Stars are a text.                                                        *)
LEMMA StarsAreStars ==
  ASSUME NEW n \in Nat
  PROVE  Stars(n) \in Seq(Chars) /\ Len(Stars(n)) = n /\ \A i \in 1..n : Stars(n)[i] = "*"
BY DEF Stars, Chars, MaskChars

(* A text that starts with four stars means that the key is kept.           *)
LEMMA FourStarsMeanKeep ==
  ASSUME NEW t \in Seq(Chars), Len(t) >= 4, \A i \in 1..4 : t[i] = "*"
  PROVE  MeansKeep(t)
<1>1. Stars(4) \in Seq(Chars) /\ Len(Stars(4)) = 4 /\ \A i \in 1..4 : Stars(4)[i] = "*"
  BY StarsAreStars
<1>2. SubSeq(Stars(4), 1, 4) = SubSeq(t, 1, 4)
  <2>1. /\ SubSeq(Stars(4), 1, 4) \in Seq(Chars) /\ Len(SubSeq(Stars(4), 1, 4)) = 4
        /\ \A i \in 1..4 : SubSeq(Stars(4), 1, 4)[i] = Stars(4)[i]
    BY <1>1, SubSeqProperties
  <2>2. /\ SubSeq(t, 1, 4) \in Seq(Chars) /\ Len(SubSeq(t, 1, 4)) = 4
        /\ \A i \in 1..4 : SubSeq(t, 1, 4)[i] = t[i]
    BY SubSeqProperties
  <2>3. QED
    BY <1>1, <2>1, <2>2, SeqEqual
<1>3. IsPrefix(Stars(4), t)
  BY <1>1, <1>2 DEF IsPrefix
<1>4. QED
  BY <1>3 DEF MeansKeep

(* However long a key is, its mask is eight characters, the first four of    *)
(* them stars; so it is kept when the mask comes back, trimmed or not.       *)
LEMMA MaskMeansKeep ==
  ASSUME NEW key \in Seq(Chars)
  PROVE  MaskOf(key) \in Seq(Chars) /\ MeansKeep(MaskOf(key)) /\ MeansKeep(Trim(MaskOf(key)))
<1>1. MaskOf(key) \in Seq(Chars) /\ Len(MaskOf(key)) = 8 /\ \A i \in 1..4 : MaskOf(key)[i] = "*"
  <2>1. CASE Len(key) <= 8
    <3>1. Stars(8) \in Seq(Chars) /\ Len(Stars(8)) = 8 /\ \A i \in 1..8 : Stars(8)[i] = "*"
      BY StarsAreStars
    <3>2. MaskOf(key) = Stars(8)
      BY <2>1 DEF MaskOf
    <3>3. QED
      BY <3>1, <3>2
  <2>2. CASE ~(Len(key) <= 8)
    <3> DEFINE end == SubSeq(key, Len(key) - 3, Len(key))
    <3>1. \A i \in (Len(key) - 3)..Len(key) : key[i] \in Chars
      BY <2>2
    <3>2. end \in Seq(Chars) /\ Len(end) = 4
      BY <2>2, <3>1, SubSeqProperties
    <3>3. Stars(4) \in Seq(Chars) /\ Len(Stars(4)) = 4 /\ \A i \in 1..4 : Stars(4)[i] = "*"
      BY StarsAreStars
    <3>4. MaskOf(key) = Stars(4) \o end
      BY <2>2 DEF MaskOf
    <3> HIDE DEF end
    <3>5. /\ Stars(4) \o end \in Seq(Chars) /\ Len(Stars(4) \o end) = Len(Stars(4)) + Len(end)
          /\ \A i \in 1..(Len(Stars(4)) + Len(end)) : (Stars(4) \o end)[i] =
               IF i <= Len(Stars(4)) THEN Stars(4)[i] ELSE end[i - Len(Stars(4))]
      BY <3>2, <3>3, ConcatProperties
    <3>6. Len(Stars(4)) = 4 /\ Len(end) = 4 /\ Len(Stars(4)) + Len(end) = 4 + 4
      BY <3>2, <3>3
    <3>7. \A i \in 1..4 : i \in 1..(4 + 4) /\ i <= 4
      OBVIOUS
    <3>8. Len(MaskOf(key)) = 8
      BY <3>4, <3>5, <3>6
    <3>9. ASSUME NEW i \in 1..4 PROVE MaskOf(key)[i] = "*"
      BY <3>3, <3>4, <3>5, <3>6, <3>7
    <3>10. QED
      BY <3>4, <3>5, <3>8, <3>9
  <2>3. QED BY <2>1, <2>2
<1>2. MeansKeep(MaskOf(key))
  BY <1>1, FourStarsMeanKeep
<1>3. MaskOf(key)[1] # "blank" /\ MaskOf(key)[4] # "blank"
  BY <1>1
<1>4. /\ Trim(MaskOf(key)) \in Seq(Chars) /\ Len(Trim(MaskOf(key))) >= 4
      /\ \A i \in 1..4 : Trim(MaskOf(key))[i] = "*"
  BY <1>1, <1>3, TrimmedText, 4 \in 1..Len(MaskOf(key))
<1>5. MeansKeep(Trim(MaskOf(key)))
  BY <1>4, FourStarsMeanKeep
<1>6. QED
  BY <1>1, <1>2, <1>5

(* So does an empty field.                                                  *)
LEMMA EmptyMeansKeep == MeansKeep(Trim(<<>>))
<1>1. SelectInSeq(<<>>, LAMBDA c : c # "blank") = 0
  BY DEF SelectInSeq
<1>2. Trim(<<>>) = <<>>
  BY <1>1 DEF Trim
<1>3. ToSet(<<>>) = {}
  BY DEF ToSet
<1>4. QED
  BY <1>2, <1>3 DEF MeansKeep

(* A stored key is a text, and no mask of one is stored.                    *)
LEMMA StoredKeyIsText == StoredKeys \subseteq Seq(Chars) /\ Masks \subseteq Seq(Chars)
<1>1. \A t \in KeyTexts : Trim(t) \in Seq(Chars)
  BY ConfigAssumption, TrimmedText
<1>2. StoredKeys \subseteq Seq(Chars)
  BY <1>1 DEF StoredKeys
<1>3. QED
  BY <1>2, MaskMeansKeep DEF Masks

LEMMA KeyIsKeptOrTyped ==
  ASSUME NEW old \in {NoValue} \cup StoredKeys, NEW typed \in Typeable
  PROVE  /\ KeyToStore(old, typed) \in {NoValue} \cup StoredKeys
         /\ old \notin Masks => KeyToStore(old, typed) \notin Masks
<1>1. CASE MeansKeep(Trim(typed))
  BY <1>1 DEF KeyToStore
<1>2. CASE ~MeansKeep(Trim(typed))
  <2>1. typed \notin Masks /\ typed # <<>>
    <3>1. \A m \in Masks : MeansKeep(Trim(m))
      BY StoredKeyIsText, MaskMeansKeep DEF Masks
    <3>2. QED
      BY <1>2, <3>1, EmptyMeansKeep
  <2>2. typed \in KeyTexts
    BY <2>1 DEF Typeable
  <2>3. Trim(typed) \in StoredKeys
    BY <2>2 DEF StoredKeys
  <2>4. \A m \in Masks : MeansKeep(m)
    BY StoredKeyIsText, MaskMeansKeep DEF Masks
  <2>5. QED
    BY <1>2, <2>3, <2>4 DEF KeyToStore
<1>3. QED
  BY <1>1, <1>2

-----------------------------------------------------------------------------
(* What a blank field stands for: a text of the environment or nothing; for *)
(* a field with a default, that default.                                     *)
LEMMA FallbackIsText ==
  ASSUME NEW f \in Shown
  PROVE  FallbackOf(f) \in Values \cup {NoValue}
<1> DEFINE hits == {i \in 1..Len(Fallbacks[f]) : Env[Fallbacks[f][i]] # NoValue}
           first == SelectInSeq(Fallbacks[f], LAMBDA n : Env[n] # NoValue)
<1>1. first = IF hits # {} THEN Min(hits) ELSE 0
  BY DEF SelectInSeq
<1>2. Len(Fallbacks[f]) \in Nat /\ DOMAIN Fallbacks[f] = 1..Len(Fallbacks[f])
  BY DEF Fallbacks, Fields, Keys, Shown
<1>3. first # 0 => first \in 1..Len(Fallbacks[f])
  <2>1. hits \in SUBSET (1..Len(Fallbacks[f])) /\ hits \in SUBSET Nat
    BY <1>2
  <2> HIDE DEF hits, first
  <2>2. QED
    BY <1>1, <2>1, MinIsLeast
<1>4. FallbackOf(f) = IF first = 0 THEN NoValue ELSE Env[Fallbacks[f][first]]
  BY DEF FallbackOf
<1> HIDE DEF first
<1>5. \A i \in 1..Len(Fallbacks[f]) : Env[Fallbacks[f][i]] \in EnvOf(Shown)
  BY <1>2 DEF EnvOf
<1>6. QED
  BY <1>3, <1>4, <1>5 DEF Values

LEMMA FallbackIsDefault ==
  ASSUME NEW f \in Defaults
  PROVE  /\ f \in Shown
         /\ FallbackOf(f) = Env[Fallbacks[f][1]]
<1> DEFINE hits == {i \in 1..Len(Fallbacks[f]) : Env[Fallbacks[f][i]] # NoValue}
           first == SelectInSeq(Fallbacks[f], LAMBDA n : Env[n] # NoValue)
<1>1. first = IF hits # {} THEN Min(hits) ELSE 0
  BY DEF SelectInSeq
<1>2. Len(Fallbacks[f]) = 1
  BY DEF Fallbacks, Defaults, Fields, Keys, Shown
<1>3. first = IF Env[Fallbacks[f][1]] # NoValue THEN 1 ELSE 0
  BY <1>1, <1>2, MinIsLeast
<1>4. FallbackOf(f) = IF first = 0 THEN NoValue ELSE Env[Fallbacks[f][first]]
  BY DEF FallbackOf
<1> HIDE DEF first
<1>5. QED
  BY <1>3, <1>4 DEF Defaults, Shown

(* What field f stands for once v of a form is saved in it.                 *)
Stands(f, v) == IF ToStore(f, v) # NoValue THEN ToStore(f, v) ELSE FallbackOf(f)

(* The effective value that a form shows stands for itself.                 *)
LEMMA ShownStandsForItself ==
  ASSUME NEW row, NEW f \in Fields
  PROVE  Stands(f, Effective(row, f)) = Effective(row, f)
BY FallbackIsDefault DEF Stands, ToStore, Effective

(* No row is the absence of one.                                            *)
LEMMA RowIsThere ==
  ASSUME NEW row, row = [f \in Fields |-> row[f]], IsRow(row)
  PROVE  row # NoConfig
<1>1. \A f \in Fields : row[f] \in Values \cup StoredKeys \cup {NoValue}
  BY DEF IsRow, Fields
<1>2. row \in [Fields -> Values \cup StoredKeys \cup {NoValue}]
  BY <1>1
<1>3. QED
  BY <1>2, ConfigAssumption

(* A row is made when there is none, and stands for the same; no key in it   *)
(* is a mask unless one was stored.                                         *)
LEMMA EnsuredKeeps ==
  ASSUME ConfigTypeOK
  PROVE  /\ IsRow(Ensured) /\ Ensured # NoConfig
         /\ \A f \in Fields : Effective(Ensured, f) = Effective(config, f)
         /\ MaskIsNeverStored => \A k \in Keys : Ensured[k] \notin Masks
<1>1. CASE config # NoConfig
  BY <1>1 DEF Ensured, ConfigTypeOK, MaskIsNeverStored
<1>2. CASE config = NoConfig
  <2>1. Ensured = [f \in Fields |-> IF f \in Defaults THEN Env[Fallbacks[f][1]] ELSE NoValue]
    BY <1>2 DEF Ensured
  <2>2. \A f \in Fields :
          Ensured[f] = IF f \in Defaults THEN FallbackOf(f) ELSE NoValue
    BY <2>1, FallbackIsDefault
  <2>3. IsRow(Ensured)
    <3>1. \A k \in Keys : Ensured[k] = NoValue
      BY <2>2 DEF Keys, Fields, Defaults
    <3>2. \A f \in Shown : Ensured[f] \in Values \cup {NoValue}
      BY <2>2, FallbackIsText DEF Fields
    <3>3. QED
      BY <2>1, <3>1, <3>2 DEF IsRow
  <2>4. Ensured # NoConfig
    <3>1. Ensured = [f \in Fields |-> Ensured[f]]
      BY <2>1
    <3>2. QED
      BY <2>3, <3>1, RowIsThere
  <2>5. \A f \in Fields : Effective(Ensured, f) = FallbackOf(f)
    BY <2>2, <2>4 DEF Effective
  <2>6. \A k \in Keys : Ensured[k] \notin Masks
    <3>1. \A k \in Keys : Ensured[k] = NoValue
      BY <2>2 DEF Keys, Fields, Defaults
    <3>2. QED
      BY <3>1, StoredKeyIsText, ConfigAssumption
  <2>7. QED
    BY <1>2, <2>3, <2>4, <2>5, <2>6 DEF Effective
<1>3. QED
  BY <1>1, <1>2

(* What an administrator sees and did not touch is what is in force; nobody *)
(* typed a key into it.                                                     *)
UntouchedFormsAreTrue ==
    \A a \in Admins : forms[a] # NoForm /\ ~forms[a].touched =>
      /\ \A k \in Keys : forms[a].typed[k] = <<>>
      /\ forms[a].fresh =>
           \A f \in Shown : Stands(f, forms[a].shown[f]) = Effective(config, f)

ConfigInv == ConfigTypeOK /\ MaskIsNeverStored /\ UntouchedFormsAreTrue

(* A form that is saved: the row it leaves.                                 *)
LEMMA SavedRow ==
  ASSUME ConfigTypeOK, MaskIsNeverStored, NEW a \in Admins, SaveForm(a)
  PROVE  /\ IsRow(config') /\ config' # NoConfig
         /\ \A k \in Keys : /\ config'[k] = KeyToStore(Ensured[k], forms[a].typed[k])
                            /\ config'[k] \notin Masks
         /\ \A f \in Shown : Effective(config', f) = Stands(f, forms[a].shown[f])
<1>1. forms[a] \in Form
  BY DEF SaveForm, ConfigTypeOK
<1>2. config' = [f \in Fields |-> IF f \in Keys THEN KeyToStore(Ensured[f], forms[a].typed[f])
                                 ELSE ToStore(f, forms[a].shown[f])]
  BY DEF SaveForm
<1>3. \A k \in Keys : config'[k] = KeyToStore(Ensured[k], forms[a].typed[k])
  BY <1>2 DEF Fields
<1>4. \A f \in Shown : config'[f] = ToStore(f, forms[a].shown[f])
  BY <1>2 DEF Fields, Keys, Shown
<1>5. \A k \in Keys : config'[k] \in {NoValue} \cup StoredKeys /\ config'[k] \notin Masks
  <2> SUFFICES ASSUME NEW k \in Keys
               PROVE  config'[k] \in {NoValue} \cup StoredKeys /\ config'[k] \notin Masks
    OBVIOUS
  <2>1. forms[a].typed[k] \in Typeable
    BY <1>1 DEF Form
  <2>2. Ensured[k] \in {NoValue} \cup StoredKeys /\ Ensured[k] \notin Masks
    BY EnsuredKeeps DEF IsRow
  <2>3. QED
    BY <1>3, <2>1, <2>2, KeyIsKeptOrTyped
<1>6. \A f \in Shown : config'[f] \in Values \cup {NoValue}
  BY <1>1, <1>4, FallbackIsText, FallbackIsDefault DEF Form, ToStore
<1>7. IsRow(config')
  BY <1>2, <1>5, <1>6 DEF IsRow
<1>8. config' # NoConfig
  <2>1. config' = [f \in Fields |-> config'[f]]
    BY <1>2
  <2>2. QED
    BY <1>7, <2>1, RowIsThere
<1>9. \A f \in Shown : Effective(config', f) = Stands(f, forms[a].shown[f])
  BY <1>4, <1>8 DEF Effective, Stands
<1>10. QED
  BY <1>3, <1>5, <1>7, <1>8, <1>9

(* Saving what nobody touched or overtook keeps every effective value.      *)
LEMMA UntouchedSaveKeeps ==
  ASSUME ConfigInv, NEW a \in Admins, SaveForm(a), ~forms[a].touched, forms[a].fresh
  PROVE  \A f \in Fields : Effective(config', f) = Effective(config, f)
<1>1. forms[a] # NoForm
  BY DEF SaveForm
<1>2. /\ \A k \in Keys : forms[a].typed[k] = <<>>
      /\ \A f \in Shown : Stands(f, forms[a].shown[f]) = Effective(config, f)
  BY <1>1 DEF ConfigInv, UntouchedFormsAreTrue
<1>3. ConfigTypeOK /\ MaskIsNeverStored
  BY DEF ConfigInv
<1>4. \A k \in Keys : config'[k] = Ensured[k]
  BY <1>2, <1>3, SavedRow, EmptyMeansKeep DEF KeyToStore
<1>5. config' # NoConfig /\ Ensured # NoConfig
  BY <1>3, SavedRow, EnsuredKeeps
<1>6. \A k \in Keys : Effective(config', k) = Effective(Ensured, k)
  BY <1>4, <1>5 DEF Effective
<1>7. QED
  BY <1>2, <1>3, <1>6, SavedRow, EnsuredKeeps DEF Fields

-----------------------------------------------------------------------------
(* Reading, opening a form, typing and saving keep the row, the forms and    *)
(* what the forms show of the row.                                          *)
LEMMA ConfigStarts == forms = [a \in Admins |-> NoForm] /\ config = NoConfig => ConfigInv
BY DEF ConfigInv, ConfigTypeOK, MaskIsNeverStored, UntouchedFormsAreTrue

LEMMA ReadKeepsConfig == ConfigInv /\ ReadConfig => ConfigInv'
<1> SUFFICES ASSUME ConfigInv, ReadConfig PROVE ConfigInv'
  OBVIOUS
<1>1. config' = Ensured /\ forms' = forms
  BY DEF ReadConfig
<1>2. ConfigTypeOK /\ MaskIsNeverStored
  BY DEF ConfigInv
<1>3. ConfigTypeOK' /\ MaskIsNeverStored'
  BY <1>1, <1>2, EnsuredKeeps DEF ConfigTypeOK, MaskIsNeverStored
<1>4. \A f \in Shown : Effective(config', f) = Effective(config, f)
  BY <1>1, <1>2, EnsuredKeeps DEF Fields
<1>5. UntouchedFormsAreTrue'
  BY <1>1, <1>4 DEF ConfigInv, UntouchedFormsAreTrue
<1>6. QED
  BY <1>3, <1>5 DEF ConfigInv

LEMMA LoadKeepsConfig == \A a \in Admins : ConfigInv /\ LoadForm(a) => ConfigInv'
<1> SUFFICES ASSUME NEW a \in Admins, ConfigInv, LoadForm(a) PROVE ConfigInv'
  OBVIOUS
<1> DEFINE form == [shown |-> [f \in Shown |-> Effective(config, f)],
                    typed |-> [k \in Keys |-> <<>>], touched |-> FALSE, fresh |-> TRUE]
<1>1. forms' = [forms EXCEPT ![a] = form] /\ config' = config
  BY DEF LoadForm
<1>2. ConfigTypeOK /\ MaskIsNeverStored
  BY DEF ConfigInv
<1>3. \A f \in Shown : Effective(config, f) \in Values \cup {NoValue}
  BY <1>2, FallbackIsText DEF ConfigTypeOK, Effective, IsRow
<1>4. form \in Form
  BY <1>3 DEF Form, Typeable
<1>5. ConfigTypeOK' /\ MaskIsNeverStored'
  BY <1>1, <1>2, <1>4 DEF ConfigTypeOK, MaskIsNeverStored
<1>6. /\ \A k \in Keys : form.typed[k] = <<>>
      /\ \A f \in Shown : Stands(f, form.shown[f]) = Effective(config, f)
  BY ShownStandsForItself DEF Fields
<1> HIDE DEF form
<1>7. UntouchedFormsAreTrue'
  BY <1>1, <1>2, <1>6 DEF ConfigInv, UntouchedFormsAreTrue, ConfigTypeOK
<1>8. QED
  BY <1>5, <1>7 DEF ConfigInv

LEMMA TypeKeepsConfig == \A a \in Admins : ConfigInv /\ TypeIn(a) => ConfigInv'
<1> SUFFICES ASSUME NEW a \in Admins, ConfigInv, TypeIn(a) PROVE ConfigInv'
  OBVIOUS
<1>1. ConfigTypeOK /\ MaskIsNeverStored
  BY DEF ConfigInv
<1>2. config' = config /\ forms[a] \in Form
  BY <1>1 DEF TypeIn, ConfigTypeOK
<1>3. PICK form \in Form : forms' = [forms EXCEPT ![a] = form] /\ form.touched
  <2>1. CASE \E f \in Editable \cap Shown, v \in Texts \cup {NoValue} :
               forms' = [forms EXCEPT ![a].shown[f] = v, ![a].touched = TRUE]
    <3>1. PICK f \in Editable \cap Shown, v \in Texts \cup {NoValue} :
            forms' = [forms EXCEPT ![a].shown[f] = v, ![a].touched = TRUE]
      BY <2>1
    <3> DEFINE form == [forms[a] EXCEPT !.shown[f] = v, !.touched = TRUE]
    <3>2. forms' = [forms EXCEPT ![a] = form]
      BY <1>1, <3>1 DEF ConfigTypeOK
    <3>3. form \in Form /\ form.touched
      BY <1>2 DEF Form, Values
    <3>4. QED
      BY <3>2, <3>3
  <2>2. CASE \E k \in Editable \cap Keys, v \in Typeable :
               forms' = [forms EXCEPT ![a].typed[k] = v, ![a].touched = TRUE]
    <3>1. PICK k \in Editable \cap Keys, v \in Typeable :
            forms' = [forms EXCEPT ![a].typed[k] = v, ![a].touched = TRUE]
      BY <2>2
    <3> DEFINE form == [forms[a] EXCEPT !.typed[k] = v, !.touched = TRUE]
    <3>2. forms' = [forms EXCEPT ![a] = form]
      BY <1>1, <3>1 DEF ConfigTypeOK
    <3>3. form \in Form /\ form.touched
      BY <1>2 DEF Form, Values
    <3>4. QED
      BY <3>2, <3>3
  <2>3. QED
    BY <2>1, <2>2 DEF TypeIn
<1>4. ConfigTypeOK' /\ MaskIsNeverStored'
  BY <1>1, <1>2, <1>3 DEF ConfigTypeOK, MaskIsNeverStored
<1>5. UntouchedFormsAreTrue'
  BY <1>1, <1>2, <1>3 DEF ConfigInv, UntouchedFormsAreTrue, ConfigTypeOK
<1>6. QED
  BY <1>4, <1>5 DEF ConfigInv

LEMMA SaveKeepsConfig == \A a \in Admins : ConfigInv /\ SaveForm(a) => ConfigInv'
<1> SUFFICES ASSUME NEW a \in Admins, ConfigInv, SaveForm(a) PROVE ConfigInv'
  OBVIOUS
<1>1. ConfigTypeOK /\ MaskIsNeverStored
  BY DEF ConfigInv
<1> DEFINE form == [forms[a] EXCEPT !.typed = [k \in Keys |-> <<>>],
                                    !.touched = FALSE, !.fresh = TRUE]
<1>2. forms[a] \in Form
  BY <1>1 DEF SaveForm, ConfigTypeOK
<1>3. forms' = [b \in Admins |->
        IF b = a THEN form
        ELSE IF forms[b] = NoForm THEN NoForm ELSE [forms[b] EXCEPT !.fresh = FALSE]]
  BY DEF SaveForm
<1>4. /\ form \in Form /\ form.shown = forms[a].shown
      /\ \A k \in Keys : form.typed[k] = <<>>
  BY <1>2 DEF Form, Typeable
<1>5. \A b \in Admins : forms[b] # NoForm =>
        [forms[b] EXCEPT !.fresh = FALSE] \in Form /\ ~[forms[b] EXCEPT !.fresh = FALSE].fresh
        /\ [forms[b] EXCEPT !.fresh = FALSE].touched = forms[b].touched
        /\ [forms[b] EXCEPT !.fresh = FALSE].typed = forms[b].typed
  BY <1>1 DEF ConfigTypeOK, Form
<1> HIDE DEF form
<1>6. ConfigTypeOK' /\ MaskIsNeverStored'
  BY <1>1, <1>3, <1>4, <1>5, SavedRow DEF ConfigTypeOK, MaskIsNeverStored
<1>7. UntouchedFormsAreTrue'
  <2> SUFFICES ASSUME NEW b \in Admins, forms'[b] # NoForm, ~forms'[b].touched
               PROVE  /\ \A k \in Keys : forms'[b].typed[k] = <<>>
                      /\ forms'[b].fresh => \A f \in Shown :
                           Stands(f, forms'[b].shown[f]) = Effective(config', f)
    BY DEF UntouchedFormsAreTrue
  <2>1. CASE b = a
    BY <1>1, <1>3, <1>4, <2>1, SavedRow
  <2>2. CASE b # a
    BY <1>3, <1>5, <2>2 DEF ConfigInv, UntouchedFormsAreTrue
  <2>3. QED BY <2>1, <2>2
<1>8. QED
  BY <1>6, <1>7 DEF ConfigInv

LEMMA ConfigKeeps == ConfigInv /\ [ConfigNext]_configVars => ConfigInv'
<1> SUFFICES ASSUME ConfigInv, [ConfigNext]_configVars PROVE ConfigInv'
  OBVIOUS
<1>1. CASE UNCHANGED configVars
  BY <1>1 DEF configVars, ConfigInv, ConfigTypeOK, MaskIsNeverStored, UntouchedFormsAreTrue,
              Effective
<1>2. QED
  BY <1>1, ReadKeepsConfig, LoadKeepsConfig, TypeKeepsConfig, SaveKeepsConfig DEF ConfigNext

(* A reply run reads the configuration as any reader does; nothing else      *)
(* outside the administrators' area touches it.                             *)
LEMMA ConfigStep == [Next]_vars => [ConfigNext]_configVars
<1> SUFFICES ASSUME [Next]_vars PROVE [ConfigNext]_configVars
  OBVIOUS
<1>1. CASE GenerationArea
  BY <1>1 DEF GenerationArea, GenerationNext, PatchGroup, DeletePolicy, PostPolicy, Begin, Gate,
       Decided, ReadSettings, ReadPolicy, TryCanned, Retrieve, ComposePrompt, CallModel,
       Precheck, RunEnds, ConfigNext, ReadConfig, configVars
<1>2. QED
  BY <1>1 DEF Next, vars, DecisionArea, ConfigArea, KnowledgeArea, RegistryArea, configVars

LEMMA ConfigHolds == Spec => []ConfigInv
<1>1. Init => ConfigInv
  <2>1. ASSUME config \in ConfigRows, forms = [a \in Admins |-> NoForm] PROVE ConfigInv
    BY <2>1, GenerationAssumption
       DEF ConfigInv, ConfigTypeOK, MaskIsNeverStored, UntouchedFormsAreTrue
  <2>2. QED
    BY <2>1, ConfigStarts DEF Init
<1>2. ConfigInv /\ [Next]_vars => ConfigInv'
  BY ConfigStep, ConfigKeeps
<1>3. QED
  BY <1>1, <1>2, PTL DEF Spec

(* What the interface shows in place of a key never becomes the key.        *)
THEOREM MaskIsNeverStoredHolds == Spec => []MaskIsNeverStored
<1>1. ConfigInv => MaskIsNeverStored
  BY DEF ConfigInv
<1>2. QED
  BY <1>1, ConfigHolds, PTL

(* Reading the configuration, or saving a form nobody typed into and nobody *)
(* overtook, changes no effective value.                                    *)
THEOREM UntouchedFormKeepsConfigHolds == Spec => UntouchedFormKeepsConfig
<1> DEFINE Keeping == /\ ReadConfig => KeepsEffective
                      /\ \A a \in Admins : (forms[a] # NoForm /\ ~forms[a].touched
                           /\ forms[a].fresh /\ SaveForm(a)) => KeepsEffective
<1>1. ConfigInv => [Keeping]_configVars
  <2> SUFFICES ASSUME ConfigInv PROVE Keeping
    OBVIOUS
  <2>1. ReadConfig => KeepsEffective
    BY EnsuredKeeps DEF ConfigInv, ReadConfig, KeepsEffective
  <2>2. \A a \in Admins : (forms[a] # NoForm /\ ~forms[a].touched /\ forms[a].fresh
                           /\ SaveForm(a)) => KeepsEffective
    BY UntouchedSaveKeeps DEF KeepsEffective
  <2>3. QED BY <2>1, <2>2
<1>2. QED
  BY <1>1, ConfigHolds, PTL DEF UntouchedFormKeepsConfig

-----------------------------------------------------------------------------
(* The lesser of two numbers.                                               *)
LEMMA MinOfTwo ==
  ASSUME NEW a \in Nat, NEW b \in Nat
  PROVE  Min({a, b}) = IF a <= b THEN a ELSE b
BY MinIsLeast, {a, b} \in SUBSET Nat

(* The best of a pool that holds every snippet scoring n or more: as many of *)
(* those as there is room for.                                              *)
LEMMA TopHoldsTheBest ==
  ASSUME NEW ks \in SUBSET Snippets, NEW pool \in SUBSET ks,
         NEW scores \in [ks -> ScoresSeen],
         NEW pick \in TopOf(pool, scores), NEW n \in ScoresSeen,
         {k \in ks : scores[k] >= n} \subseteq pool
  PROVE  Cardinality({k \in pick : scores[k] >= n})
           = Min({TopK, Cardinality({k \in ks : scores[k] >= n})})
<1> DEFINE S == {k \in ks : scores[k] >= n}
           P == {k \in pick : scores[k] >= n}
<1> USE GenerationAssumption
<1>1. /\ pick \subseteq pool /\ Cardinality(pick) = Min({TopK, Cardinality(pool)})
      /\ \A a \in pick, b \in pool \ pick : scores[a] >= scores[b]
  BY DEF TopOf
<1>2. IsFiniteSet(pool) /\ IsFiniteSet(S) /\ IsFiniteSet(pick)
  BY <1>1, FS_Subset
<1>3. Cardinality(pool) \in Nat /\ Cardinality(S) \in Nat /\ Cardinality(pick) \in Nat
  BY <1>2, FS_CardinalityType
<1>4. Cardinality(pick) = IF TopK <= Cardinality(pool) THEN TopK ELSE Cardinality(pool)
  BY <1>1, <1>3, MinOfTwo
<1>5. Cardinality(P) = IF TopK <= Cardinality(S) THEN TopK ELSE Cardinality(S)
  <2>1. CASE S \subseteq pick
    <3>1. P = S
      BY <1>1, <2>1
    <3>2. Cardinality(S) <= Cardinality(pick)
      BY <1>2, <2>1, FS_Subset
    <3>3. Cardinality(P) = Cardinality(S)
      BY <3>1
    <3> HIDE DEF S, P
    <3>4. QED
      BY <1>3, <1>4, <3>2, <3>3
  <2>2. CASE ~(S \subseteq pick)
    <3>1. PICK b \in S : b \notin pick
      BY <2>2
    <3>2. pick \subseteq S
      <4> SUFFICES ASSUME NEW a \in pick PROVE a \in S
        OBVIOUS
      <4>1. scores[a] >= scores[b] /\ scores[b] >= n /\ a \in ks
        BY <1>1, <3>1
      <4>2. scores[a] \in Int /\ scores[b] \in Int /\ n \in Int
        BY <3>1, <4>1
      <4>3. QED
        BY <4>1, <4>2
    <3>3. P = pick
      BY <3>2
    <3>4. Cardinality(pick) <= Cardinality(S)
      BY <1>2, <3>2, FS_Subset
    <3>5. Cardinality(pick) # Cardinality(pool)
      BY <1>1, <1>2, <3>1, FS_Subset
    <3>6. QED
      BY <1>3, <1>4, <3>3, <3>4, <3>5
  <2>3. QED BY <2>1, <2>2
<1>6. QED
  BY <1>3, <1>5, MinOfTwo

(* Of nothing, nothing is the best.                                         *)
LEMMA NothingIsTheBest == Cardinality({}) = Min({TopK, Cardinality({})})
BY FS_EmptySet, MinOfTwo, GenerationAssumption

(* Whatever the scores, the chunks that go into the prompt are the best.     *)
LEMMA PicksHoldTheBest ==
  ASSUME NEW ks \in SUBSET Snippets, NEW scores \in [ks -> ScoresSeen],
         NEW pick \in Picks(ks, scores), NEW n \in ScoresSeen, n > 1
  PROVE  Cardinality({k \in {j \in pick : scores[j] > 1} : scores[k] >= n})
           = Min({TopK, Cardinality({k \in ks : scores[k] >= n})})
<1> DEFINE positive == {k \in ks : scores[k] > 0}
           pool == IF Cardinality(positive) >= TopK THEN positive ELSE ks
<1> USE GenerationAssumption
<1>1. pick \in TopOf(pool, scores) /\ pool \in SUBSET ks
  BY DEF Picks
<1>2. \A k \in ks : scores[k] \in Int
  OBVIOUS
<1>3. {k \in ks : scores[k] >= n} \subseteq positive
  BY <1>2
<1>4. {k \in ks : scores[k] >= n} \subseteq pool
  BY <1>3
<1> HIDE DEF pool
<1>5. pick \subseteq ks
  BY <1>1 DEF TopOf
<1>6. {k \in {j \in pick : scores[j] > 1} : scores[k] >= n} = {k \in pick : scores[k] >= n}
  BY <1>2, <1>5
<1>7. Cardinality({k \in pick : scores[k] >= n})
        = Min({TopK, Cardinality({k \in ks : scores[k] >= n})})
  BY <1>1, <1>4, TopHoldsTheBest
<1>8. QED
  BY <1>6, <1>7

-----------------------------------------------------------------------------
(* What is saved is a policy again, and so is what stands in for none.       *)
LEMMA SavedIsPolicy ==
  ASSUME NEW old \in Policy \cup {NoPolicy}, NEW body \in PolicyBodies
  PROVE  Saved(old, body) \in Policy
<1>1. PolicyFields = {"autoReply", "takeover", "enabled", "cannedFirst", "knowledgeFirst",
                      "mode", "provider"}
  BY DEF PolicyFields, PolicyDefaults
<1>2. Saved(NoPolicy, body) \in Policy
  BY GenerationAssumption
<1>3. CASE old = NoPolicy
  BY <1>2, <1>3
<1>4. CASE old # NoPolicy
  <2>1. \A f \in PolicyFields : Saved(old, body)[f] = Saved(NoPolicy, body)[f]
                              \/ Saved(old, body)[f] = old[f]
    BY <1>4 DEF Saved
  <2>2. old \in Policy
    BY <1>4
  <2>3. Saved(old, body) = [f \in PolicyFields |-> Saved(old, body)[f]]
    BY DEF Saved
  <2>4. QED
    BY <1>1, <1>2, <2>1, <2>2, <2>3 DEF Policy
<1>5. QED
  BY <1>3, <1>4

LEMMA EffectivePolicyIsPolicy ==
  ASSUME GenerationTypeOK
  PROVE  EffectivePolicy(run.group, policy) \in Policy
BY DEF GenerationTypeOK, EffectivePolicy, PolicyDefaults, Policy, Modes

-----------------------------------------------------------------------------
(* A run that has not answered has no source, and one that has not looked    *)
(* for chunks has none.                                                     *)
Reading == {"idle", "gate", "decide", "settings", "policy", "canned", "retrieve"}

StepsInOrder ==
    /\ run.at \in Reading => run.prompt = {} /\ run.offered = NoScores
    /\ run.at \in Reading \cup {"prompt", "model"} => run.source = NoSource

(* The group has had a reason to stay silent since before the run.          *)
Muted == run.silenced \cap {"group", "policy", "bare_switch"} # {}

(* What the run has known to silence the group silences it still; the switch *)
(* that has been off ever since was off in the row the run read.            *)
SilenceIsKept ==
    /\ run.silenced \subseteq Silences(group, policy)
    /\ "bare_switch" \in run.silenced => ~run.group.autoReply
    /\ "group" \in run.silenced => run.at \in {"idle", "quiet"}
    /\ SilencedGroupStaysSilent

(* Outside its area there is no run.                                        *)
RunInItsArea == area # "generation" => run = IdleRun

GenerationInv ==
    /\ GenerationTypeOK /\ RunInItsArea /\ StepsInOrder /\ SilenceIsKept
    /\ PromptHoldsTheBest

(* A run that has not begun promises everything.                            *)
LEMMA IdleRunIsFine ==
  ASSUME run = IdleRun
  PROVE  StepsInOrder /\ SilenceIsKept /\ PromptHoldsTheBest
BY DEF IdleRun, StepsInOrder, SilenceIsKept, SilencedGroupStaysSilent,
       PromptHoldsTheBest, NoSource, Reading

LEMMA GenerationStarts == GenerationInit => GenerationInv
<1> SUFFICES ASSUME GenerationInit PROVE GenerationInv
  OBVIOUS
<1>1. GenerationTypeOK
  BY DEF GenerationInit, GenerationTypeOK, IdleRun, NewGroup, Ats
<1>2. QED
  BY <1>1, IdleRunIsFine DEF GenerationInit, GenerationInv, RunInItsArea

(* The fields of a run.                                                     *)
LEMMA RunTypes ==
  ASSUME GenerationTypeOK
  PROVE  /\ run.at \in Ats /\ run.silenced \in SUBSET Reasons
         /\ run.group \in [enabled : BOOLEAN, autoReply : BOOLEAN]
         /\ run.seen \in LaterSettings \cup {NoPolicy} /\ run.prompt \in SUBSET Snippets
         /\ run.offered \in {NoScores} \cup UNION {[ks -> ScoresSeen] : ks \in SUBSET Snippets}
         /\ run.source \in Sources \cup {NoSource}
BY DEF GenerationTypeOK

-----------------------------------------------------------------------------
(* An administrator's request changes the group and its policy; of the run   *)
(* only what is known to silence it, and that for what it is now.           *)
AdminStep ==
    PatchGroup \/ DeletePolicy \/ \E body \in PolicyBodies : PostPolicy(body)

LEMMA AdminKeepsGeneration ==
  ASSUME GenerationInv, AdminStep, area = "generation", UNCHANGED area
  PROVE  GenerationInv'
<1> USE GenerationAssumption
<1>1. GenerationTypeOK
  BY DEF GenerationInv
<1>2. group' \in [enabled : BOOLEAN, autoReply : BOOLEAN]
      /\ policy' \in Policy \cup {NoPolicy} /\ config' = config
      /\ run' = [run EXCEPT !.silenced = run.silenced \cap Silences(group', policy')]
  <2>1. CASE PatchGroup
    BY <1>1, <2>1 DEF PatchGroup, StillSilenced, GenerationTypeOK
  <2>2. CASE DeletePolicy
    BY <1>1, <2>2 DEF DeletePolicy, StillSilenced, GenerationTypeOK
  <2>3. ASSUME NEW body \in PolicyBodies, PostPolicy(body)
        PROVE  /\ group' = group /\ policy' \in Policy /\ config' = config
               /\ run' = [run EXCEPT !.silenced = run.silenced \cap Silences(group', policy')]
    BY <1>1, <2>3, SavedIsPolicy DEF PostPolicy, StillSilenced, GenerationTypeOK
  <2>4. QED
    BY <1>1, <2>1, <2>2, <2>3 DEF AdminStep, GenerationTypeOK
<1>3. /\ run'.silenced = run.silenced \cap Silences(group', policy')
      /\ run'.at = run.at /\ run'.seen = run.seen /\ run'.prompt = run.prompt
      /\ run'.offered = run.offered /\ run'.source = run.source /\ run'.group = run.group
  BY <1>1, <1>2 DEF GenerationTypeOK
<1>4. GenerationTypeOK'
  BY <1>1, <1>2, RunTypes DEF GenerationTypeOK
<1>5. RunInItsArea'
  BY DEF RunInItsArea
<1>6. StepsInOrder'
  BY <1>3 DEF GenerationInv, StepsInOrder
<1>7. SilenceIsKept'
  BY <1>3 DEF GenerationInv, SilenceIsKept, SilencedGroupStaysSilent
<1>8. PromptHoldsTheBest'
  BY <1>3 DEF GenerationInv, PromptHoldsTheBest
<1>9. QED
  BY <1>4, <1>5, <1>6, <1>7, <1>8 DEF GenerationInv

-----------------------------------------------------------------------------
(* A step of the run that only moves it on.                                 *)
LEMMA MovingOnKeepsGeneration ==
  ASSUME GenerationInv, NEW from \in Ats, NEW to \in Ats, RunAt(from), GoTo(to),
         UNCHANGED <<group, policy, area>>, area = "generation",
         to \in Reading => from \in Reading,
         to \in {"prompt", "model"} => from \in Reading,
         to = "prompt" => from = "retrieve",
         "group" \in run.silenced => to = "quiet",
         Muted => to \in {"gate", "quiet"},
         "switch" \in run.silenced => to # "handed"
  PROVE  GenerationInv'
<1>1. GenerationTypeOK
  BY DEF GenerationInv
<1>2. /\ run'.at = to /\ run.at = from /\ run'.silenced = run.silenced /\ run'.seen = run.seen
      /\ run'.prompt = run.prompt /\ run'.offered = run.offered
      /\ run'.source = run.source /\ run'.group = run.group
  BY <1>1 DEF GenerationTypeOK, GoTo, RunAt
<1>3. GenerationTypeOK'
  BY <1>1, RunTypes DEF GenerationTypeOK, GoTo
<1>4. RunInItsArea'
  BY DEF RunInItsArea
<1>5. StepsInOrder'
  BY <1>2 DEF GenerationInv, StepsInOrder
<1>6. SilenceIsKept'
  BY <1>2 DEF GenerationInv, SilenceIsKept, SilencedGroupStaysSilent, Muted
<1>7. PromptHoldsTheBest'
  <2> SUFFICES ASSUME to = "prompt" PROVE PromptHoldsTheBest'
    BY <1>2 DEF PromptHoldsTheBest
  <2>1. run'.prompt = {} /\ DOMAIN run'.offered = {}
    BY <1>2 DEF GenerationInv, StepsInOrder, Reading, NoScores
  <2>2. QED
    BY <2>1, NothingIsTheBest DEF PromptHoldsTheBest
<1>8. QED
  BY <1>3, <1>4, <1>5, <1>6, <1>7 DEF GenerationInv

(* Begin, and the end of a run.                                             *)
LEMMA BeginKeepsGeneration ==
  ASSUME GenerationInv, Begin, area = "generation", UNCHANGED area
  PROVE  GenerationInv'
<1> DEFINE at == IF group.enabled THEN "gate" ELSE "quiet"
<1>1. GenerationTypeOK
  BY DEF GenerationInv
<1>2. UNCHANGED <<group, policy, config>>
      /\ run' = [IdleRun EXCEPT !.at = at, !.group = group, !.silenced = Silences(group, policy)]
  BY DEF Begin
<1>3. /\ run'.at = at /\ run'.group = group /\ run'.silenced = Silences(group, policy)
      /\ run'.seen = NoPolicy /\ run'.prompt = {} /\ run'.offered = NoScores
      /\ run'.source = NoSource
  BY <1>2 DEF IdleRun
<1>4. Silences(group, policy) \in SUBSET Reasons
  BY DEF Silences
<1>5. /\ "group" \in Silences(group, policy) => at = "quiet"
      /\ "bare_switch" \in Silences(group, policy) => ~group.autoReply
  BY DEF Silences
<1>6. GenerationTypeOK'
  BY <1>1, <1>2, <1>4 DEF GenerationTypeOK, IdleRun, Ats
<1>7. StepsInOrder' /\ SilenceIsKept'
  BY <1>2, <1>3, <1>4, <1>5 DEF StepsInOrder, SilenceIsKept, SilencedGroupStaysSilent
<1>8. PromptHoldsTheBest' /\ RunInItsArea'
  BY <1>3 DEF PromptHoldsTheBest, RunInItsArea
<1>9. QED
  BY <1>6, <1>7, <1>8 DEF GenerationInv

LEMMA RunEndsKeepsGeneration ==
  ASSUME GenerationInv, RunEnds, area = "generation", UNCHANGED area
  PROVE  GenerationInv'
<1>1. run' = IdleRun /\ UNCHANGED <<group, policy>>
  BY DEF RunEnds
<1>2. StepsInOrder' /\ SilenceIsKept' /\ PromptHoldsTheBest'
  BY <1>1 DEF IdleRun, StepsInOrder, SilenceIsKept, SilencedGroupStaysSilent,
              PromptHoldsTheBest, NoSource, Reading
<1>3. GenerationTypeOK'
  BY <1>1 DEF GenerationInv, GenerationTypeOK, IdleRun, NewGroup, Ats
<1>4. QED
  BY <1>2, <1>3 DEF GenerationInv, RunInItsArea

LEMMA SwitchSilences == "switch" \in Silences(group, policy) => ~PrecheckPasses(group)
BY DEF Silences, PrecheckPasses

(* What silences a run beyond the gate.                                     *)
LEMMA SilencedLater ==
  ASSUME GenerationInv
  PROVE  /\ run.silenced \subseteq Silences(group, policy)
         /\ "group" \in run.silenced => run.at \in {"idle", "quiet"}
         /\ Muted => run.at \in {"idle", "gate", "quiet"}
         /\ "switch" \in run.silenced => run.at # "handed"
BY DEF GenerationInv, SilenceIsKept, SilencedGroupStaysSilent, Muted

(* A muted run that comes to the gate does not pass it: the policy row that  *)
(* silences the group is there to be read, or none is and the switch counts *)
(* that was off when the group was read.                                    *)
LEMMA GateHoldsTheMuted ==
  ASSUME GenerationInv, run.at = "gate", Muted
  PROVE  ~GatePasses(EffectivePolicy(run.group, policy))
<1>1. GenerationTypeOK /\ "group" \notin run.silenced
  BY SilencedLater DEF GenerationInv
<1>2. CASE "policy" \in run.silenced
  <2>1. policy # NoPolicy /\ (~policy.autoReply \/ policy.takeover \/ ~policy.enabled)
    BY <1>2, SilencedLater DEF Silences
  <2>2. QED
    BY <2>1 DEF EffectivePolicy, GatePasses
<1>3. CASE "bare_switch" \in run.silenced
  <2>1. policy = NoPolicy /\ ~run.group.autoReply
    BY <1>3, SilencedLater DEF Silences, GenerationInv, SilenceIsKept
  <2>2. ~EffectivePolicy(run.group, policy).autoReply
    BY <2>1 DEF EffectivePolicy, PolicyDefaults
  <2>3. QED
    BY <2>2 DEF GatePasses
<1>4. QED
  BY <1>1, <1>2, <1>3 DEF Muted

LEMMA GateKeepsGeneration ==
  ASSUME GenerationInv, Gate, area = "generation", UNCHANGED area
  PROVE  GenerationInv'
<1> DEFINE to == IF GatePasses(EffectivePolicy(run.group, policy)) THEN "decide" ELSE "quiet"
<1>1. RunAt("gate") /\ GoTo(to) /\ UNCHANGED <<group, policy>>
  BY DEF Gate
<1>2. "group" \notin run.silenced /\ (Muted => to = "quiet")
  BY <1>1, SilencedLater, GateHoldsTheMuted DEF RunAt
<1>3. to \in {"decide", "quiet"}
  OBVIOUS
<1> HIDE DEF to
<1>4. QED
  BY <1>1, <1>2, <1>3, MovingOnKeepsGeneration DEF Ats, Reading

LEMMA DecidedKeepsGeneration ==
  ASSUME GenerationInv, Decided, area = "generation", UNCHANGED area
  PROVE  GenerationInv'
<1>1. PICK to \in {"settings", "quiet"} : GoTo(to)
  BY DEF Decided
<1>2. RunAt("decide") /\ UNCHANGED <<group, policy>>
  BY DEF Decided
<1>3. "group" \notin run.silenced /\ ~Muted
  BY <1>2, SilencedLater DEF RunAt
<1>4. QED
  BY <1>1, <1>2, <1>3, MovingOnKeepsGeneration DEF Ats, Reading

LEMMA SettingsKeepGeneration ==
  ASSUME GenerationInv, ReadSettings, area = "generation", UNCHANGED area
  PROVE  GenerationInv'
<1>1. RunAt("settings") /\ GoTo("policy") /\ UNCHANGED <<group, policy>>
  BY DEF ReadSettings
<1>2. "group" \notin run.silenced /\ ~Muted
  BY <1>1, SilencedLater DEF RunAt
<1>3. QED
  BY <1>1, <1>2, MovingOnKeepsGeneration DEF Ats, Reading

LEMMA PrecheckKeepsGeneration ==
  ASSUME GenerationInv, Precheck, area = "generation", UNCHANGED area
  PROVE  GenerationInv'
<1>1. PICK to \in {"handed", "refused"} : GoTo(to) /\ (to = "handed" => PrecheckPasses(group))
  BY DEF Precheck
<1>2. RunAt("precheck") /\ UNCHANGED <<group, policy>>
  BY DEF Precheck
<1>3. /\ "group" \notin run.silenced /\ ~Muted
      /\ "switch" \in run.silenced => to # "handed"
  BY <1>1, <1>2, SilencedLater, SwitchSilences DEF RunAt
<1>4. QED
  BY <1>1, <1>2, <1>3, MovingOnKeepsGeneration DEF Ats, Reading

(* Between the gate and the precheck a run is not one that should be silent. *)
LEMMA SilenceIsKeptAfterTheGate ==
  ASSUME GenerationInv, run.at \in Ats \ {"idle", "gate", "quiet"}, run'.at # "handed",
         run'.silenced = run.silenced, run'.group = run.group, UNCHANGED <<group, policy>>
  PROVE  SilenceIsKept'
<1>1. ~Muted /\ run.silenced \subseteq Silences(group, policy)
  BY SilencedLater
<1>2. QED
  BY <1>1 DEF SilenceIsKept, SilencedGroupStaysSilent, Muted

LEMMA ReadPolicyKeepsGeneration ==
  ASSUME GenerationInv, ReadPolicy, area = "generation", UNCHANGED area
  PROVE  GenerationInv'
<1> DEFINE e == EffectivePolicy(run.group, policy)
           seen == [f \in Later |-> e[f]]
<1>1. GenerationTypeOK /\ run.at = "policy" /\ UNCHANGED <<group, policy, config>>
  BY DEF GenerationInv, ReadPolicy, RunAt
<1>2. PICK at \in {"canned", "retrieve"} : run' = [run EXCEPT !.seen = seen, !.at = at]
  BY DEF ReadPolicy
<1>3. seen \in LaterSettings
  <2>1. e \in Policy
    BY <1>1, EffectivePolicyIsPolicy
  <2> HIDE DEF e
  <2>2. Later = {"knowledgeFirst", "mode", "provider"}
    BY DEF Later
  <2>3. QED
    BY <2>1, <2>2 DEF Policy, LaterSettings
<1> HIDE DEF seen
<1>4. /\ run'.at = at /\ run'.silenced = run.silenced /\ run'.group = run.group
      /\ run'.prompt = run.prompt /\ run'.offered = run.offered
      /\ run'.source = run.source
  BY <1>1, <1>2 DEF GenerationTypeOK
<1>5. run.prompt = {} /\ run.offered = NoScores /\ run.source = NoSource
  BY <1>1 DEF GenerationInv, StepsInOrder, Reading
<1>6. GenerationTypeOK'
  BY <1>1, <1>2, <1>3, RunTypes DEF GenerationTypeOK, Ats
<1>7. StepsInOrder'
  BY <1>4, <1>5 DEF StepsInOrder
<1>8. SilenceIsKept'
  BY <1>1, <1>4, SilenceIsKeptAfterTheGate DEF Ats
<1>9. PromptHoldsTheBest' /\ RunInItsArea'
  BY <1>4, <1>5 DEF PromptHoldsTheBest, RunInItsArea, NoSource
<1>10. QED
  BY <1>6, <1>7, <1>8, <1>9 DEF GenerationInv

LEMMA CannedKeepsGeneration ==
  ASSUME GenerationInv, TryCanned, area = "generation", UNCHANGED area
  PROVE  GenerationInv'
<1>1. GenerationTypeOK /\ RunAt("canned") /\ UNCHANGED <<group, policy, config>>
  BY DEF GenerationInv, TryCanned
<1>2. "group" \notin run.silenced /\ ~Muted
  BY <1>1, SilencedLater DEF RunAt
<1>3. CASE GoTo("retrieve")
  BY <1>1, <1>2, <1>3, MovingOnKeepsGeneration DEF Ats, Reading
<1>4. CASE run' = [run EXCEPT !.at = "precheck", !.source = "canned"]
  <2>1. run.at = "canned"
    BY <1>1 DEF GenerationInv, StepsInOrder, Reading, RunAt
  <2>2. /\ run'.at = "precheck" /\ run'.silenced = run.silenced /\ run'.group = run.group
        /\ run'.source = "canned"
    BY <1>1, <1>4, <2>1 DEF GenerationTypeOK
  <2>3. GenerationTypeOK'
    BY <1>1, <1>4, RunTypes DEF GenerationTypeOK, Ats, Sources
  <2>4. SilenceIsKept'
    BY <1>1, <2>1, <2>2, SilenceIsKeptAfterTheGate DEF Ats
  <2>5. StepsInOrder' /\ PromptHoldsTheBest' /\ RunInItsArea'
    BY <2>2 DEF StepsInOrder, Reading, PromptHoldsTheBest, RunInItsArea,
                NoSource
  <2>6. QED
    BY <2>3, <2>4, <2>5 DEF GenerationInv
<1>5. QED
  BY <1>3, <1>4 DEF TryCanned

(* Retrieval leaves the best of what scored, by whichever mode.             *)
LEMMA RetrieveKeepsGeneration ==
  ASSUME GenerationInv, Retrieve, area = "generation", UNCHANGED area
  PROVE  GenerationInv'
<1>1. GenerationTypeOK /\ RunAt("retrieve") /\ UNCHANGED <<group, policy, config>>
  BY DEF GenerationInv, Retrieve
<1>2. "group" \notin run.silenced /\ ~Muted
  BY <1>1, SilencedLater DEF RunAt
<1>3. CASE GoTo("prompt")
  BY <1>1, <1>2, <1>3, MovingOnKeepsGeneration DEF Ats, Reading
<1>4. ASSUME NEW ks \in Fetched, NEW scores \in Scorings(ks, run.seen.mode),
             NEW pick \in Picks(ks, scores),
             run' = [run EXCEPT !.at = "prompt", !.offered = scores,
                                !.prompt = {k \in pick : scores[k] > 1}]
      PROVE  GenerationInv'
  <2> DEFINE prompt == {k \in pick : scores[k] > 1}
  <2>1. ks \in SUBSET Snippets /\ scores \in [ks -> ScoresSeen]
    BY DEF Scorings, Fetched
  <2>2. \A n \in ScoresSeen : n > 1 =>
          Cardinality({k \in prompt : scores[k] >= n})
            = Min({TopK, Cardinality({k \in ks : scores[k] >= n})})
    BY <2>1, PicksHoldTheBest
  <2>3. pick \in SUBSET ks
    BY DEF Picks, TopOf
  <2>4. prompt \in SUBSET Snippets
    BY <2>1, <2>3
  <2>5. run' = [run EXCEPT !.at = "prompt", !.offered = scores, !.prompt = prompt]
    BY <1>4
  <2> HIDE DEF prompt
  <2>6. run.source = NoSource /\ run.at = "retrieve"
    BY <1>1 DEF GenerationInv, StepsInOrder, Reading, RunAt
  <2>7. /\ run'.at = "prompt" /\ run'.silenced = run.silenced /\ run'.group = run.group
        /\ run'.offered = scores
        /\ run'.prompt = prompt /\ run'.source = NoSource
    BY <1>1, <2>5, <2>6 DEF GenerationTypeOK
  <2>8. GenerationTypeOK'
    <3>1. scores \in UNION {[s -> ScoresSeen] : s \in SUBSET Snippets}
      BY <2>1
    <3>2. QED
      BY <1>1, <2>4, <2>5, <3>1, RunTypes DEF GenerationTypeOK, Ats
  <2>9. SilenceIsKept'
    BY <1>1, <2>6, <2>7, SilenceIsKeptAfterTheGate DEF Ats
  <2>10. StepsInOrder' /\ RunInItsArea'
    BY <2>7 DEF StepsInOrder, Reading, RunInItsArea, NoSource
  <2>11. PromptHoldsTheBest'
    <3>1. DOMAIN run'.offered = ks
      BY <2>1, <2>7
    <3>2. QED
      BY <2>2, <2>7, <3>1 DEF PromptHoldsTheBest
  <2>12. QED
    BY <2>8, <2>9, <2>10, <2>11 DEF GenerationInv
<1>5. QED
  BY <1>3, <1>4 DEF Retrieve

LEMMA ComposeKeepsGeneration ==
  ASSUME GenerationInv, ComposePrompt, area = "generation", UNCHANGED area
  PROVE  GenerationInv'
<1>1. GenerationTypeOK /\ run.at = "prompt" /\ UNCHANGED <<group, policy, config>>
  BY DEF GenerationInv, ComposePrompt, RunAt
<1>2. PICK at \in {"precheck", "model"}, source \in {NoSource, "no_kb_no_fallback"} :
        /\ run' = [run EXCEPT !.at = at, !.source = source, !.offered = NoScores]
        /\ at = "model" <=> source = NoSource
  <2>1. run.source = NoSource /\ run = [run EXCEPT !.source = run.source]
    BY <1>1 DEF GenerationInv, StepsInOrder, GenerationTypeOK
  <2>2. CASE run' = [run EXCEPT !.at = "precheck", !.source = "no_kb_no_fallback",
                                !.offered = NoScores]
    BY <2>2 DEF NoSource
  <2>3. CASE run' = [run EXCEPT !.at = "model", !.offered = NoScores]
    BY <1>1, <2>1, <2>3 DEF GenerationTypeOK
  <2>4. QED
    BY <2>2, <2>3 DEF ComposePrompt
<1>3. /\ run'.at = at /\ run'.silenced = run.silenced /\ run'.group = run.group
      /\ run'.source = source
  BY <1>1, <1>2 DEF GenerationTypeOK
<1>4. GenerationTypeOK'
  BY <1>1, <1>2, RunTypes DEF GenerationTypeOK, Ats, Sources
<1>5. SilenceIsKept'
  BY <1>1, <1>3, SilenceIsKeptAfterTheGate DEF Ats
<1>6. StepsInOrder' /\ PromptHoldsTheBest' /\ RunInItsArea'
  BY <1>2, <1>3 DEF StepsInOrder, Reading, PromptHoldsTheBest, RunInItsArea, NoSource
<1>7. QED
  BY <1>4, <1>5, <1>6 DEF GenerationInv

(* The model answers with a text, and the source is named, or fails.         *)
LEMMA CallKeepsGeneration ==
  ASSUME GenerationInv, CallModel, area = "generation", UNCHANGED area
  PROVE  GenerationInv'
<1>1. GenerationTypeOK /\ run.at = "model" /\ UNCHANGED <<group, policy, config>>
  BY DEF GenerationInv, CallModel, RunAt
<1>2. "group" \notin run.silenced /\ ~Muted
  BY <1>1, SilencedLater
<1>3. CASE GoTo("failed")
  BY <1>1, <1>2, <1>3, MovingOnKeepsGeneration DEF Ats, Reading, RunAt
<1>4. ASSUME NEW source \in Sources, run' = [run EXCEPT !.at = "precheck", !.source = source]
      PROVE  GenerationInv'
  <2>1. /\ run'.at = "precheck" /\ run'.silenced = run.silenced /\ run'.group = run.group
    BY <1>1, <1>4 DEF GenerationTypeOK
  <2>2. GenerationTypeOK'
    BY <1>1, <1>4, RunTypes DEF GenerationTypeOK, Ats
  <2>3. SilenceIsKept'
    BY <1>1, <2>1, SilenceIsKeptAfterTheGate DEF Ats
  <2>4. StepsInOrder' /\ PromptHoldsTheBest' /\ RunInItsArea'
    BY <2>1 DEF StepsInOrder, Reading, PromptHoldsTheBest, RunInItsArea
  <2>5. QED
    BY <2>2, <2>3, <2>4 DEF GenerationInv
<1>5. QED
  <2>1. {"kb_llm_ark_bot", "kb_llm", "llm_only_ark_bot", "llm_only"} \subseteq Sources
    BY DEF Sources
  <2>2. QED
    BY <1>3, <1>4, <2>1 DEF CallModel

-----------------------------------------------------------------------------
(* The invariant is inductive.                                              *)
LEMMA GenerationKeeps == GenerationInv /\ [Next]_vars => GenerationInv'
<1> SUFFICES ASSUME GenerationInv, [Next]_vars PROVE GenerationInv'
  OBVIOUS
<1>1. CASE GenerationArea
  <2>1. GenerationNext /\ area = "generation" /\ UNCHANGED area
    BY <1>1 DEF GenerationArea
  <2>2. QED
    BY <2>1, AdminKeepsGeneration, BeginKeepsGeneration, GateKeepsGeneration,
       DecidedKeepsGeneration, SettingsKeepGeneration, ReadPolicyKeepsGeneration,
       CannedKeepsGeneration, RetrieveKeepsGeneration, ComposeKeepsGeneration,
       CallKeepsGeneration, PrecheckKeepsGeneration, RunEndsKeepsGeneration
       DEF GenerationNext, AdminStep
<1>2. CASE area # "generation" /\ UNCHANGED <<area, generationVars>>
  <2>1. run' = IdleRun /\ UNCHANGED <<area, generationVars>>
    BY <1>2 DEF GenerationInv, RunInItsArea, generationVars
  <2>2. StepsInOrder' /\ SilenceIsKept' /\ PromptHoldsTheBest'
    BY <2>1 DEF IdleRun, StepsInOrder, SilenceIsKept, SilencedGroupStaysSilent, PromptHoldsTheBest, NoSource, Reading
  <2>3. QED
    BY <2>1, <2>2
       DEF GenerationInv, GenerationTypeOK, RunInItsArea, generationVars
<1>3. CASE UNCHANGED vars
  BY <1>3
     DEF vars, generationVars, configVars, GenerationInv, GenerationTypeOK, RunInItsArea,
         StepsInOrder, SilenceIsKept, SilencedGroupStaysSilent,
         PromptHoldsTheBest, Effective
<1>4. QED
  BY <1>1, <1>2, <1>3 DEF Next, DecisionArea, ConfigArea, KnowledgeArea, RegistryArea

LEMMA GenerationHolds == Spec => []GenerationInv
<1>1. Init => GenerationInv
  BY GenerationStarts DEF Init
<1>2. GenerationInv /\ [Next]_vars => GenerationInv'
  BY GenerationKeeps
<1>3. QED
  BY <1>1, <1>2, PTL DEF Spec

(* Nothing is generated for a group that was disabled, silenced by its policy *)
(* row, or off without one from before the run to this moment, nor sent     *)
(* while its own switch stayed off.                                         *)
THEOREM SilencedGroupStaysSilentHolds == Spec => []SilencedGroupStaysSilent
<1>1. GenerationInv => SilencedGroupStaysSilent
  BY DEF GenerationInv, SilenceIsKept
<1>2. QED
  BY <1>1, GenerationHolds, PTL

(* The prompt holds exactly the TopK most similar of the chunks fetched and  *)
(* worth showing.                                                           *)
THEOREM PromptHoldsTheBestHolds == Spec => []PromptHoldsTheBest
<1>1. GenerationInv => PromptHoldsTheBest
  BY DEF GenerationInv
<1>2. QED
  BY <1>1, GenerationHolds, PTL

(* Saving a policy changes no setting the body leaves out, but for the own   *)
(* switch of a group that had no policy.                                    *)
THEOREM PolicySaveIsLocalHolds == Spec => PolicySaveIsLocal
<1> DEFINE Local == \A body \in PolicyBodies : PostPolicy(body) =>
         \A f \in PolicyFields \ DOMAIN body :
           \/ EffectivePolicy(group', policy')[f] = EffectivePolicy(group, policy)[f]
           \/ f = "autoReply" /\ policy = NoPolicy /\ ~group.autoReply
<1>1. GenerationInv => Local
  <2> SUFFICES ASSUME GenerationInv, NEW body \in PolicyBodies, PostPolicy(body),
                      NEW f \in PolicyFields, f \notin DOMAIN body
               PROVE  \/ EffectivePolicy(group', policy')[f] = EffectivePolicy(group, policy)[f]
                      \/ f = "autoReply" /\ policy = NoPolicy /\ ~group.autoReply
    OBVIOUS
  <2>1. policy' = Saved(policy, body) /\ policy \in Policy \cup {NoPolicy}
        /\ group.autoReply \in BOOLEAN
    BY DEF PostPolicy, GenerationInv, GenerationTypeOK
  <2>2. policy' # NoPolicy
    BY <2>1, SavedIsPolicy, GenerationAssumption
  <2>3. EffectivePolicy(group', policy') = policy'
    BY <2>2 DEF EffectivePolicy
  <2>4. policy'[f] = IF policy = NoPolicy THEN PolicyDefaults[f] ELSE policy[f]
    BY <2>1 DEF Saved
  <2>5. CASE policy # NoPolicy
    BY <2>3, <2>4, <2>5 DEF EffectivePolicy
  <2>6. CASE policy = NoPolicy
    <3>1. EffectivePolicy(group, policy) = [PolicyDefaults EXCEPT !.autoReply = group.autoReply]
      BY <2>6 DEF EffectivePolicy
    <3>2. PolicyDefaults.autoReply = TRUE /\ f \in DOMAIN PolicyDefaults
      BY DEF PolicyDefaults, PolicyFields
    <3>3. CASE f = "autoReply"
      BY <2>1, <2>3, <2>4, <2>6, <3>1, <3>2, <3>3 DEF PolicyDefaults
    <3>4. CASE f # "autoReply"
      BY <2>3, <2>4, <2>6, <3>1, <3>2, <3>4
    <3>5. QED BY <3>3, <3>4
  <2>7. QED BY <2>5, <2>6
<1> HIDE DEF Local
<1>2. GenerationInv => [Local]_policy
  BY <1>1
<1>3. Spec => [][Local]_policy
  BY <1>2, GenerationHolds, PTL
<1>4. QED
  BY <1>3 DEF PolicySaveIsLocal, Local

-----------------------------------------------------------------------------
AreaOK == area \in Areas

(* Every variable of the services keeps its type.                           *)
THEOREM TypeOKHolds == Spec => []TypeOK
<1>1. Init => AreaOK
  BY DEF Init, AreaOK
<1>2. AreaOK /\ [Next]_vars => AreaOK'
  BY DEF AreaOK, Next, vars, DecisionArea, ConfigArea, GenerationArea, KnowledgeArea, RegistryArea
<1>3. Spec => []AreaOK
  BY <1>1, <1>2, PTL DEF Spec
<1>4. AreaOK /\ DecisionInv /\ ConfigInv /\ GenerationInv /\ KnowledgeInv /\ RegistryInv
        => TypeOK
  BY DEF AreaOK, TypeOK, DecisionInv, ConfigInv, GenerationInv, KnowledgeInv, RegistryInv
<1>5. QED
  BY <1>3, <1>4, DecisionHolds, ConfigHolds, GenerationHolds, KnowledgeHolds, RegistryHolds, PTL
=============================================================================
