---------------------------- MODULE RuntimeConfig ----------------------------
(***************************************************************************)
(* The runtime configuration: one row, every blank field of which falls     *)
(* back to the environment or a default, read by the reply path and edited  *)
(* by administrators through a form that shows the effective values and     *)
(* never the keys.  Texts are opaque, but for the keys: how a key is masked  *)
(* and how a masked one is recognised is a matter of its characters, so a   *)
(* key is a sequence of them.                                               *)
(***************************************************************************)
EXTENDS Integers, SequencesExt

CONSTANTS Admins,
          Texts,    \* what an administrator may type into a field that is shown
          KeyTexts, \* and into the field of a key, besides a mask
          NoValue,  \* null or blank
          NoConfig, \* no row yet
          NoForm,
          Env,      \* the environment: name -> text or NoValue
          Editable  \* bound: the fields an administrator changes

Keys == {"llmKey", "arkKey", "embKey"}
Shown == {"llmUrl", "llmModel", "arkUrl", "arkModel", "embUrl", "embModel",
          "provider", "language", "mode", "fallback", "knowledgeFirst", "maxChars", "profile"}
Fields == Keys \cup Shown

VARIABLES config, \* the row
          forms   \* the form each administrator has open

configVars == <<config, forms>>

(* Where a blank field is looked up, in this order. *)
Fallbacks ==
    [llmUrl   |-> <<"LLM_BASE_URL">>,
     llmModel |-> <<"LLM_MODEL">>,
     llmKey   |-> <<"LLM_API_KEY">>,
     arkUrl   |-> <<"ARK_BOT_BASE_URL", "DEFAULT_ARK_BOT_BASE_URL">>,
     arkModel |-> <<"ARK_BOT_MODEL">>,
     arkKey   |-> <<"ARK_BOT_API_KEY", "LLM_API_KEY">>,
     embUrl   |-> <<"EMBEDDING_BASE_URL", "LLM_BASE_URL">>,
     embModel |-> <<"EMBEDDING_MODEL", "text-embedding-3-small">>,
     embKey   |-> <<"EMBEDDING_API_KEY", "LLM_API_KEY">>,
     provider |-> <<"standard">>,
     language |-> <<"zh-CN">>,
     mode     |-> <<"keyword_first">>,
     fallback |-> <<"yes">>, knowledgeFirst |-> <<"yes">>, maxChars |-> <<"120">>,
     profile  |-> <<>>]

EmptyRow == [f \in Fields |-> NoValue]

FallbackOf(f) ==
    LET i == SelectInSeq(Fallbacks[f], LAMBDA n : Env[n] # NoValue)
    IN IF i = 0 THEN NoValue ELSE Env[Fallbacks[f][i]]

(* rowToEffective. *)
Effective(row, f) ==
    IF row # NoConfig /\ row[f] # NoValue THEN row[f] ELSE FallbackOf(f)

-----------------------------------------------------------------------------
(* "bullet" stands for the two dots the placeholder may be made of, "blank" *)
(* for white space.                                                         *)
MaskChars == {"*", "bullet", "blank"}
Chars == MaskChars \cup UNION {ToSet(t) : t \in KeyTexts}
Stars(n) == [i \in 1..n |-> "*"]

Trim(t) ==
    LET first == SelectInSeq(t, LAMBDA c : c # "blank")
        last == SelectLastInSeq(t, LAMBDA c : c # "blank")
    IN IF first = 0 THEN <<>> ELSE SubSeq(t, first, last)

(* maskSecret: the last four characters are shown of a key with more than   *)
(* eight.                                                                   *)
MaskOf(key) ==
    IF Len(key) <= 8 THEN Stars(8) ELSE Stars(4) \o SubSeq(key, Len(key) - 3, Len(key))

(* The patterns of normalizeAdminApiKeyInput, applied to a trimmed text.    *)
WholeMasksOnly(t) == ToSet(t) \subseteq MaskChars
MeansKeep(t) == ToSet(t) \subseteq MaskChars \/ IsPrefix(Stars(4), t)

(* What a key may come to be, and what the API may have shown in its place. *)
StoredKeys == {Trim(t) : t \in KeyTexts}
Masks == {MaskOf(key) : key \in StoredKeys}
Typeable == KeyTexts \cup Masks \cup {<<>>}

Options == {"standard", "ark_bot", "yes", "no"}
EnvOf(fs) == UNION {{Env[Fallbacks[f][i]] : i \in DOMAIN Fallbacks[f]} : f \in fs}
Values == Texts \cup Options \cup EnvOf(Shown)

IsRow(row) ==
    /\ DOMAIN row = Fields
    /\ \A f \in Shown : row[f] \in Values \cup {NoValue}
    /\ \A k \in Keys : row[k] \in {NoValue} \cup StoredKeys

ASSUME ConfigAssumption ==
    /\ Editable \subseteq Fields
    /\ \A f \in Fields : \A i \in 1..Len(Fallbacks[f]) : Fallbacks[f][i] \in DOMAIN Env
    /\ \A t \in KeyTexts : t \in Seq(Chars)
    /\ NoValue \notin Seq(Chars)
    /\ NoConfig \notin [Fields -> Values \cup StoredKeys \cup {NoValue}]

Form == [shown : [Shown -> Values \cup {NoValue}],
         typed : [Keys -> Typeable],
         touched : BOOLEAN, \* something was typed since it was loaded or saved
         fresh : BOOLEAN]   \* nobody else saved since

ASSUME FormAssumption == NoForm \notin Form

ConfigTypeOK ==
    /\ config = NoConfig \/ IsRow(config)
    /\ forms \in [Admins -> {NoForm} \cup Form]

ConfigInit == config = NoConfig /\ forms = [a \in Admins |-> NoForm]

-----------------------------------------------------------------------------
(* ensureRuntimeConfigRow: the columns with a default get it. *)
Defaults == {"provider", "language", "mode", "fallback", "knowledgeFirst", "maxChars"}
EnsuredDefaultsOnly ==
    IF config # NoConfig THEN config ELSE [f \in Defaults |-> Env[Fallbacks[f][1]]]

Ensured ==
    IF config # NoConfig THEN config
    ELSE [f \in Fields |-> IF f \in Defaults THEN Env[Fallbacks[f][1]] ELSE NoValue]

(* A reader inside the server asks for the effective configuration. *)
ReadConfig ==
    /\ config' = Ensured
    /\ UNCHANGED forms

LoadForm(a) ==
    /\ forms' = [forms EXCEPT ![a] =
         [shown |-> [f \in Shown |-> Effective(config, f)],
          typed |-> [k \in Keys |-> <<>>], touched |-> FALSE, fresh |-> TRUE]]
    /\ UNCHANGED config

(* The field of a key may be handed back the mask that the API returned. *)
TypeIn(a) ==
    /\ forms[a] # NoForm
    /\ \/ \E f \in Editable \cap Shown, v \in Texts \cup {NoValue} :
            forms' = [forms EXCEPT ![a].shown[f] = v, ![a].touched = TRUE]
       \/ \E k \in Editable \cap Keys, v \in Typeable :
            forms' = [forms EXCEPT ![a].typed[k] = v, ![a].touched = TRUE]
    /\ UNCHANGED config

(* normalizeAdminApiKeyInput: blank and masked forms mean keep. *)
KeyByWholePatterns(old, typed) == IF WholeMasksOnly(Trim(typed)) THEN old ELSE Trim(typed)
KeyOverwritten(old, typed) == IF IsPrefix(Stars(4), Trim(typed)) THEN old ELSE Trim(typed)
KeyToStore(old, typed) == IF MeansKeep(Trim(typed)) THEN old ELSE Trim(typed)

(* A select or a language left blank is stored as its default, any other    *)
(* blank field as null.                                                     *)
ToStore(f, v) == IF v = NoValue /\ f \in Defaults THEN Env[Fallbacks[f][1]] ELSE v

(* PUT: ensure the row, then one update of what the body holds. *)
SaveForm(a) ==
    /\ forms[a] # NoForm
    /\ config' = [f \in Fields |-> IF f \in Keys THEN KeyToStore(Ensured[f], forms[a].typed[f])
                                   ELSE ToStore(f, forms[a].shown[f])]
    /\ forms' = [b \in Admins |->
         IF b = a THEN [forms[a] EXCEPT !.typed = [k \in Keys |-> <<>>],
                                        !.touched = FALSE, !.fresh = TRUE]
         ELSE IF forms[b] = NoForm THEN NoForm ELSE [forms[b] EXCEPT !.fresh = FALSE]]

ConfigNext == ReadConfig \/ \E a \in Admins : LoadForm(a) \/ TypeIn(a) \/ SaveForm(a)

-----------------------------------------------------------------------------
(* Whatever key is stored, long or short, the mask that the API shows in    *)
(* its place is recognised by the patterns when it is sent back: no mask of *)
(* any key ever becomes the key (runtime-config.service.ts:11-26).          *)
MaskIsNeverStored == config # NoConfig => \A k \in Keys : config[k] \notin Masks

(* Reading the configuration, or saving a form nobody typed into and nobody *)
(* overtook, changes no effective value: neither creating the row nor       *)
(* writing the fallbacks that the form showed into it                       *)
(* (runtime-config.service.ts:40-60, 62-86; admin-v1.routes.ts:76-120).     *)
KeepsEffective ==
    config' # config => \A f \in Fields : Effective(config', f) = Effective(config, f)

UntouchedFormKeepsConfig ==
    [][/\ ReadConfig => KeepsEffective
       /\ \A a \in Admins : (forms[a] # NoForm /\ ~forms[a].touched /\ forms[a].fresh
                              /\ SaveForm(a)) => KeepsEffective]_configVars
=============================================================================
