------------------------------ MODULE Settings -------------------------------
(***************************************************************************)
(* What a merchant says the assistant should be like: the form of          *)
(* admin/render.ts in any number of tabs, its validation and its row       *)
(* (admin/settings.ts, store/sqlite.ts), and the cached prefix of the      *)
(* prompt that every turn of the shop begins with (orchestrator/prompt.ts).*)
(*                                                                         *)
(* A text is the sequence of its words; a list is one of product names.    *)
(***************************************************************************)
EXTENDS Integers, Sequences, SequencesExt

CONSTANTS
  Tabs,
  Wordings,  \* bound: what a merchant may write in a field
  Volatile,  \* words the VOLATILE_PATTERNS match
  MaxWords,  \* BRAND_VOICE_MAX, POLICY_NOTES_MAX, PRODUCT_LIST_MAX
  Accents,   \* bound: colours
  Readable,  \* those white text can be read on
  MaxSaves   \* bound: submits

(* The gateway's own words are stable, and the demo shop's policy is no    *)
(* merchant's.                                                             *)
ASSUME SettingsAssumption ==
  /\ Wordings \subseteq Seq(STRING) /\ <<"demo">> \notin Wordings
  /\ {"neutral", "none", "demo", "lead", "never"} \cap Volatile = {}

VARIABLES
  row,     \* the settings table: the row of this shop, or NoRow
  tabs,    \* the forms: [shown, typed], or Closed
  prompt,  \* of the turn under way: its pack, and as history the row it is of
  saves,
  changed  \* history: fields a submit changed that the merchant had not

settingsVars == <<row, tabs, prompt, saves, changed>>

TextFields == {"brandVoice", "policyNotes", "promoteProducts", "neverRecommend"}
Fields == TextFields \cup {"accentColor", "holdoutFraction", "onDeviceSpeech"}

DefaultSettings ==
  [f \in Fields |-> CASE f \in TextFields -> <<>>
                      [] f = "accentColor" -> "green"
                      [] f = "holdoutFraction" -> 20
                      [] f = "onDeviceSpeech" -> "auto"]

NoRow == <<>>
Closed == <<>>
NoPrompt == <<>>

-----------------------------------------------------------------------------
(* settings.ts, sqlite.ts                                                  *)

normaliseOnDeviceSpeech(value) ==
  IF value \in {"off", "on", "auto"} THEN value ELSE DefaultSettings.onDeviceSpeech

get(r) ==
  IF r = NoRow THEN DefaultSettings
  ELSE [r EXCEPT !.onDeviceSpeech = normaliseOnDeviceSpeech(@)]

Stable(text) == Range(text) \cap Volatile = {}
checkPrefixSafe(text) == Stable(text)

(* Every text, and what the storefront has of the others; then the accent. *)
validateSettings(payload) ==
  /\ \A f \in TextFields : Len(payload[f]) <= MaxWords /\ checkPrefixSafe(payload[f])
  /\ payload.holdoutFraction \in 0..50
  /\ payload.onDeviceSpeech \in {"off", "on", "auto"}
  /\ payload.accentColor \in Readable

merchantPackFrom(s) ==
  [brandVoice |-> IF s.brandVoice = <<>> THEN <<"neutral">> ELSE s.brandVoice,
   policySummary |-> IF s.policyNotes = <<>> THEN <<"none">> ELSE s.policyNotes,
   promoted |-> s.promoteProducts, never |-> s.neverRecommend]

(* prompt.ts: the pack as one text; the rules are left out if there are    *)
(* none.                                                                   *)
buildCachedPrefix(pack) ==
  pack.brandVoice \o pack.policySummary
    \o (IF pack.promoted = <<>> THEN <<>> ELSE <<"lead">> \o pack.promoted)
    \o (IF pack.never = <<>> THEN <<>> ELSE <<"never">> \o pack.never)

DemoMerchant ==
  [brandVoice |-> <<"neutral">>, policySummary |-> <<"demo">>, promoted |-> <<>>, never |-> <<>>]

(* server.ts: a text that was stored before it was checked.                *)
merchantPackFor(r) ==
  LET pack == merchantPackFrom(get(r))
  IN  IF Stable(buildCachedPrefix(pack)) THEN pack ELSE DemoMerchant

-----------------------------------------------------------------------------
(* No row, or one an older version wrote: unchecked, columns missing.      *)
OldRow(text) ==
  [DefaultSettings EXCEPT !.policyNotes = text, !.neverRecommend = <<"coat">>,
                          !.holdoutFraction = 5, !.onDeviceSpeech = "null"]

SettingsInit ==
  /\ row \in {NoRow} \cup {OldRow(text) : text \in Wordings}
  /\ tabs = [t \in Tabs |-> Closed] /\ prompt = NoPrompt /\ saves = 0 /\ changed = {}

(* The page shows every field, the two it has no input for as hidden ones. *)
OpenForm(t) ==
  /\ tabs[t] = Closed /\ saves < MaxSaves
  /\ tabs' = [tabs EXCEPT ![t] = [shown |-> get(row), typed |-> get(row)]]
  /\ UNCHANGED <<row, prompt, saves, changed>>

EditForm(t) ==
  /\ tabs[t] # Closed /\ tabs[t].typed = tabs[t].shown
  /\ \E f \in TextFields \cup {"accentColor"} :
       \E value \in IF f = "accentColor" THEN Accents ELSE Wordings :
         tabs' = [tabs EXCEPT ![t].typed[f] = value]
  /\ UNCHANGED <<row, prompt, saves, changed>>

(* A refusal leaves the form as it is; a save loads the page anew, and the *)
(* row is the form, all of it.                                             *)
Submit(t) ==
  LET typed == tabs[t].typed
      valid == validateSettings(typed)
  IN  /\ tabs[t] # Closed /\ saves < MaxSaves
      /\ saves' = saves + 1
      /\ row' = IF valid THEN typed ELSE row
      /\ tabs' = [tabs EXCEPT ![t] = IF valid THEN Closed ELSE [@ EXCEPT !.typed = tabs[t].shown]]
      /\ changed' = IF ~valid \/ tabs[t].shown # get(row) THEN {}
                    ELSE {f \in Fields : get(row')[f] # get(row)[f] /\ typed[f] = tabs[t].shown[f]}
      /\ UNCHANGED prompt

(* runTurn() builds the prefix again, of the pack it was given.            *)
BeginTurn ==
  /\ prompt = NoPrompt
  /\ prompt' = [pack |-> merchantPackFor(row), row |-> row]
  /\ UNCHANGED <<row, tabs, saves, changed>>

EndTurn ==
  /\ prompt # NoPrompt
  /\ prompt' = NoPrompt
  /\ UNCHANGED <<row, tabs, saves, changed>>

SettingsNext ==
  \/ \E t \in Tabs : OpenForm(t) \/ EditForm(t) \/ Submit(t)
  \/ BeginTurn \/ EndTurn

-----------------------------------------------------------------------------
(* A turn never throws for what a merchant wrote, and once a save has been *)
(* accepted each turn that begins has the merchant's own words in front of *)
(* it and none of the demo shop's, every product not to be recommended     *)
(* among them.  A save changes what its form changed: a field the form     *)
(* does not offer (the experiment, on-device speech) is not reset by it.   *)
PromptIsTheMerchants ==
  /\ prompt # NoPrompt =>
       /\ Stable(buildCachedPrefix(prompt.pack))
       /\ prompt.row # NoRow /\ prompt.row.onDeviceSpeech # "null" =>
            /\ prompt.pack.policySummary # DemoMerchant.policySummary
            /\ prompt.row.brandVoice \in {<<>>, prompt.pack.brandVoice}
            /\ Range(prompt.row.neverRecommend) = Range(prompt.pack.never)
  /\ changed = {}
=============================================================================
