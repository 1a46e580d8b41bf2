------------------------------- MODULE Caches -------------------------------
(***************************************************************************)
(* What the shoppers of a shop share in the gateway's memory and its       *)
(* settings table, beside one another: the catalog snapshot, the policy    *)
(* pages and the merchant's settings.  They share no state; a step is of   *)
(* one of them.                                                            *)
(***************************************************************************)
EXTENDS Snapshot, Policies, Settings

cacheVars == <<snapshotVars, policyVars, settingsVars>>

CachesInit == SnapshotInit /\ PoliciesInit /\ SettingsInit

CachesNext ==
  \/ SnapshotNext /\ UNCHANGED <<policyVars, settingsVars>>
  \/ PoliciesNext /\ UNCHANGED <<snapshotVars, settingsVars>>
  \/ SettingsNext /\ UNCHANGED <<snapshotVars, policyVars>>

CachesSpec == CachesInit /\ [][CachesNext]_cacheVars

(* What every shop's shoppers share is not served stale, whichever cache   *)
(* it comes from: the catalog of CatalogSnapshot.products, the policies of *)
(* StorePolicies.get and the prompt's prefix of merchantPackFor.           *)
CachesAreCurrent == SnapshotIsCurrent /\ PolicyIsRecent /\ PromptIsTheMerchants
=============================================================================
