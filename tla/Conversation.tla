---------------------------- MODULE Conversation ----------------------------
(***************************************************************************)
(* What a session keeps of a conversation from one turn to the next: the   *)
(* products that were shown (Chat) and what the shopper said of himself    *)
(* (Session).  They are fields of one saved object and share no state; a   *)
(* step is of one of them.                                                 *)
(***************************************************************************)
EXTENDS Chat, Session

conversationVars == <<chatVars, sessionVars>>

ConversationInit == ChatInit /\ SessionInit

ConversationNext ==
  \/ ChatNext /\ UNCHANGED sessionVars
  \/ SessionNext /\ UNCHANGED chatVars

ConversationSpec == ConversationInit /\ [][ConversationNext]_conversationVars

(* What the session holds of the conversation is there for the next turn,  *)
(* whichever lane answered the last: handleChat and its SessionStore.      *)
SessionIsRemembered == ChipsAreAnswered /\ ToldOnce
=============================================================================
