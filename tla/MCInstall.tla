----------------------------- MODULE MCInstall -----------------------------
(* Install for TLC.                                                        *)
EXTENDS Install
=============================================================================
