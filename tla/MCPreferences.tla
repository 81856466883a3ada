--------------------------- MODULE MCPreferences ----------------------------
(* Instances of Preferences for TLC.                                       *)
EXTENDS Preferences, TLC
=============================================================================
