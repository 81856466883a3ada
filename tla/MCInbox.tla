------------------------------- MODULE MCInbox ------------------------------
(* Instances of Inbox for TLC.                                             *)
EXTENDS Inbox, TLC

\* Users and calls of the same kind are interchangeable, and so are the saves
\* of which delete_notification may say the same: their order is in date.
CallSymmetry ==
  Permutations(Removed) \cup Permutations(Save \ Removed)
    \cup Permutations(User) \cup Permutations(Listing) \cup Permutations(Deletion)
=============================================================================
