------------------------------- MODULE MCMail -------------------------------
(* Instances of Mail for TLC.                                              *)
EXTENDS Mail, TLC

\* Nothing distinguishes the mails, the users or the addresses.
Symmetry == Permutations(Mail) \cup Permutations(User) \cup Permutations(Address)
=============================================================================
