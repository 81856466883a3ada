----------------------------- MODULE MCDelivery -----------------------------
(* Instances of Delivery for TLC.                                          *)
EXTENDS Delivery, TLC

\* Nothing distinguishes the processes, or the elements of the other sets.
Symmetry ==
  Permutations(Process) \cup Permutations(Socket) \cup Permutations(Course)
    \cup Permutations(Student) \cup Permutations(Staff)
=============================================================================
