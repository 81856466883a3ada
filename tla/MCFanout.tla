------------------------------ MODULE MCFanout ------------------------------
(* An instance of Fanout for TLC: two pages of two users, the second of    *)
(* them short, and room for a third when users come and go.  The run also  *)
(* checks liveness, so users are not taken for interchangeable.            *)
EXTENDS Fanout
=============================================================================
