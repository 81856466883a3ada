----------------------------- MODULE MCPresence -----------------------------
(* Instances of Presence for TLC.  One of them checks liveness too, so     *)
(* sockets and users are not taken for interchangeable.                    *)
EXTENDS Presence
=============================================================================
