------------------------------- MODULE MCBio -------------------------------
(* Small buffer caches for TLC. *)
EXTENDS Bio
=============================================================================
