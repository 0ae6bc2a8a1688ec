------------------------ MODULE MCFrontierPublication ------------------------
(* A small instance of FrontierPublication for TLC: a membership-aware and a
   scalar aggregator over one store. *)
EXTENDS FrontierPublication, TLC

CONSTANTS a1, legacy, s1

Mixed == {a1, legacy}
Legacy == {legacy}
OneShard == {s1}
=============================================================================
