--------------------------- MODULE MCMessageBus ---------------------------
(* Two shards that send each other messages of every kind.  Their handlers *)
(* are those of the base class: replies are consumed.                      *)
EXTENDS MessageBus

CONSTANTS s1, s2

BaseClass == GameKind
=============================================================================
