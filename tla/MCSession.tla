------------------------------ MODULE MCSession ------------------------------
(* Two shards and an account with characters on the first one, or with one *)
(* that has no shard.  The player has one tab and one session, with the    *)
(* router's auto-puppet, or two tabs and sessions, without it.             *)
EXTENDS Session

CONSTANTS s1, s2, c1, c2

MCStarts  == {[c \in Char |-> s1], [c \in Char |-> None]}
MCStarts1 == {[c \in Char |-> s1]}

OneTab  == [auto |-> TRUE, single |-> TRUE, tabs |-> 1]
TwoTabs == [auto |-> FALSE, single |-> FALSE, tabs |-> 2]
MCSettings  == {OneTab, TwoTabs}
MCSettings1 == {OneTab}
=============================================================================
