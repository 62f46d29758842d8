-------------------------- MODULE MCSourceRegistry --------------------------
(* Two servers; of their two URLs one carries a token, the other a name.   *)
EXTENDS SourceRegistry

CONSTANTS u1, u2, tok, name1

MCKeys == {u1, u2, tok, name1}
MCUrls == {u1, u2}
MCToken == [k \in MCKeys |-> IF k = u2 THEN tok ELSE k]
MCName == [k \in MCKeys |-> IF k = u1 THEN name1 ELSE k]
=============================================================================
