--------------------------- MODULE SourceDirectory --------------------------
(* What the publication of live sources promises: a directory from keys to *)
(* servers in which an entry is never overwritten, and from which a server *)
(* that is gone has disappeared for good.                                  *)
CONSTANTS Servers, Keys, None

VARIABLES listed, gone

Init == listed = [k \in Keys |-> None] /\ gone = {}

IsListed(s) == \E k \in Keys : listed[k] = s

List(s, k) ==
    /\ s \notin gone
    /\ ~IsListed(s)
    /\ listed[k] = None
    /\ listed' = [listed EXCEPT ![k] = s]
    /\ UNCHANGED gone

Unlist(k) ==
    /\ listed' = [listed EXCEPT ![k] = None]
    /\ UNCHANGED gone

Go(s) ==
    /\ ~IsListed(s)
    /\ gone' = gone \cup {s}
    /\ UNCHANGED listed

Next ==
    \/ \E s \in Servers, k \in Keys : List(s, k)
    \/ \E k \in Keys : Unlist(k)
    \/ \E s \in Servers : Go(s)

Spec == Init /\ [][Next]_<<listed, gone>>
=============================================================================
