------------------------------ MODULE Playback ------------------------------
(* What a page may count on of a player, whatever becomes of its sockets,  *)
(* media sources, workers and intervals: the phases it goes through and    *)
(* who takes it from one to the next.                                      *)
EXTENDS Naturals

VARIABLES
    phase,
    calls    \* how often the page has asked the player to play

Phases == {"stopped", "connecting", "streaming", "waiting", "paused", "lost"}

(* Of its own accord: a connection is made or fails, a stream ends, the    *)
(* player retries; a source buffer that refuses data loses the stream,     *)
(* which only the late failure of an old worker may bring back.  A paused  *)
(* player is stopped with its connection, and the first message of the     *)
(* server ends a pause.                                                    *)
Own ==
    {<<"connecting", "streaming">>, <<"connecting", "waiting">>,
     <<"streaming", "waiting">>, <<"waiting", "connecting">>,
     <<"streaming", "lost">>, <<"lost", "waiting">>,
     <<"paused", "stopped">>, <<"paused", "streaming">>}

(* When the page pauses or stops it.  Neither works while it connects.     *)
Ended ==
    {<<"streaming", "paused">>, <<"waiting", "paused">>}
        \cup ({"streaming", "waiting", "paused", "lost"} \X {"stopped"})

(* When the page asks for it. *)
Started ==
    (Phases \X {"connecting"})
        \cup {<<"paused", "streaming">>, <<"stopped", "lost">>}

Init == phase = "stopped" /\ calls = 0

Next ==
    \/ <<phase, phase'>> \in Own \cup Ended /\ UNCHANGED calls
    \/ <<phase, phase'>> \in Started \cup {<<q, q>> : q \in Phases} /\ calls' = calls + 1

Spec == Init /\ [][Next]_<<phase, calls>>
=============================================================================
