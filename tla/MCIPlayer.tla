------------------------------ MODULE MCIPlayer -----------------------------
(* One player and a page that plays one of two streams.                    *)
EXTENDS IPlayer
=============================================================================
