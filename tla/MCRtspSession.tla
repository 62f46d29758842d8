---------------------------- MODULE MCRtspSession ---------------------------
(* One session and a client that sends a few requests, of any kind.        *)
EXTENDS RtspSession
=============================================================================
