---------------------------- MODULE MCOutputList ----------------------------
(* Two outputs of RTP packets, an RTSP player and a websocket, and a        *)
(* websocket output of frames.                                             *)
EXTENDS OutputList

CONSTANTS r1, r2, f1, rtp, frame

MCOutputs == {r1, r2, f1}
MCTypes == {rtp, frame}
MCType == [o \in MCOutputs |-> IF o = f1 THEN frame ELSE rtp]
MCReviving == {r1, r2}
MCWebsocket == {r2, f1}
=============================================================================
