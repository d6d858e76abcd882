-------------------------- MODULE MCWebSocketServer --------------------------
(* Two clients, each of whom may ask properly or not, and room for one of  *)
(* them or for both: numbers are used again, and can run out.              *)
EXTENDS WebSocketServer
=============================================================================
