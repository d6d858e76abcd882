-------------------------- MODULE MCSnapshotGateway --------------------------
(* Two symbols, so that one changes while the other does not; a pipe that  *)
(* holds two lines, so that the reader lags behind the engine; and a       *)
(* client whose socket holds two frames, so that a slow browser lags       *)
(* behind its task.                                                        *)
EXTENDS SnapshotGateway
=============================================================================
