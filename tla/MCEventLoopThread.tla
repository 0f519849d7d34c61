-------------------------- MODULE MCEventLoopThread --------------------------
(* Small instances of EventLoopThread for TLC.                              *)
EXTENDS EventLoopThread

CONSTANTS f1, f2
=============================================================================
