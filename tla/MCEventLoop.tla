---------------------------- MODULE MCEventLoop ----------------------------
(* Small instances of EventLoop for TLC.                                    *)
EXTENDS EventLoop

CONSTANTS f1, f2
=============================================================================
