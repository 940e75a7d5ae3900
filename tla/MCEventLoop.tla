---------------------------- MODULE MCEventLoop -----------------------------
(* A small instance of EventLoop: two threads with a device each, which    *)
(* handle events themselves.                                               *)
EXTENDS EventLoop

CONSTANTS t1, t2

TwoUsers == {t1, t2}
=============================================================================
