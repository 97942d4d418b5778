----------------------------- MODULE MCAppSink -----------------------------
(* An instance of AppSink for TLC: frames of no packet (parameter sets     *)
(* alone), of one and of several; the duration of the first does not fit   *)
(* an int of 16 values, and the clock wraps at once.  What the conversion  *)
(* of that duration becomes is one value: all that follows is relative.    *)
EXTENDS AppSink
SomePackets == <<2, 0, 1, 2>>
SomeTimes == <<12, 17, 19, 20>>
AnyOf == {5}
=============================================================================
