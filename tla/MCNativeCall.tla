----------------------------- MODULE MCNativeCall -----------------------------
(* Instances of NativeCall for TLC.                                           *)
EXTENDS NativeCall

AllFrames == Frame
===============================================================================
