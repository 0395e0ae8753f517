----------------------------- MODULE MCService -----------------------------
(* Service with a few messages, and Paho's two possible orders of queueing  *)
(* a message and calling back.                                              *)
EXTENDS Service

MCBothArrivals == {"queue first", "call first"}
MCQueueFirst == {"queue first"}
=============================================================================
