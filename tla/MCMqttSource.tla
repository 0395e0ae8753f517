--------------------------- MODULE MCMqttSource ---------------------------
(* MqttSource with four messages, and Paho's two possible orders of queueing *)
(* a message and calling back.                                              *)
EXTENDS MqttSource

MCBothArrivals == {"queue first", "call first"}
MCQueueFirst == {"queue first"}
=============================================================================
