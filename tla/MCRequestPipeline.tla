-------------------------- MODULE MCRequestPipeline --------------------------
(* A small instance: two overlapping requests, one id that clients send,   *)
(* and one new id for each request.                                        *)
EXTENDS RequestPipeline
=============================================================================
