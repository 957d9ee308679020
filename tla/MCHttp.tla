------------------------------- MODULE MCHttp -------------------------------
(* Instances of HttpClient for TLC. *)
EXTENDS HttpClient

CONSTANTS t1, t2, k1, k2, k3
=============================================================================
