-------------------------- MODULE MCHttpClientPool --------------------------
(* Instances of HttpClientPool for TLC. *)
EXTENDS HttpClientPool
=============================================================================
