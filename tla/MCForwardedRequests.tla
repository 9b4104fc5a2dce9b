------------------------ MODULE MCForwardedRequests -------------------------
(* Three ids and five requests: the id counter wraps and reuses an id that *)
(* is still waiting.                                                       *)
EXTENDS ForwardedRequests
=============================================================================
