--------------------------- MODULE MCPaidFallback ---------------------------
(* PaidFallback where main's account is replaced and comes back.              *)
EXTENDS PaidFallback

AwayAndBack == <<1, 2, 1>>
=============================================================================
