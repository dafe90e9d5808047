-------------------------- MODULE MCGatewayRequest --------------------------
(* Small instances of GatewayRequest for TLC.                              *)
EXTENDS GatewayRequest

CONSTANTS r1, r2, slm, large
=============================================================================
