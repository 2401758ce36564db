---------------------------- MODULE MCGoogleGrant ----------------------------
(***************************************************************************)
(* GoogleGrant alone for TLC: one caller of Sheets, and the health check   *)
(* that marks the connection.                                              *)
(***************************************************************************)
EXTENDS GoogleGrant

MCGrantCalls == {<<"sheets", 1>>, <<"health", 1>>}
=============================================================================
