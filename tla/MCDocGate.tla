----------------------------- MODULE MCDocGate -----------------------------
(***************************************************************************)
(* Three calls on one DI: each may upload any of the four documents, and   *)
(* the calls of Enders may be the end of the repair instead.               *)
(***************************************************************************)
EXTENDS DocGate

ThreeCalls == {"c1", "c2", "c3"}

============================================================================
