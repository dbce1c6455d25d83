----------------------------- MODULE MCOledIrq -----------------------------
(* Small instances of OledIrq for TLC. *)
EXTENDS OledIrq, TLC

CONSTANTS u1, u2, btn5, rockerN, rockerE, btn, rocker

\* Two handlers; the rocker handler serves two directions.
HandlerOf1 == btn5 :> btn
HandlerOf2 == HandlerOf1 @@ rockerN :> rocker
HandlerOf3 == HandlerOf2 @@ rockerE :> rocker
=============================================================================
