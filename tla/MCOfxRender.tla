---------------------------- MODULE MCOfxRender ----------------------------
(* Instances of OfxRender for model checking; the configurations give its   *)
(* constants their values.                                                  *)
EXTENDS OfxRenderInv
=============================================================================
