-------------------------- MODULE MCGraphicPipeline --------------------------
(* A small instance of GraphicPipeline.                                     *)
EXTENDS GraphicPipeline
=============================================================================
