------------------------ MODULE MCKeepAliveContext -------------------------
(* Instances of KeepAliveContext for TLC; the module has no bounds.        *)
EXTENDS KeepAliveContext
============================================================================
