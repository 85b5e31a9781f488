-------------------------- MODULE MCEtcdClientV3 ---------------------------
(* Instances of EtcdClientV3 for TLC.                                      *)
EXTENDS EtcdClientV3
============================================================================
