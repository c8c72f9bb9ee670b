---------------------------- MODULE MCMasterSetup ----------------------------
(* Instances of MasterSetup for TLC.                                       *)
EXTENDS MasterSetup

NoSlave   == <<>>
TwoSlaves == <<17, 18>>
FullBoard == <<17, 18, 19>>
=============================================================================
