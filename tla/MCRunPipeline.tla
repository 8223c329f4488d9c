---------------------------- MODULE MCRunPipeline ----------------------------
(***************************************************************************)
(* Small instances of RunPipeline for TLC.                                 *)
(***************************************************************************)
EXTENDS RunPipeline

CONSTANTS c1, c2

TwoJobs == {<<"bridge", "ethtx">>, <<"ethtx", "bridge", "pure">>}
=============================================================================
