---------------------------- MODULE MCVRFOracle ----------------------------
(***************************************************************************)
(* Small instances of VRFOracle for TLC.                                   *)
(***************************************************************************)
EXTENDS VRFOracle

CONSTANTS MaxItems, MaxBlock

MCItem == [op : Op, job : Jobs, block : 1 .. MaxBlock]

\* Every stream of at most MaxItems items that respects StreamsAssumption.
\* The job of a heartbeat or a removal means nothing, so one choice is enough,
\* and nothing is read after a delta that does not unmarshal.
MCStreams ==
    {s \in UNION {[1 .. n -> MCItem] : n \in 0 .. MaxItems} :
        /\ \A i \in DOMAIN s :
              /\ ~IsCreation(s[i]) => s[i].job = CHOOSE j \in Jobs \ Malformed : TRUE
              /\ s[i].job \in Malformed => i = Len(s)
        /\ \A i, j \in DOMAIN s : i < j =>
              /\ s[i].block <= s[j].block
              /\ s[i].op = "heartbeat" => s[i].block < s[j].block}
=============================================================================
