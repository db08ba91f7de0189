---------------------------- MODULE MCServerGroup ----------------------------
(***************************************************************************)
(* Instances of ServerGroup for TLC: calls with too few, enough and spare  *)
(* hosts, with one connection and with two, with and without a retry, and  *)
(* those with nothing to do or nobody to ask.                              *)
(***************************************************************************)
EXTENDS ServerGroup

MCCalls ==
    [batches : {0, 2, 4}, hosts : 0 .. 3, connections : {1, 2}, retries : {0, 1}]
=============================================================================
