---------------------------- MODULE MCDownloadJobs ----------------------------
(***************************************************************************)
(* Instances of DownloadJobs for TLC.  Two ticks ask for s1, a request for *)
(* s2, which has the same output but another limit, and one for s3, which  *)
(* takes all connections of the group for an output of its own.            *)
(***************************************************************************)
EXTENDS DownloadJobs, TLC

CONSTANTS j1, j2, j3, j4, s1, s2, s3, k1, k2, k3, parquet, csv, other, g

MCSignatureOf == j1 :> s1 @@ j2 :> s1 @@ j3 :> s2 @@ j4 :> s3
MCGroupOf == [s \in Signature |-> g]
MCRequested == s1 :> 1 @@ s2 :> 1 @@ s3 :> 2
MCLimit == s1 :> 1 @@ s2 :> 2 @@ s3 :> 2

\* s1 and s2 name the same formats.
SameFormats == s1 :> k1 @@ s2 :> k1 @@ s3 :> k2
ParquetOnly == s1 :> {parquet} @@ s2 :> {parquet} @@ s3 :> {other}

\* s2 names one format more than s1, and so has a key of its own.
OtherFormats == s1 :> k1 @@ s2 :> k3 @@ s3 :> k2
ParquetAndCsv == s1 :> {parquet} @@ s2 :> {parquet, csv} @@ s3 :> {other}
=============================================================================
