------------------------------- MODULE MCAis --------------------------------
(* Constants of AisWorker for TLC. *)
EXTENDS AisWorker

CONSTANTS s1, s2, s3, v1, v2, n1, n2

\* two sources share a vessel, one of them has another; the third has no box
\* and the name of the second
MCName == [s \in {s1, s2, s3} |-> IF s = s1 THEN n1 ELSE n2]

MCCovers == [s \in {s1, s2, s3} |-> CASE s = s1 -> {v1, v2}
                                      [] s = s2 -> {v1}
                                      [] s = s3 -> {}]

MCInterval == [s \in {s1, s2, s3} |-> IF s = s1 THEN 2 ELSE 1]
=============================================================================
