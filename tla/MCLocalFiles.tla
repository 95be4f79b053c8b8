---------------------------- MODULE MCLocalFiles ----------------------------
\* Two readers, a lookup and a pruner; three transfers of different sizes; three
\* downloads of one file; three starts of a worker; three starts and a stop
\* of a sidecar.
EXTENDS LocalFiles

CONSTANTS ra, rb, k, pr, t0, t1, t2, n1, n2, p, q, r, s1, s2, s3, s4

MCSize == (t0 :> 0) @@ (t1 :> 1) @@ (t2 :> 2)
MCNames == <<n1, n2>>
=============================================================================
