---------------------------- MODULE MCSocketPools ----------------------------
\* Instances of SocketPools for TLC: s1 and s2 belong to one user and are served
\* by two instances; s3 is alone with its user next to s1.
EXTENDS SocketPools, TLC

CONSTANTS i1, i2, s1, s2, s3, u1, u2

MCSid   == {s1, s2, s3}
MCHome  == s1 :> i1 @@ s2 :> i2 @@ s3 :> i1
MCOwner == s1 :> u1 @@ s2 :> u1 @@ s3 :> u2
=============================================================================
