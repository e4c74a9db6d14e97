------------------------------ MODULE MCLogin ------------------------------
EXTENDS Login
CONSTANTS s1, s2, s3, h1, h2, alice, bob

TwoHosts == [s \in Sessions |-> IF s = s3 THEN h2 ELSE h1]
=============================================================================
