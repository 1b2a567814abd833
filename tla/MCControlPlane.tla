--------------------------- MODULE MCControlPlane ---------------------------
\* Instances of ControlPlane for TLC.
EXTENDS ControlPlane, TLC

CONSTANTS s1, s2, cam, other

\* s1 is always loaded as cam, s2 as a second cam or as another source.
Ids == (s1 :> {cam}) @@ (s2 :> {cam, other})
=============================================================================
