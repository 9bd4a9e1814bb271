---------------------------- MODULE MC_SshSessions ----------------------------
EXTENDS SshSessions, TLC
CONSTANTS b1, b2, c1, t1, t2
PoolChains == c1 :> {<<b1, b2>>, <<b2, Proxy>>} @@ t1 :> {<<b1, b2>>, <<Proxy, b1>>} @@ t2 :> {<<b1, b2>>}
MixedChains == c1 :> {<<b2>>} @@ t1 :> {<<b1, b2>>}
=============================================================================
