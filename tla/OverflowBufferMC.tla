-------------------------- MODULE OverflowBufferMC --------------------------
\* Two clients and the server; the clients send MaxLoop messages together.
EXTENDS OverflowBuffer
CONSTANTS c1, c2, MaxLoop

Shares == {f \in [Clients -> 0..MaxLoop] : f[c1] + f[c2] = MaxLoop /\ f[c1] >= f[c2]}
=============================================================================
