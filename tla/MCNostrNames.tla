---------------------------- MODULE MCNostrNames ----------------------------
EXTENDS NostrNames

CONSTANTS r1, r2, x, a, b

ChosenRelays == {{r1}, {r1, r2}, {r1, x}}
ChosenEvents == {<<a, 0>>, <<b, 0>>}
=============================================================================
