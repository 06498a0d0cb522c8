----------------------------- MODULE MCChannels -----------------------------
EXTENDS Channels

CONSTANTS s1, s2, r1, r2, m1, m2, None

MCSender == {s1, s2}
MCReceiver == {r1, r2}
MCMessage == {m1, m2}
=============================================================================
