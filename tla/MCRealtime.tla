----------------------------- MODULE MCRealtime -----------------------------
EXTENDS Realtime

CONSTANTS r1, r2, r3
MCRegistry == <<r1, r2, r3>>
=============================================================================
