---------------------------- MODULE MC_EventLog ------------------------------
\* EventLog on rings of 1..3 slots with three distinct items: every head and
\* count, full and not full, and enough items to see an order mix-up.
EXTENDS EventLog

MCSizes == 1 .. 3
==============================================================================
