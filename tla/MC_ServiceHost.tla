--------------------------- MODULE MC_ServiceHost ----------------------------
\* The service under each manager, with the values in the configurations.
EXTENDS ServiceHost

JustService == {{"-service"}}
NoRepair == {}
==============================================================================
