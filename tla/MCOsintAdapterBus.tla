-------------------------- MODULE MCOsintAdapterBus --------------------------
\* Runs of one adapter that compete for its request budget.
EXTENDS OsintAdapterBus
=============================================================================
