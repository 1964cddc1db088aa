---------------------------- MODULE MC_Lifecycle ----------------------------
EXTENDS TicketLifecycle

=============================================================================
