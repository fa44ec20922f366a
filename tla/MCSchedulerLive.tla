-------------------------- MODULE MCSchedulerLive --------------------------
EXTENDS Scheduler
CONSTANTS c1
MCCPUs == {c1}
=============================================================================
