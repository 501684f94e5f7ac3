---------------------------- MODULE MCConsoleJobs ----------------------------
EXTENDS ConsoleJobs

CONSTANT lane

OneLane == [j \in Job |-> lane]
=============================================================================
