------------------------ MODULE MCAutomationSchedule ------------------------
EXTENDS AutomationSchedule, TLC

CONSTANTS s1, s2, m1

Symmetry == Permutations(Schedules)
=============================================================================
