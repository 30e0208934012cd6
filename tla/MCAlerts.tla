------------------------------ MODULE MCAlerts ------------------------------
(* Small instances of Alerts: default rules for a file system that comes    *)
(* and goes and for the CPU, and rules a user makes.                        *)
EXTENDS Alerts

CONSTANTS cpu, fs, cpu_high, storage_full

Disk == [id \in {storage_full} |-> fs]
DiskOrder == <<storage_full>>
DiskAndCpu == [id \in {cpu_high, storage_full} |-> IF id = cpu_high THEN cpu ELSE fs]
DiskAndCpuOrder == <<storage_full, cpu_high>>

Edit(m, o, d, e) == [metric |-> m, op |-> o, duration_s |-> d, enabled |-> e]

\* Edits that create rules, retune them and switch them off.
Retunings == {Edit(fs, Keep, 1, TRUE), Edit(Keep, Keep, 3, FALSE)}
\* Edits that replace the condition.
Replacements == {Edit(cpu, Keep, 2, TRUE), Edit(fs, "below", Keep, TRUE)}

Steady == {1}
DiskComesAndGoes == {{}, {fs}}
BothMetrics == {{cpu, fs}}
\* Another broker or topic: nothing there yet, or messages left behind.
Elsewhere == {[id \in RuleIds |-> "none"], [id \in RuleIds |-> "firing"]}
=============================================================================
