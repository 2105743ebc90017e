------------------------------ MODULE MCBackup ------------------------------
EXTENDS Backup, TLC

TaskSymmetry == Permutations(Tasks)

Budget(w, b, o, m) == [writes |-> w, backups |-> b, others |-> o, mishaps |-> m]

\* Two backups at once, with a crash, a failure or another clock; two backups of which one is
\* deleted or restored; one backup and a recovery after the data were lost.
MCBudgets == {Budget(1, 2, 0, 1), Budget(1, 2, 1, 0), Budget(3, 1, 1, 1)}

=============================================================================
