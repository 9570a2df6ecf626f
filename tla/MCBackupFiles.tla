---------------------------- MODULE MCBackupFiles ----------------------------
EXTENDS BackupFiles, TLC

Symmetry == Permutations(Good)

=============================================================================
