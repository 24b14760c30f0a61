------------------------------ MODULE MCFolders ------------------------------
\* An instance of Folders for TLC.  The name n1 holds a wildcard: as a pattern
\* it matches n2 too.
EXTENDS Folders, TLC

CONSTANTS f1, f2, f3, n1, n2

MCSimilar  == {<<n1, n1>>, <<n2, n2>>, <<n1, n2>>}
MCSymmetry == Permutations(Folder)
=============================================================================
