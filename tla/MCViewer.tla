------------------------------ MODULE MCViewer ------------------------------
EXTENDS Viewer

CONSTANTS l1, l2

MCLives == {l1, l2}
=============================================================================
