------------------------------ MODULE MCAppFsm ------------------------------
EXTENDS AppFsm
=============================================================================
