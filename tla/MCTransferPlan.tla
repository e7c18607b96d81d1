---------------------------- MODULE MCTransferPlan ----------------------------
EXTENDS TransferPlan
=============================================================================
