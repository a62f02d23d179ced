------------------------------ MODULE MCTxQueue ------------------------------
EXTENDS TxQueue
=============================================================================
