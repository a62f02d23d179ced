---------------------------- MODULE MCUartReceive ----------------------------
EXTENDS UartReceive, TLC

\* No command is treated unlike another.
CommandSymmetry == Permutations(Commands)
=============================================================================
