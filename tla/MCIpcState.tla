----------------------------- MODULE MCIpcState -----------------------------
EXTENDS IpcState, TLC
=============================================================================
