--------------------------- MODULE MCLlamaBackend ---------------------------
EXTENDS LlamaBackend, TLC
=============================================================================
