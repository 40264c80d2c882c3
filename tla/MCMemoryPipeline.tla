--------------------------- MODULE MCMemoryPipeline ---------------------------
EXTENDS MemoryPipeline

CONSTANT s1

MCRowsOf == <<2, 1, 2>>
=============================================================================
