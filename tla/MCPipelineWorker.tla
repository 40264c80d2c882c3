--------------------------- MODULE MCPipelineWorker ---------------------------
EXTENDS PipelineWorker

CONSTANTS s1, c1, c2
=============================================================================
