----------------------- MODULE MCPaperTrading -----------------------
EXTENDS PaperTrading, MCInstances

=============================================================================
