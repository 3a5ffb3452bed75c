--------------------------- MODULE MCPaperAccount ---------------------------
EXTENDS PaperAccount, MCInstances

=============================================================================
