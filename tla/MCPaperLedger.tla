----------------------- MODULE MCPaperLedger -----------------------
EXTENDS PaperLedger, MCInstances

=============================================================================
