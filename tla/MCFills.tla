------------------------------- MODULE MCFills -------------------------------
EXTENDS PaperFills

Low == 10000
MCPrices == {Low, 2 * Low, 3 * Low}
MCLevels == {Low, 3 * Low}
=============================================================================
