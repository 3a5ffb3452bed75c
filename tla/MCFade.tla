------------------------------- MODULE MCFade -------------------------------
EXTENDS LiquidationFade

P(liquidation, buy, usd) == [liquidation |-> liquidation, buy |-> buy, usd |-> usd]

\* Forced and free trades of both sides in every shape the parser knows.
AllShapes ==
    {P("dict", FALSE, 2), P("string", TRUE, 1), P("false", FALSE, 1),
     P("garbled", TRUE, 1), P("absent", TRUE, 2)}
Plain == {P("dict", FALSE, 1), P("absent", TRUE, 1)}
=============================================================================
