------------------------------- MODULE MCLive -------------------------------
EXTENDS LiveGate

S(code, enable, keys, token, public, exits) ==
    [live_code_enabled |-> code, enable_live_execution |-> enable, keys |-> keys,
     default_token |-> token, public |-> public, require_protected_exits |-> exits]

\* Two that can trade live, with and without protected exits; three that start without the SDK; and
\* one refusal for each check.
MCSettings ==
    {S(TRUE, TRUE, TRUE, FALSE, TRUE, FALSE), S(TRUE, TRUE, TRUE, FALSE, TRUE, TRUE),
     S(TRUE, FALSE, TRUE, TRUE, FALSE, FALSE), S(FALSE, FALSE, FALSE, FALSE, TRUE, TRUE),
     S(TRUE, FALSE, FALSE, FALSE, TRUE, TRUE),
     S(FALSE, TRUE, TRUE, FALSE, TRUE, FALSE), S(TRUE, TRUE, FALSE, FALSE, TRUE, FALSE),
     S(FALSE, FALSE, FALSE, TRUE, TRUE, TRUE), S(TRUE, TRUE, TRUE, TRUE, FALSE, FALSE)}
=============================================================================
