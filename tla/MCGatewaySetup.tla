--------------------------- MODULE MCGatewaySetup ---------------------------
\* A gateway in operation that only updates, and a card that is written,
\* installed, updated and written again.
EXTENDS GatewaySetup

CONSTANTS a, b

MCDevices == {a, b}
MCRunners == {<<a, "update">>, <<b, "firstboot">>, <<b, "update">>}

=============================================================================
