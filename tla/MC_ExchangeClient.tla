------------------------- MODULE MC_ExchangeClient -------------------------
\* A small instance of ExchangeClient.
EXTENDS ExchangeClient

CONSTANTS r1, dry

OneAndDry == {r1, dry}
One == {r1}
=============================================================================
