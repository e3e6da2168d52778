------------------------- MODULE MCOutboundWebhooks -------------------------
EXTENDS OutboundWebhooks

CONSTANTS h1, a1, a2
=============================================================================
