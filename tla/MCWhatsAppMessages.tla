------------------------- MODULE MCWhatsAppMessages -------------------------
EXTENDS WhatsAppMessages, TLC

CONSTANTS r1, r2, w1, w2, k1, k2

(* Two reports that contradict each other when they are handled at once.    *)
TwoReports == (k1 :> "read") @@ (k2 :> "failed")
=============================================================================
