--------------------------- MODULE MCAutoUpload ---------------------------
EXTENDS AutoUpload

CONSTANTS plain, combo, other

MCCtx == {plain, combo, other}
MCMaxComboCtx == {combo}
MCDelays == {0, 2}
===========================================================================
