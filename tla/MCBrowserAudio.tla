--------------------------- MODULE MCBrowserAudio ---------------------------
EXTENDS BrowserAudio, TLC

CONSTANTS l1, l2
=============================================================================
