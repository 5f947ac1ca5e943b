-------------------------- MODULE MCBrowserProxy --------------------------
EXTENDS BrowserProxy, TLC
=============================================================================
