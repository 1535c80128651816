--------------------------- MODULE MCBrowserAuth ---------------------------
EXTENDS BrowserAuth
=============================================================================
