-------------------------- MODULE MCDesktopCore --------------------------
EXTENDS DesktopCore, TLC
===========================================================================
