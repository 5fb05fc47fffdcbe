--------------------------- MODULE MCInputDevices ---------------------------
EXTENDS InputDevices
=============================================================================
