------------------------------ MODULE MCSessions -------------------------------
EXTENDS Sessions
===============================================================================
