---------------------------- MODULE MCLiveView ----------------------------
EXTENDS LiveView
=============================================================================
