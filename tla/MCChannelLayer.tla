-------------------------- MODULE MCChannelLayer ---------------------------
EXTENDS ChannelLayer
=============================================================================
