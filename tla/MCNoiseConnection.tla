-------------------------- MODULE MCNoiseConnection --------------------------
EXTENDS NoiseConnection
=============================================================================
