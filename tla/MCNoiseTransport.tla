-------------------------- MODULE MCNoiseTransport --------------------------
EXTENDS NoiseTransport
=============================================================================
