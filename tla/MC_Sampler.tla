----------------------------- MODULE MC_Sampler ------------------------------
\* Sampler on words of three bits, with the values of the constants in the
\* configurations.
EXTENDS Sampler
==============================================================================
