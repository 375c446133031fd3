------------------------------ MODULE MCSearch ------------------------------
EXTENDS Search
CONSTANTS a, b
MCChunks == {<<a, 0>>, <<a, 1>>, <<b, 0>>}
=============================================================================
