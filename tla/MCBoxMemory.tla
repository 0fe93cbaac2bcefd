----------------------------- MODULE MCBoxMemory -----------------------------
EXTENDS BoxMemory
MCProts == {{}, {"r", "w"}, {"r", "x"}, {"r", "w", "x"}}
MCProtsFew == {{"r", "w"}, {"r", "x"}}
=============================================================================
