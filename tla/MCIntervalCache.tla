-------------------------- MODULE MCIntervalCache --------------------------
EXTENDS IntervalCache, TLC
\* The rules and the exceptions; the zone, a third input, is read in the same way.
MCInputs == <<"rules", "exceptions">>
\* The readers do the same, and no property names one: they may be exchanged.
MCSymmetry == Permutations(Readers)
=============================================================================
