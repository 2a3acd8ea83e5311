--------------------------- MODULE MC_StateStore ---------------------------
(* Instantiation of StateStore for TLC.                                    *)
EXTENDS StateStore

\* Lengths of a string field that fit the int16 sizeof field, and one that
\* does not (an AllowedSpoofingPrefixes annotation of 40000 bytes).
ShortLengths == {0, 63}
LongLengths == {63, 40000}

=============================================================================
