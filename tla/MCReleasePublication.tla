------------------------ MODULE MCReleasePublication ------------------------
\* Model-checking instances of ReleasePublication.
EXTENDS ReleasePublication

\* One byte per version, so two versions fill a site of two bytes.
MCSize == [v \in Versions |-> 1]
=============================================================================
