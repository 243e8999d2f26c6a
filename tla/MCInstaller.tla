---------------------------- MODULE MCInstaller ----------------------------
\* Model-checking instances of Installer.
EXTENDS Installer

CONSTANTS firmware, driver, devel, library

\* The driver is older than the release, everything else is missing.
MCStart == [n \in Names |-> IF n = driver THEN 1 ELSE 0]
=============================================================================
