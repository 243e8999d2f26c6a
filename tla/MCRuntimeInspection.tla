------------------------ MODULE MCRuntimeInspection ------------------------
(* Three components of which two share a package and its file, one conflict. *)
EXTENDS RuntimeInspection

CONSTANTS firmware, plugin, runtime, fwPackage, ovPackage, conflict, fwFile, ovFile, p1, p2

MCCapabilities == <<firmware, plugin, runtime>>
MCPackage == [c \in {firmware, plugin, runtime} |-> IF c = firmware THEN fwPackage ELSE ovPackage]
MCFiles == [c \in {firmware, plugin, runtime} |-> IF c = firmware THEN {fwFile} ELSE {ovFile}]
=============================================================================
