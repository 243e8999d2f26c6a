---------------------- MODULE MCCandidateQualification ----------------------
(* The system of MCRuntimeInspection; six RPMs, two of them OpenVINO's, and two *)
(* profile files.                                                               *)
EXTENDS CandidateQualification

CONSTANTS firmware, plugin, runtime, fwPackage, ovPackage, conflict, fwFile, ovFile, p1, p2,
          openvino, plugins, first, second

MCCapabilities == <<firmware, plugin, runtime>>
MCPackage == [c \in {firmware, plugin, runtime} |-> IF c = firmware THEN fwPackage ELSE ovPackage]
MCFiles == [c \in {firmware, plugin, runtime} |-> IF c = firmware THEN {fwFile} ELSE {ovFile}]
MCFamily == <<openvino, plugins>>
MCShelf == <<first, second>>
=============================================================================
