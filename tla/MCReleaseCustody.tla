-------------------------- MODULE MCReleaseCustody --------------------------
(* A release with any one flaw, or none, whose site is within its budget    *)
(* once signed to the byte, or one byte over.                               *)
EXTENDS ReleaseCustody

MCFlaws == {"dispatch", "archive", "inputs", "profile", "key", "package", "binding", "evidence",
            "drift", "literals", "notes", "install", "lax", "repository"}
MCSizes == {3, 4}
MCSignatureSizes == {1, 2, 3}
=============================================================================
