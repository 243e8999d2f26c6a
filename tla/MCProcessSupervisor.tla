------------------------ MODULE MCProcessSupervisor ------------------------
\* Model-checking instances of ProcessSupervisor.
EXTENDS ProcessSupervisor

\* stdout may overflow its limit, stderr keeps nothing at all.
MCLimit == [s \in Streams |-> IF s = "stdout" THEN 1 ELSE 0]
=============================================================================
