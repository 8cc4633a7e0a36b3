---- MODULE MCDiscovery ----
EXTENDS Discovery

\* A channel that may be renamed or change its discovery payload in the app.
MCShapes == [name : Names, look : Looks]
MCInstalled == [e \in Entities |-> CHOOSE s \in MCShapes : TRUE]
====
