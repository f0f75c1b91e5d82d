------------------------------- MODULE MCDeps -------------------------------
(* Instances of the dependency catalog for TLC. *)
EXTENDS TrlDeps

MCStreams == 1..3

\* Lists of at most two different inputs.
MCLists == {<< >>} \cup {<<m>> : m \in Streams}
           \cup {s \in Streams \X Streams : s[1] # s[2]}

\* A stream that is its own input behind others, a cycle of two with a dependent,
\* a cycle of all.
MCGraphs == {<< <<2>>, <<2>>, <<1>> >>, << <<2>>, <<1>>, <<1, 2>> >>, << <<2>>, <<3>>, <<1>> >>}
=============================================================================
