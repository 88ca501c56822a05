------------------------------ MODULE MCStream ------------------------------
(***************************************************************************)
(* Instances of Stream for TLC: the inputs each run considers.             *)
(***************************************************************************)
EXTENDS Stream

Core == [key |-> "core", meta |-> "none", bed |-> "none", fault |-> "none"]
Dependent(meta, bed, fault) ==
    [key |-> "dependent", meta |-> meta, bed |-> bed, fault |-> fault]

\* The syncframes of a program of audio frames, each with its frame's number.
Program(frames) ==
    FlattenSeq([k \in DOMAIN frames |->
        [i \in DOMAIN frames[k] |-> frames[k][i] @@ ("frame" :> k)]])

\* Audio frames: a core and a dependent substream that carries the metadata,
\* or a single substream.
Plain == <<Core>>
Joc(meta) == <<Core, Dependent(meta, "none", "none")>>
Bed(bed) == <<Core, Dependent("oamd", bed, "none")>>
Faulty(fault) == <<Core, Dependent("oamd", "none", fault)>>

\* Every position of the first bed declaration, and both kinds of it.
BedPrograms ==
    {<<Joc("joc"), Bed("only"), Joc("oamd")>>, <<Bed("only"), Joc("oamd"), Bed("mixed")>>,
     <<Bed("mixed"), Bed("only"), Plain>>, <<Plain, Bed("only"), Bed("mixed")>>}

\* A faulty frame anywhere among good ones, or none, and those.
FaultPrograms ==
    LET good == Joc("oamd")
        bad == {Faulty(f) : f \in {"header", "container", "oamd", "cross", "plan", "render"}}
    IN BedPrograms \cup {<<good, Plain, Joc("joc")>>} \cup {<<g, good>> : g \in bad}
       \cup {<<good, g, good>> : g \in bad}

\* Frames with metadata throughout.
PlainPrograms == {<<Joc("oamd"), Joc("joc"), Plain>>}

\* A runtime that renders frame by frame, fed with faults and beds, and one
\* that renders two frames at a time behind a FIFO.
Sofa ==
    [output |-> "sofa", inputs |-> {"eac3"}, programs |-> {Program(p) : p \in FaultPrograms},
     chunk |-> 1, latency |-> 1, tail |-> 2,
     maxPush |-> 3, maxFrames |-> 3, latePush |-> FALSE, maxFlush |-> 2, maxPass |-> 1]

Rosella ==
    [output |-> "rosella", inputs |-> {"eac3", "objects16"}, programs |-> {Program(p) : p \in PlainPrograms},
     chunk |-> 2, latency |-> 1, tail |-> 2,
     maxPush |-> 4, maxFrames |-> 4, latePush |-> TRUE, maxFlush |-> 2, maxPass |-> 2]

Speaker ==
    [output |-> "speaker", inputs |-> {"eac3"}, programs |-> {Program(p) : p \in PlainPrograms},
     chunk |-> 1, latency |-> 0, tail |-> 0,
     maxPush |-> 3, maxFrames |-> 3, latePush |-> FALSE, maxFlush |-> 1, maxPass |-> 1]

StreamSetups == {Sofa, Rosella, Speaker}

=============================================================================
