--------------------------- MODULE MCParsePipeline ---------------------------
(* Instances for TLC of the way of a document into the database, one part  *)
(* at a time: its collection (two collectors, of whom the second may use   *)
(* the same output directory or another), the parsing of the corpus (two   *)
(* operator processes, two documents), and one long document in chunks.    *)
EXTENDS ParsePipeline, CorpusCollection, LongDocument, TLC

CONSTANTS p1, p2, d1, d2, c1, c2, same, other

MCPipes == {p1, p2}
MCDocs == {d1, d2}
MCSymmetry == Permutations(MCPipes) \cup Permutations(MCDocs) \cup Permutations({c1, c2})

MCContents == {"table", "text", "empty"}
MCPagesOf == [b \in MCContents |-> CASE b = "table" -> 3 [] b = "text" -> 2 [] OTHER -> 0]
About(sector, stratum, redistribution) ==
    [sector |-> sector, stratum |-> stratum, organization |-> sector, family |-> sector,
     sourced |-> TRUE, redistribution |-> redistribution]
MCAbouts == {About("corporate", "table_heavy", "redistributable"),
             About("public", "text_heavy", "redistributable"),
             About("public", "text_heavy", "unknown")}
MCNamePairs == {<<"f1", "f2">>, <<"f2", "f3">>}
MCTargets == [documents |-> 2..3, pages |-> 4..5, organizationShare |-> 50, familyShare |-> 50]

MCSyncPages == [standard |-> 3, enhanced |-> 2]

VARIABLE part   \* which of the three this behaviour is about


MCInit ==
    /\ Init /\ CorpusInit
    /\ \/ part \in {"collect", "parse"} /\ long = NoLong
       \/ part = "long" /\ LongInit

MCNext ==
    /\ UNCHANGED part
    /\ \/ part = "parse" /\ Next /\ UNCHANGED <<corpus, long>>
       \/ part = "collect" /\ CorpusNext /\ UNCHANGED <<vars, long>>
       \/ part = "long" /\ LongNext /\ UNCHANGED <<vars, corpus>>

MCSpec == MCInit /\ [][MCNext]_<<vars, corpus, long, part>>
==============================================================================
