--------------------------- MODULE MCSyncPipeline ---------------------------
(* Instances of SyncPipeline for TLC. *)
EXTENDS SyncPipeline

CONSTANTS a, b, c,  \* paths
          s, t,     \* signatures
          h, k      \* contents

Rec(p, g) == [sig |-> g, hash |-> h, hist |-> p]

\* What a path may be to a sync: its record, by its signature, and its file, by
\* signature and content: gone, new, unchanged, rotten or edited.  A new file has
\* twins in the records of its signature, whose files may be there, gone, or
\* visited later.  (Files of signature t have one content.)
Kinds == << <<"none", "none", h>>, <<s, "none", h>>, <<"none", s, h>>, <<s, s, h>>,
            <<t, "none", h>>, <<"none", t, h>>, <<t, t, h>>, <<"none", s, k>>,
            <<s, s, k>>, <<s, t, h>>, <<t, s, h>>, <<t, s, k>> >>
RecordOf(p, i) == IF Kinds[i][1] = "none" THEN Absent ELSE Rec(p, Kinds[i][1])
FileOf(i) ==
    IF Kinds[i][2] = "none" THEN Absent ELSE [sig |-> Kinds[i][2], hash |-> Kinds[i][3]]

\* Paths are visited in any order and are told apart only by equality, so that
\* their kinds may be taken in ascending order.
Triples(n, f) ==
    {[old |-> [p \in {a, b, c} |-> RecordOf(p, i[p])],
      disk |-> [p \in {a, b, c} |-> FileOf(i[p])],
      faults |-> f] :
        i \in {j \in [{a, b, c} -> n] : j[a] <= j[b] /\ j[b] <= j[c]}}

\* Every kind with files that cannot be walked or read, and, for one content, the
\* same with statements that fail and a cancellation.
SyncWorlds == Triples(1 .. Len(Kinds), {"walk", "hash"}) \cup Triples(1 .. 4, {"hash", "db", "cancel"})

\* Two paths, one signature and one content, and a cancellation or nothing at all.
Pairs(f) ==
    [old : {o \in [{a, b} -> {Absent} \cup {Rec(p, s) : p \in {a, b}}] :
                \A p \in {a, b} : o[p] # Absent => o[p].hist = p},
     disk : [{a, b} -> {Absent, [sig |-> s, hash |-> h]}],
     faults : {f}]
CancelWorlds == Pairs({"cancel"})
CalmWorlds == Pairs({})
=============================================================================
