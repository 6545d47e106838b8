------------------------------ MODULE MCLibrary ------------------------------
(***************************************************************************)
(* The parts of the library that share no state with the others: each      *)
(* behaviour is one of a single part, the others at rest.                  *)
(***************************************************************************)
EXTENDS Versions, TaskRecord, MemCache, Chunker

CONSTANTS w1, w2, w3, k1, k2, h1, h2, MaxRunes

MCTexts == {<<w1>>, <<w2, w3>>, <<w1, w1>>, <<w1, w2>>}
MCPatterns == {{k} : k \in Keys} \cup {{k1, k2}, Keys}

(* One to three paragraphs of MaxRunes runes at most, without headings, with *)
(* one, or with one that comes twice; any rune may end a sentence.           *)
Lasts == {l \in UNION {[1 .. k -> 1 .. MaxRunes] : k \in 1 .. 3} : \A k \in 2 .. Len(l) : l[k - 1] < l[k]}
Headings == {<<NoHeading, NoHeading, NoHeading>>, <<NoHeading, h1, NoHeading>>, <<h1, h2, h1>>}
MCSources ==
    UNION {{[last |-> l, headings |-> SubSeq(h, 1, Len(l)), ends |-> e] :
               h \in Headings, e \in SUBSET (1 .. Last(l))} : l \in Lasts}

(* The second makes every size larger but the fragments', which no call sets. *)
MCParams == {[short |-> 2, long |-> 4, fragment |-> 2, overlap |-> 2],
             [short |-> 3, long |-> 5, fragment |-> 2, overlap |-> 4]}

VARIABLE part

vars == <<part, versionsVars, recordVars, memVars, chunkerVars>>

LibraryInit ==
    /\ part \in {"versions", "record", "cache", "chunker"}
    /\ VersionsInit /\ NewTaskRecord /\ MemInit /\ ChunkerInit
    /\ part # "record" => maxAttempts = 0
    /\ part # "chunker" =>
          params.short = 2 /\ source = [last |-> <<1>>, headings |-> <<NoHeading>>, ends |-> {}]

LibraryNext ==
    /\ UNCHANGED part
    /\ \/ part = "versions" /\ VersionsNext /\ UNCHANGED <<recordVars, memVars, chunkerVars>>
       \/ part = "record" /\ RecordNext /\ UNCHANGED <<versionsVars, memVars, chunkerVars>>
       \/ part = "cache" /\ MemNext /\ UNCHANGED <<versionsVars, recordVars, chunkerVars>>
       \/ part = "chunker" /\ ChunkerNext /\ UNCHANGED <<versionsVars, recordVars, memVars>>

LibrarySpec == LibraryInit /\ [][LibraryNext]_vars
=============================================================================
