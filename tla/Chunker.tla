------------------------------- MODULE Chunker -------------------------------
(***************************************************************************)
(* A text cut into chunks and sections (chunker.go): paragraphs, of which  *)
(* short ones join the one before; long ones cut at sentence ends;         *)
(* fragments joined again; each chunk prefixed by the tail of the one      *)
(* before; chunks grouped by heading; neighbours with similar vectors      *)
(* merged.  The parameters are read wherever they are needed, and          *)
(* SetChunkParams may change them in between.                              *)
(*                                                                         *)
(* A text is its runes by number; a content is a sequence of them, with 0  *)
(* for each rune of a separator.  Page numbers and roles are left out.     *)
(***************************************************************************)
EXTENDS Integers, SequencesExt, FiniteSetsExt

CONSTANTS
    Sources,  \* texts: each paragraph's last rune, their headings and the sentence ends
    Params,   \* what SetChunkParams may set
    MaxChanges,
    NoHeading

(* A text that is cut is not empty, nor is any of its paragraphs.           *)
ASSUME SourcesAssumption ==
    \A s \in Sources :
        /\ s.last \in Seq(Nat \ {0}) /\ s.last # << >>
        /\ \A k \in 2 .. Len(s.last) : s.last[k - 1] < s.last[k]
        /\ s.ends \subseteq Nat \ {0}

ASSUME ParamsAssumption ==
    Params \subseteq [short : Nat, long : Nat, fragment : Nat, overlap : Nat]

VARIABLES
    source,     \* the text
    params, changes,
    stage,
    todo,       \* what the stage has still to take
    taken,      \* of the paragraph that is cut: where its last sentence taken ends
    buf,        \* sentences that have no chunk yet
    longTail,   \* the previous chunk was found longer than its overlap
    fine,       \* the fine chunks: content, section and number of their first paragraph
    coarse      \* the section chunks: heading and runes

chunkerVars == <<source, params, changes, stage, todo, taken, buf, longTail, fine, coarse>>

Total == Last(source.last)

(* The headings in force at each paragraph: the nearest at or before it.    *)
SectionAt(k) ==
    LET at == {j \in 1 .. k : source.headings[j] # NoHeading} IN
    IF at = {} THEN NoHeading ELSE source.headings[Max(at)]

SplitParagraphs ==
    [k \in DOMAIN source.last |->
        LET before == IF k = 1 THEN 0 ELSE source.last[k - 1] IN
        [content |-> [i \in 1 .. source.last[k] - before |-> before + i], at |-> k]]

ChunkerInit ==
    /\ source \in Sources
    /\ params \in Params /\ changes = 0
    /\ stage = "merge" /\ todo = SplitParagraphs
    /\ taken = 0 /\ buf = << >> /\ longTail = FALSE
    /\ fine = << >> /\ coarse = << >>

Break == <<0, 0>>

(* The content joins the last chunk.                                        *)
Joined(content) == [fine EXCEPT ![Len(fine)].content = @ \o Break \o content]

MergeShort ==
    /\ stage = "merge" /\ todo # << >>
    /\ fine' = IF fine # << >> /\ Len(Head(todo).content) < params.short
                 THEN Joined(Head(todo).content) ELSE Append(fine, Head(todo))
    /\ todo' = Tail(todo)
    /\ UNCHANGED <<source, params, changes, stage, taken, buf, longTail, coarse>>

NextStage == [merge |-> "split", split |-> "fragments", fragments |-> "overlap"]

(* The chunks of one stage are the input of the next; the first has nothing *)
(* before it to overlap.                                                    *)
StageEnds ==
    /\ stage \in DOMAIN NextStage /\ todo = << >>
    /\ stage' = NextStage[stage]
    /\ IF stage = "fragments" THEN fine' = <<Head(fine)>> /\ todo' = Tail(fine)
       ELSE fine' = << >> /\ todo' = fine
    /\ UNCHANGED <<source, params, changes, taken, buf, longTail, coarse>>

-----------------------------------------------------------------------------
(* Long paragraphs.                                                         *)

SentenceEnds(content) == {i \in DOMAIN content : content[i] \in source.ends}
CutsAtEnds(content) ==  \* mutant: what follows the last sentence end is forgotten
    SentenceEnds(content)
Cuts(content) == SentenceEnds(content) \cup {Len(content)}

(* The sentence that follows, up to its cut: it begins with a rune and, as  *)
(* every paragraph does, ends with one.                                     *)
Sentence(content, cut) ==
    SubSeq(content, Min({i \in taken + 1 .. cut : content[i] # 0}), cut)

Chunk(content) == [content |-> content, at |-> Head(todo).at]

KeepParagraph ==
    /\ stage = "split" /\ todo # << >> /\ taken = 0
    /\ Len(Head(todo).content) <= params.long \/ Cardinality(Cuts(Head(todo).content)) <= 1
    /\ fine' = Append(fine, Head(todo)) /\ todo' = Tail(todo)
    /\ UNCHANGED <<source, params, changes, stage, taken, buf, longTail, coarse>>

(* The step that finds the paragraph long takes its first sentence, too.    *)
AddSentence ==
    /\ stage = "split" /\ todo # << >>
    /\ LET content == Head(todo).content
           next == {i \in Cuts(content) : i > taken}
           s == Sentence(content, Min(next))
       IN /\ next # {}
          /\ taken = 0 => Len(content) > params.long /\ Cardinality(Cuts(content)) > 1
          /\ taken' = Min(next)
          /\ IF buf # << >> /\ Len(buf) + Len(s) > params.long
             THEN fine' = Append(fine, Chunk(buf)) /\ buf' = s
             ELSE buf' = (IF buf = << >> THEN s ELSE buf \o <<0>> \o s) /\ UNCHANGED fine
    /\ UNCHANGED <<source, params, changes, stage, todo, longTail, coarse>>

LastSentence ==
    /\ buf # << >> /\ \A i \in Cuts(Head(todo).content) : i <= taken
    /\ fine' = Append(fine, Chunk(buf)) /\ buf' = << >>
    /\ taken' = 0 /\ todo' = Tail(todo)
    /\ UNCHANGED <<source, params, changes, stage, longTail, coarse>>

MergeFragments ==
    /\ stage = "fragments" /\ todo # << >>
    /\ fine' = IF fine # << >> /\ Len(Head(todo).content) < params.fragment
                 THEN Joined(Head(todo).content) ELSE Append(fine, Head(todo))
    /\ todo' = Tail(todo)
    /\ UNCHANGED <<source, params, changes, stage, taken, buf, longTail, coarse>>

-----------------------------------------------------------------------------
(* Overlap: its size is read once to compare and once to cut.               *)

Previous == Last(fine).content

Overlapped(start) ==
    LET tail == SubSeq(Previous, start + 1, Len(Previous))
        c == Head(todo)
    IN /\ fine' = Append(fine, IF tail = << >> THEN c ELSE [c EXCEPT !.content = tail \o Break \o @])
       /\ todo' = Tail(todo)

MeasureTail ==
    /\ stage = "overlap" /\ todo # << >> /\ ~longTail
    /\ IF Len(Previous) > params.overlap
       THEN longTail' = TRUE /\ UNCHANGED <<fine, todo>>
       ELSE Overlapped(0) /\ UNCHANGED longTail
    /\ UNCHANGED <<source, params, changes, stage, taken, buf, coarse>>

TakeTail ==
    /\ longTail /\ longTail' = FALSE
    /\ LET start == Len(Previous) - params.overlap
           ends == {i \in SentenceEnds(Previous) : i > start}
       IN IF start < 0
          THEN stage' = "panicked" /\ UNCHANGED <<fine, todo>>
          ELSE Overlapped(IF ends = {} THEN start ELSE Min(ends)) /\ UNCHANGED stage
    /\ UNCHANGED <<source, params, changes, taken, buf, coarse>>

-----------------------------------------------------------------------------
(* Sections, in the order of their first chunks.                            *)

SectionOf(c) == SectionAt(c.at)
Kth(S, k) == CHOOSE x \in S : Cardinality({y \in S : y <= x}) = k
HeadingsInOrder ==
    LET firsts == {i \in DOMAIN fine : \A j \in 1 .. i - 1 : SectionOf(fine[j]) # SectionOf(fine[i])}
    IN [k \in 1 .. Cardinality(firsts) |-> SectionOf(fine[Kth(firsts, k)])]

(* The number of the section a chunk is linked to.                          *)
SectionID(c) == CHOOSE k \in DOMAIN HeadingsInOrder : HeadingsInOrder[k] = SectionOf(c)

RunesOf(chunks) == UNION {ToSet(c.content) : c \in chunks}

(* A section's content is that of its chunks, in their order.               *)
GroupBySection ==
    /\ stage = "overlap" /\ todo = << >>
    /\ coarse' = [k \in DOMAIN HeadingsInOrder |->
          [heading |-> HeadingsInOrder[k],
           runes |-> RunesOf({c \in ToSet(fine) : SectionOf(c) = HeadingsInOrder[k]})]]
    /\ todo' = [i \in DOMAIN fine |->
          [content |-> fine[i].content, at |-> fine[i].at, id |-> SectionID(fine[i])]]
    /\ fine' = << >>
    /\ stage' = "semantic"
    /\ UNCHANGED <<source, params, changes, taken, buf, longTail>>

(* A chunk joins the one before if their vectors are similar; without       *)
(* vectors none does.                                                       *)
MergeSemanticNeighbors ==
    /\ stage = "semantic" /\ todo # << >>
    /\ \/ fine' = Append(fine, Head(todo))
       \/ fine # << >> /\ fine' = Joined(Head(todo).content)
    /\ todo' = Tail(todo)
    /\ UNCHANGED <<source, params, changes, stage, taken, buf, longTail, coarse>>

SetChunkParams ==
    /\ changes < MaxChanges /\ changes' = changes + 1
    /\ stage \in DOMAIN NextStage \cup {"overlap"}
    /\ \E p \in Params \ {params} : params' = p
    /\ UNCHANGED <<source, stage, todo, taken, buf, longTail, fine, coarse>>

ChunkerNext ==
    \/ MergeShort \/ StageEnds
    \/ KeepParagraph \/ AddSentence \/ LastSentence
    \/ MergeFragments
    \/ MeasureTail \/ TakeTail
    \/ GroupBySection \/ MergeSemanticNeighbors
    \/ SetChunkParams

ChunkerSpec == ChunkerInit /\ [][ChunkerNext]_chunkerVars

-----------------------------------------------------------------------------
(* Properties.                                                              *)

Chunked == stage = "semantic" /\ todo = << >>

(* The section that a chunk is linked to, by which a coarse search finds    *)
(* it, exists, has the chunk's heading and holds the text the chunk starts  *)
(* with up to its paragraph's; every rune is in a section.                  *)
SectionsHoldText ==
    /\ (UNION {coarse[k].runes : k \in DOMAIN coarse}) \ {0} = 1 .. Total
    /\ \A i \in DOMAIN fine :
          /\ fine[i].id \in DOMAIN coarse
          /\ coarse[fine[i].id].heading = SectionAt(fine[i].at)
          /\ Head(fine[i].content) \in coarse[fine[i].id].runes

(* What a reader of the chunks has read before a place of one of them.      *)
ReadBefore(chunks, i, j) ==
    RunesOf({chunks[k] : k \in 1 .. i - 1}) \cup {chunks[i].content[k] : k \in 1 .. j - 1}

Tells(chunks, n) ==
    /\ RunesOf(ToSet(chunks)) \ {0} = 1 .. n
    /\ \A i \in DOMAIN chunks : \A j \in DOMAIN chunks[i].content :
          chunks[i].content[j] > 1 => chunks[i].content[j] - 1 \in ReadBefore(chunks, i, j)

(* Read one after the other, the chunks tell the text: every rune of it is  *)
(* there, and new runes come in order, only after all those before them,    *)
(* whatever is joined, cut, overlapped or merged, and whenever the          *)
(* parameters change; and the sections hold it as well.                     *)
TextIsCovered == Chunked => SectionsHoldText /\ Tells(fine, Total)

(* SetChunkParams is "safe for concurrent use" (chunker.go:90): a text that *)
(* is cut meanwhile comes to an end.                                        *)
SafeForConcurrentUse == stage # "panicked"
==============================================================================
