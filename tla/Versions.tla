------------------------------ MODULE Versions ------------------------------
(***************************************************************************)
(* The chunks of one document, its chunks index, manifest and metadata     *)
(* under the Store's library calls: an upload with numbered chunks         *)
(* (upload.go), an upload with content addressed chunks and a manifest     *)
(* (store_incremental.go), AppendDocumentText (store.go), and what         *)
(* Reconcile (reconcile.go) says of the result.  One caller at a time; any *)
(* statement may fail.  AppendDocumentText is modelled without an embedder,*)
(* which would also merge chunks at the seam; texts have no headings, so   *)
(* that one section chunk, the whole text, covers the document.            *)
(***************************************************************************)
EXTENDS Integers, Sequences, FiniteSets, SequencesExt

CONSTANTS
    Contents,  \* what a chunk may hold; a content addressed chunk's name is its content
    Texts,     \* texts, as the chunks they are split into
    MaxCount,  \* bound: chunks of the document
    MaxFaults

ASSUME TextsAssumption == Texts \subseteq Seq(Contents) \ {<< >>}
ASSUME BoundsAssumption == MaxCount \in Nat /\ MaxFaults \in Nat /\ Contents \cap Nat = {}

VARIABLES
    chunks,    \* of each chunk ID, its content
    index,     \* the chunks index: a sequence of entries, << >> when there is none
    manifest,  \* the IDs of the manifest, << >> when there is none
    count,     \* ChunkCount of the metadata, -1 when there is none
    call,      \* the call under way
    faults,
    \* History.
    text,  \* what the calls so far were to store
    whole, \* nothing has failed so far, and content addressed chunks were distinct
    blind  \* the call under way could not list the chunks

versionsVars == <<chunks, index, manifest, count, call, faults, text, whole, blind>>

NoCall == [op |-> "none", at |-> "none", new |-> << >>, done |-> 0, start |-> 0, known |-> 0, base |-> << >>]

VersionsInit ==
    /\ chunks = << >> /\ index = << >> /\ manifest = << >> /\ count = -1
    /\ call = NoCall /\ faults = 0
    /\ text = << >> /\ whole = TRUE /\ blind = FALSE

-----------------------------------------------------------------------------
(* The statements of each call: which one follows. The chunks are written   *)
(* one by one.                                                              *)

PlainUpload == [chunk |-> "meta", meta |-> "index", index |-> "none"]
AtomicUpload == [chunk |-> "index", index |-> "manifest", manifest |-> "meta", meta |-> "none"]
AppendDocumentText ==
    [list |-> "chunk", chunk |-> "readindex", readindex |-> "index", index |-> "meta", meta |-> "none"]

Following == [plain |-> PlainUpload, atomic |-> AtomicUpload, append |-> AppendDocumentText]

Continued == [call EXCEPT !.at = Following[call.op][call.at]]
StatementFails == faults < MaxFaults /\ faults' = faults + 1

BeginCall(op, t) ==
    /\ call.at = "none"
    /\ call' = [NoCall EXCEPT !.op = op, !.at = IF op = "append" THEN "list" ELSE "chunk", !.new = t,
                              !.known = IF count < 0 THEN 0 ELSE count]
    /\ text' = text \o t
    /\ blind' = FALSE
    /\ UNCHANGED <<chunks, index, manifest, count, faults>>

(* The timestamp in a slug makes every upload one of a new document.        *)
BeginUpload(t) == text = << >> /\ BeginCall("plain", t) /\ UNCHANGED whole

BeginAtomicUpload(t) ==
    /\ text = << >> /\ BeginCall("atomic", t)
    /\ whole' = IsInjective(t)

BeginAppend(t) ==
    /\ count >= 0 /\ count + Len(t) <= MaxCount
    /\ BeginCall("append", t)
    /\ UNCHANGED whole

-----------------------------------------------------------------------------
ListChunkIDsFromMeta ==  \* mutant: new chunks are numbered from the metadata's count
    /\ call.at = "list"
    /\ call' = [Continued EXCEPT !.start = count]
    /\ UNCHANGED <<chunks, index, manifest, count, faults, text, whole, blind>>

(* AppendChunks numbers the new chunks from how many there are.             *)
ListChunkIDs ==
    /\ call.at = "list"
    /\ call' = [Continued EXCEPT !.start = Cardinality(DOMAIN chunks)]
    /\ UNCHANGED <<chunks, index, manifest, count, faults, text, whole, blind>>

(* It goes on from nothing when it cannot list them.                        *)
ListFails ==
    /\ call.at = "list" /\ StatementFails
    /\ call' = Continued
    /\ whole' = FALSE /\ blind' = TRUE
    /\ UNCHANGED <<chunks, index, manifest, count, text>>

ChunkID(i) == IF call.op = "atomic" THEN call.new[i] ELSE call.start + i - 1

WriteChunk ==
    /\ call.at = "chunk"
    /\ LET i == call.done + 1 IN
       /\ chunks' = [id \in DOMAIN chunks \cup {ChunkID(i)} |->
                        IF id = ChunkID(i) THEN call.new[i] ELSE chunks[id]]
       /\ call' = [(IF i = Len(call.new) THEN Continued ELSE call) EXCEPT !.done = i]
    /\ UNCHANGED <<index, manifest, count, faults, text, whole, blind>>

ReadIndex ==
    /\ call.at = "readindex"
    /\ call' = [Continued EXCEPT !.base = index]
    /\ UNCHANGED <<chunks, index, manifest, count, faults, text, whole, blind>>

(* An append that cannot read the old index starts it anew.                 *)
ReadIndexFails ==
    /\ call.at = "readindex" /\ StatementFails
    /\ call' = Continued
    /\ whole' = FALSE
    /\ UNCHANGED <<chunks, index, manifest, count, text, blind>>

(* The index numbers them from the metadata's count.                        *)
EntryIDFromZero(i) == IF call.op = "atomic" THEN call.new[i] ELSE i - 1  \* mutant
EntryID(i) == IF call.op = "atomic" THEN call.new[i] ELSE call.known + i - 1

WriteIndex ==
    /\ call.at = "index"
    /\ index' = call.base \o [i \in 1 .. Len(call.new) |-> [id |-> EntryID(i), of |-> call.new[i]]]
    /\ call' = Continued
    /\ UNCHANGED <<chunks, manifest, count, faults, text, whole, blind>>

WriteManifest ==
    /\ call.at = "manifest"
    /\ manifest' = call.new
    /\ call' = Continued
    /\ UNCHANGED <<chunks, index, count, faults, text, whole, blind>>

WriteMeta ==
    /\ call.at = "meta"
    /\ count' = call.known + Len(call.new)
    /\ call' = Continued
    /\ UNCHANGED <<chunks, index, manifest, faults, text, whole, blind>>

(* An upload goes on without index or manifest; everything else ends the    *)
(* call with an error.                                                      *)
WriteFails ==
    /\ call.at \in {"chunk", "index", "manifest", "meta"} /\ StatementFails
    /\ call' = IF call.at \in {"index", "manifest"} /\ call.op # "append"
               THEN Continued ELSE [call EXCEPT !.at = "none"]
    /\ whole' = FALSE
    /\ UNCHANGED <<chunks, index, manifest, count, text, blind>>

VersionsNext ==
    \/ \E t \in Texts : BeginUpload(t) \/ BeginAtomicUpload(t) \/ BeginAppend(t)
    \/ ListChunkIDs \/ ListFails \/ WriteChunk
    \/ ReadIndex \/ ReadIndexFails \/ WriteIndex \/ WriteManifest \/ WriteMeta \/ WriteFails

VersionsSpec == VersionsInit /\ [][VersionsNext]_versionsVars

-----------------------------------------------------------------------------
(* Reconcile: what it finds about a document that has a manifest.           *)

(* The chunk it is about, or none for the document.                         *)
Finding(severity, ids) == [severity |-> severity, ids |-> ids]
Indexed == {e.id : e \in ToSet(index)}

(* All names of chunks and sections must differ; that of a section of a     *)
(* single chunk is the chunk's.                                             *)
VerifyManifestIntegrity == IsInjective(manifest) /\ Len(manifest) # 1
ValidateManifest == IF VerifyManifestIntegrity THEN {} ELSE {Finding("error", {})}

(* A chunk's name is the hash of its content.                               *)
ValidateChunkFiles ==
    {Finding("error", {id}) : id \in {x \in ToSet(manifest) : x \notin DOMAIN chunks \/ chunks[x] # x}}
    \cup {Finding("warn", {id}) : id \in DOMAIN chunks \ ToSet(manifest)}

ValidateIndexEntriesOneWay ==  \* mutant: chunks that are not indexed go unnoticed
    IF index = << >> THEN {Finding("error", {})}
    ELSE {Finding("warn", {id}) : id \in Indexed \ ToSet(manifest)}

ValidateIndexEntries ==
    IF index = << >> THEN {Finding("error", {})}
    ELSE {Finding("warn", {id}) : id \in Indexed \ ToSet(manifest)}
         \cup {Finding("error", {id}) : id \in ToSet(manifest) \ Indexed}

Reconcile ==
    IF manifest = << >> THEN {}
    ELSE IF ValidateManifest # {} THEN ValidateManifest
    ELSE ValidateChunkFiles \cup ValidateIndexEntries

HasErrors(findings) == \E f \in findings : f.severity = "error"

-----------------------------------------------------------------------------
(* No call replaces a chunk by another one, whatever failed before: an      *)
(* append goes on behind the chunks a failed one left, unless it could not  *)
(* list them.                                                               *)
ChunksKept ==
    [][blind \/ \A id \in DOMAIN chunks : id \in DOMAIN chunks' /\ chunks'[id] = chunks[id]]_versionsVars

(* While nothing fails a document reads, entry by entry of its index, as    *)
(* what was uploaded and appended, each entry scored by the terms of the    *)
(* chunk it names.                                                          *)
ReadsBack ==
    whole /\ call.at = "none" =>
        /\ text = [i \in DOMAIN index |-> index[i].of]
        /\ \A e \in ToSet(index) : e.id \in DOMAIN chunks /\ chunks[e.id] = e.of
        /\ text # << >> => count = Len(text)

(* Reconcile reports an error of a listed document with a manifest exactly  *)
(* when a chunk it was uploaded with is missing, changed or not indexed     *)
(* once the upload has ended, or, falsely, when it was uploaded with one    *)
(* chunk alone or with one twice (a finding); what was appended gives       *)
(* warnings only.                                                           *)
ReconcileHonest ==
    call.at = "none" /\ count >= 0 /\ manifest # << >> =>
        (HasErrors(Reconcile)
           <=> \/ Len(manifest) = 1 \/ ~IsInjective(manifest)
               \/ \E c \in ToSet(manifest) :
                     [id |-> c, of |-> c] \notin ToSet(index) \/ <<c, c>> \notin {<<id, chunks[id]>> : id \in DOMAIN chunks})

(* An error means that required data is missing: what was uploaded and      *)
(* indexed without a failure is reconciled without one.                     *)
ErrorsMeanMissing ==
    whole /\ call.at = "none" => ~HasErrors(Reconcile)
=============================================================================
