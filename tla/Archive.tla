------------------------------- MODULE Archive -------------------------------
(***************************************************************************)
(* Whole knowledge bases: the export of one as an archive, the import of   *)
(* an archive (manage/handlers_enhanced.go), and the deletion of one       *)
(* (kb/engine.go), statement by statement on the MySQL backend beside the  *)
(* uploads and removals of Documents.  None of them takes Store.mu.        *)
(*                                                                         *)
(* Manifests, task records and list snapshots, which only an import of an  *)
(* archive holding some would write, are left out: nothing else in the     *)
(* running server writes them.                                             *)
(***************************************************************************)
EXTENDS Documents

CONSTANTS
    Orders,    \* of each deployment, what the administrator may ask, as <<job,
               \* knowledge base>>
    MaxOrders  \* bound: how often he may ask

ASSUME OrdersAssumption ==
    /\ Orders \in [Deployments -> SUBSET ({"export", "import", "delete"} \X (KBs \ {Base}))]
    /\ MaxOrders \in Nat

VARIABLES
    kbRow,  \* of each knowledge base its row: absent, there, there with an INDEX.md
    zip,    \* the archive last downloaded
    admin,  \* the request the administrator waits for
    orders, \* how many he has made
    \* History.
    restored, \* <<knowledge base, document>> a clean import brought back whole
    torn,     \* documents that may have lost their chunks alone: one read or write has
              \* failed, or their knowledge base was deleted under their upload
    gone,     \* knowledge bases whose deletion was answered, clean
    lost      \* documents uploaded for a knowledge base that was then deleted or
              \* imported into

archiveVars == <<kbRow, zip, admin, orders, restored, torn, gone, lost>>
allVars == <<vars, archiveVars>>

NoEntries == [t \in Tables |-> {}]
NoArchive == [ready |-> FALSE, files |-> {}, entries |-> NoEntries, whole |-> {}]

(* at: the next step; left: the documents not begun yet; doc: the one at    *)
(* work; clean: nobody else was active and nothing failed so far.           *)
AtRest == [job |-> "none", kb |-> Base, at |-> "none", left |-> {}, doc |-> "none", clean |-> TRUE]

ArchiveInit ==
    /\ Init
    /\ kbRow = [k \in KBs |-> IF k = Base THEN "absent" ELSE "there"]
    /\ zip = NoArchive /\ admin = AtRest /\ orders = 0
    /\ restored = {} /\ torn = {} /\ gone = {} /\ lost = {}

-----------------------------------------------------------------------------
(* The steps of each request, and which one follows; "next" takes up the    *)
(* next document.                                                           *)

KBWide == [list |-> "index", create |-> "index", index |-> "postings", postings |-> "next"]

PerDocument ==
    [next |-> "documents", documents |-> "chunks", chunks |-> "sections", sections |-> "chunks_index",
     chunks_index |-> "raw", raw |-> "source", source |-> "next"]
RawBeforeRow ==  \* mutant: the raw text comes first
    [next |-> "raw", raw |-> "documents", documents |-> "chunks", chunks |-> "sections",
     sections |-> "chunks_index", chunks_index |-> "source", source |-> "next"]
IndexBeforeChunks ==  \* mutant
    [next |-> "documents", documents |-> "chunks_index", chunks_index |-> "chunks", chunks |-> "sections",
     sections |-> "raw", raw |-> "source", source |-> "next"]
ImportPerDocument == PerDocument
ExportPerDocument == PerDocument

DeletionWithoutPostings ==  \* mutant
    [begin |-> "chunks_index", chunks_index |-> "sections", sections |-> "chunks",
     chunks |-> "documents", documents |-> "row"]
Deletion ==
    [begin |-> "postings", postings |-> "chunks_index", chunks_index |-> "sections",
     sections |-> "chunks", chunks |-> "documents", documents |-> "row"]

After(step) ==
    CASE admin.job = "delete" -> Deletion[step]
      [] admin.job # "delete" /\ step \in DOMAIN KBWide -> KBWide[step]
      [] admin.job = "export" /\ step \in DOMAIN ExportPerDocument -> ExportPerDocument[step]
      [] admin.job = "import" /\ step \in DOMAIN ImportPerDocument -> ImportPerDocument[step]

Quiet == \A p \in Procs : at[p] = "idle"
Doing(job, step) == admin.job = job /\ admin.at = step
Done == [admin EXCEPT !.at = After(@)]
Unclean(a) == [a EXCEPT !.clean = FALSE]

Order(job, k, left, first) ==
    /\ admin = AtRest /\ <<job, k>> \in Orders[deployment]
    /\ orders < MaxOrders /\ orders' = orders + 1
    /\ admin' = [AtRest EXCEPT !.job = job, !.kb = k, !.left = left, !.at = first, !.clean = Quiet]
    /\ UNCHANGED vars

(* The next document, in any order: import goes through a map.              *)
NextDocument ==
    /\ admin.at = "next"
    /\ \E d \in admin.left : admin' = [Done EXCEPT !.left = @ \ {d}, !.doc = d]
    /\ UNCHANGED <<vars, kbRow, zip, restored, torn, gone, lost, orders>>

-----------------------------------------------------------------------------
(* Export: every file that can be read goes into the archive.               *)

BeginExport(k) ==
    /\ kbRow[k] # "absent"  \* else 404
    /\ Order("export", k, {}, "list")
    /\ zip' = NoArchive
    /\ UNCHANGED <<kbRow, restored, torn, gone, lost>>

ListSlugs ==
    /\ Doing("export", "list")
    /\ admin' = [Done EXCEPT !.left = Entries("documents", admin.kb)]
    /\ UNCHANGED <<vars, kbRow, zip, restored, torn, gone, lost, orders>>

ListFails ==
    /\ Doing("export", "list") /\ Fault("read")
    /\ admin' = AtRest
    /\ UNCHANGED <<database, engines, mu, at, locals, deployment, history,
                   kbRow, zip, restored, torn, gone, lost, orders>>

(* An INDEX.md that was never written is left out.                          *)
TakeWide(t) ==
    /\ Doing("export", t) /\ t \in DOMAIN KBWide
    /\ zip' = IF t = "index" /\ kbRow[admin.kb] # "indexed" THEN zip
              ELSE [zip EXCEPT !.files = @ \cup {t}, !.entries[t] = Entries(t, admin.kb)]
    /\ admin' = Done
    /\ UNCHANGED <<vars, kbRow, restored, torn, gone, lost, orders>>

TakeOne(t) ==
    /\ Doing("export", t) /\ t \notin DOMAIN KBWide
    /\ zip' = [zip EXCEPT !.entries[t] = @ \cup ({admin.doc} \cap Entries(t, admin.kb))]
    /\ admin' = Done
    /\ UNCHANGED <<vars, kbRow, restored, torn, gone, lost, orders>>

(* Whatever cannot be read is missing from the archive.                     *)
TakeFails(t) ==
    /\ Doing("export", t) /\ Fault("read")
    /\ admin' = Unclean(Done)
    /\ torn' = IF t = "chunks" THEN torn \cup {admin.doc} ELSE torn
    /\ UNCHANGED <<database, engines, mu, at, locals, deployment, history,
                   kbRow, zip, restored, gone, lost, orders>>

(* Only a download that came to its end can be opened again.                *)
Downloaded ==
    /\ Doing("export", "next") /\ admin.left = {}
    /\ zip' = [zip EXCEPT !.ready = TRUE,
                          !.whole = IF admin.clean THEN {d \in uploaded \ (removing \cup lost) : home[d] = admin.kb}
                                    ELSE {}]
    /\ admin' = AtRest
    /\ UNCHANGED <<vars, kbRow, restored, torn, gone, lost, orders>>

-----------------------------------------------------------------------------
(* Import: a directory with a meta.json is a document.                      *)

Of(k) == {k} \X Docs
UploadedFor(k) == {d \in Docs : home[d] = k}

BeginImport(k) ==
    /\ zip.ready
    /\ Order("import", k, zip.entries["documents"], "create")
    /\ restored' = restored \ Of(k) /\ gone' = gone \ {k}
    /\ lost' = lost \cup (UploadedFor(k) \ zip.whole)
    /\ UNCHANGED <<kbRow, zip, torn>>

CreateRow ==
    /\ Doing("import", "create")
    /\ kbRow' = [kbRow EXCEPT ![admin.kb] = IF @ = "absent" THEN "there" ELSE @]
    /\ admin' = Done
    /\ UNCHANGED <<vars, zip, restored, torn, gone, lost, orders>>

(* INDEX.md and the inverted index of the archive replace what is there.    *)
PutWide(t) ==
    /\ Doing("import", t) /\ t \in DOMAIN KBWide
    /\ IF t \in zip.files
       THEN /\ Overwrite(t, admin.kb, zip.entries[t])
            /\ kbRow' = IF t = "index" THEN [kbRow EXCEPT ![admin.kb] = "indexed"] ELSE kbRow
       ELSE UNCHANGED <<rows, kbRow>>
    /\ admin' = Done
    /\ UNCHANGED <<gob, engines, mu, at, locals, deployment, faults, history,
                   zip, restored, torn, gone, lost, orders>>

(* Raw text and source are columns of the metadata's row.                   *)
PutOne(t) ==
    /\ Doing("import", t) /\ t \notin DOMAIN KBWide
    /\ IF admin.doc \in zip.entries[t] /\ (t \in Columns => Listed(admin.kb, admin.doc))
       THEN Insert(t, admin.kb, admin.doc) ELSE UNCHANGED rows
    /\ admin' = Done
    /\ UNCHANGED <<gob, engines, mu, at, locals, deployment, faults, history,
                   kbRow, zip, restored, torn, gone, lost, orders>>

(* No failed write ends an import or is told to the client.                 *)
PutFails(step) ==
    /\ Doing("import", step) /\ Fault("write")
    /\ admin' = Unclean(Done)
    /\ torn' = IF step = "chunks" THEN torn \cup {admin.doc} ELSE torn
    /\ UNCHANGED <<database, engines, mu, at, locals, deployment, history,
                   kbRow, zip, restored, gone, lost, orders>>

Imported ==
    /\ Doing("import", "next") /\ admin.left = {}
    /\ restored' = IF admin.clean THEN restored \cup ({admin.kb} \X zip.whole) ELSE restored
    /\ admin' = AtRest
    /\ UNCHANGED <<vars, kbRow, zip, torn, gone, lost, orders>>

-----------------------------------------------------------------------------
(* Deletion: one statement for each table, the last for the row itself.     *)

BeginDelete(k) ==
    /\ kbRow[k] # "absent"  \* else 404
    /\ Order("delete", k, {}, Deletion["begin"])
    /\ restored' = restored \ Of(k)
    /\ torn' = IF Quiet THEN torn ELSE torn \cup UploadedFor(k)
    /\ lost' = lost \cup UploadedFor(k)
    /\ UNCHANGED <<kbRow, zip, gone>>

DeleteAllOf(t) ==
    /\ Doing("delete", t)
    /\ rows' = [x \in Tables |-> IF x = t \/ (t = "documents" /\ x \in Columns)
                                 THEN {r \in rows[x] : r[1] # admin.kb} ELSE rows[x]]
    /\ admin' = Done
    /\ UNCHANGED <<gob, engines, mu, at, locals, deployment, faults, history,
                   kbRow, zip, restored, torn, gone, lost, orders>>

(* INDEX.md is a column of the row.                                         *)
DeleteKBRow ==
    /\ Doing("delete", "row")
    /\ kbRow' = [kbRow EXCEPT ![admin.kb] = "absent"]
    /\ Overwrite("index", admin.kb, {})
    /\ gone' = IF admin.clean THEN gone \cup {admin.kb} ELSE gone
    /\ admin' = AtRest
    /\ UNCHANGED <<gob, engines, mu, at, locals, deployment, faults, history,
                   zip, restored, torn, lost, orders>>

(* Only the last statement's error is answered.                             *)
DeletionFails(step) ==
    /\ Doing("delete", step) /\ Fault("write")
    /\ admin' = IF step = "row" THEN AtRest ELSE Unclean(Done)
    /\ torn' = IF step = "chunks_index" THEN torn \cup Entries("chunks_index", admin.kb) ELSE torn
    /\ UNCHANGED <<database, engines, mu, at, locals, deployment, history,
                   kbRow, zip, restored, gone, lost, orders>>

-----------------------------------------------------------------------------
(* The requests of Documents go on meanwhile.                               *)

(* WriteIndex brings back the row of a deleted knowledge base.              *)
IndexWritten ==
    faults' = faults /\ \E p \in Procs :
        at[p] \in {"index", "dropIndex"} /\ at'[p] = Following[at[p]]

AskedAgain(k, d) == \E p \in Procs : at'[p] # "idle" /\ req'[p].kb = k /\ req'[p].old = d

Serve ==
    /\ \E p \in Procs : Begin(p) \/ Step(p)
    /\ kbRow' = IF IndexWritten THEN [kbRow EXCEPT ![chunkKB] = "indexed"] ELSE kbRow
    /\ admin' = IF admin = AtRest THEN admin ELSE Unclean(admin)
    /\ restored' = IF faults' # faults THEN {}
                   ELSE {r \in restored : ~AskedAgain(r[1], r[2])}
    /\ gone' = gone \ {req'[p].kb : p \in Procs}
    /\ LET late == {d \in Docs : home'[d] = admin.kb}
       IN  /\ lost' = lost \cup (IF admin.job \in {"delete", "import"} THEN late ELSE {})
           /\ torn' = torn \cup (IF admin.job = "delete" THEN late ELSE {})
    /\ UNCHANGED <<zip, orders>>

(* A download that was cut off is no archive.                               *)
RestartAll ==
    /\ Restart
    /\ admin' = AtRest
    /\ zip' = IF admin.job = "export" THEN NoArchive ELSE zip
    /\ UNCHANGED <<kbRow, restored, torn, gone, lost, orders>>

Administer ==
    \/ \E k \in KBs : BeginExport(k) \/ BeginImport(k) \/ BeginDelete(k)
    \/ NextDocument \/ ListSlugs \/ ListFails \/ Downloaded
    \/ CreateRow \/ Imported \/ DeleteKBRow
    \/ \E t \in Tables :
         TakeWide(t) \/ TakeOne(t) \/ TakeFails(t) \/ PutWide(t) \/ PutOne(t) \/ DeleteAllOf(t)
    \/ \E s \in Tables \cup {"create", "row"} : PutFails(s) \/ DeletionFails(s)

ArchiveNext == Serve \/ RestartAll \/ Administer

ArchiveSpec == ArchiveInit /\ [][ArchiveNext]_allVars

-----------------------------------------------------------------------------
(* What was uploaded whole, exported while nobody else was active and       *)
(* imported likewise is there again in every table, and stays there while   *)
(* other documents come and go in the knowledge base, until a statement of  *)
(* one of their requests fails.                                             *)
RestoredIsWhole == \A r \in restored : \A t \in Tables : r \in rows[t]

(* A search that takes a document from its chunks index finds the chunks:   *)
(* uploads and imports write chunks first, removals and deletions delete    *)
(* them last, whatever they overlap with except the deletion of the         *)
(* knowledge base under a running upload.                                   *)
IndexedIsReadable ==
    \A r \in rows["chunks_index"] :
        r[2] \notin removing \cup torn => r \in rows["chunks"]

(* Nothing is left in the database of a knowledge base that was deleted     *)
(* with nobody else active, until somebody asks for it again.               *)
DeletedRowsAreGone ==
    \A k \in gone : kbRow[k] = "absent" /\ \A t \in Tables : Entries(t, k) = {}

(* The management page asks for confirmation with the words that all        *)
(* documents and data are deleted for good (ui/index.html:1248): no vectors *)
(* of a deleted knowledge base stay behind.                                 *)
DeletedKBIsGone == \A k \in gone : k \notin gob
=============================================================================
