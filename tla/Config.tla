------------------------------- MODULE Config -------------------------------
(***************************************************************************)
(* The configuration of a running server: PUT /api/config and PUT of the   *)
(* tool descriptions (manage/handlers_config.go) change the one Config the *)
(* process shares, pass each value on to what uses it - the settings of    *)
(* the Store (store_settings.go), the parameters of the chunker, clients   *)
(* of model services - and write the whole Config to its file              *)
(* (config/config.go), which the next start reads (init.go).  Nothing      *)
(* orders two such requests.                                               *)
(*                                                                         *)
(* One field stands for every field that is treated alike: rerankEndpoint  *)
(* for the reranker's and the embedder's, apiToken for the secrets that    *)
(* cannot be cleared, rerankEnabled for the settings any value may be      *)
(* given, chunkMin and chunkOverlap for those with a least value.          *)
(***************************************************************************)
EXTENDS Integers

CONSTANTS
    Admins,      \* requests that may be in progress at the same time
    Requests,    \* the bodies they may send: functions from fields to values
    Environments,\* what MYSQL_HOST and the other variables of the environment make
                 \* a Config of; none where they name no MySQL server
    MaxPuts,     \* bound: requests in all
    MaxRestarts  \* bound: ends of the process

ASSUME ConfigAssumption == MaxPuts \in Nat /\ MaxRestarts \in Nat

VARIABLES
    cfg,      \* the Config of the process
    settings, \* the Store's settings
    params,   \* the chunker's parameters
    models,   \* what the clients of the model services were built from
    file,     \* the configuration file: a Config, Empty or Unreadable
    put,      \* of each admin the request in progress
    up,       \* the process runs
    puts, restarts,
    \* History.
    saved,    \* the last request was alone and its save did not fail, or, when none
              \* has come since the start, it was the file that was read
    given,    \* the settings requests have given since the start
    shared    \* two requests have been in progress at once since the start

configVars == <<cfg, settings, params, models, file, put, up, puts, restarts, saved, given, shared>>

(* The fields, and where the handler comes to each.                         *)
Order == [rerankEndpoint |-> 1, docParserEndpoint |-> 2, apiToken |-> 3, rerankEnabled |-> 4,
          chunkMin |-> 5, chunkOverlap |-> 6, deepseekKey |-> 7, toolDesc |-> 8]
Fields == DOMAIN Order
Settings == {"rerankEnabled", "chunkMin", "chunkOverlap", "toolDesc"}
Chunking == {"chunkMin", "chunkOverlap"}
Secrets == {"apiToken", "deepseekKey"}
Mask == "***"  \* what GET /api/config shows of a secret, and the page sends back
Empty == << >>                 \* the file is emptied: it parses, and says nothing
Unreadable == [toml |-> FALSE]  \* there is none, or one that does not parse
NoField == ""

ASSUME RequestsAssumption == \A req \in Requests : DOMAIN req \subseteq Fields
ASSUME EnvironmentsAssumption == \A c \in Environments : c = [f \in Fields |-> c[f]]

Default == [rerankEnabled |-> TRUE, chunkMin |-> 200, chunkOverlap |-> 200, toolDesc |-> ""]
Least == [chunkMin |-> 50, chunkOverlap |-> 0]

-----------------------------------------------------------------------------
(* A start: the file or the environment, over the defaults.                 *)

(* applyFromConfig: only what is not the zero value, unchecked. *)
Zero(f, v) == IF f \in Chunking THEN v <= 0 ELSE v = (IF f = "rerankEnabled" THEN FALSE ELSE "")
Booted(c) == [f \in Settings |-> IF Zero(f, c[f]) THEN Default[f] ELSE c[f]]
BuiltFrom(c) == [store |-> c.rerankEndpoint, server |-> c.rerankEndpoint,
                 parser |-> c.docParserEndpoint, rewriter |-> c.deepseekKey]
Installed == [rerankEndpoint |-> "e1", docParserEndpoint |-> "p1", apiToken |-> "t1",
              deepseekKey |-> "k1", rerankEnabled |-> Default.rerankEnabled,
              chunkMin |-> Default.chunkMin, chunkOverlap |-> Default.chunkOverlap,
              toolDesc |-> Default.toolDesc]
NoPut == [req |-> << >>, at |-> "idle", left |-> {}, begun |-> NoField, text |-> Empty, alone |-> TRUE]

(* An empty file is a Config without a MySQL server, with which the server   *)
(* exits (init.go); any error of the file is the environment's turn.        *)
Loaded(f) == IF f = Empty THEN {} ELSE IF f = Unreadable THEN Environments ELSE {f}

Start(c) ==
    /\ cfg' = c /\ settings' = Booted(c) /\ models' = BuiltFrom(c)
    /\ params' = [f \in Chunking |-> Default[f]]
    /\ saved' = (c = file) /\ given' = {} /\ shared' = FALSE

Init ==
    /\ file \in {Installed, Unreadable} /\ cfg \in Loaded(file)
    /\ settings = Booted(cfg) /\ models = BuiltFrom(cfg)
    /\ params = [f \in Chunking |-> Default[f]]
    /\ put = [a \in Admins |-> NoPut]
    /\ up = TRUE /\ puts = 0 /\ restarts = 0
    /\ saved = (cfg = file) /\ given = {} /\ shared = FALSE

-----------------------------------------------------------------------------
(* A request, from the body to the file.                                    *)

Waiting(a) == up /\ put[a].at = "idle"
Alone(a) == \A b \in Admins \ {a}: Waiting(b)
At(a, step) == up /\ put[a].at = step
Step(a, next) == put' = [put EXCEPT ![a].at = next]

(* What the body gives is handled field by field, each in two steps.        *)
FirstStep(a, f) ==
    /\ At(a, "fields") /\ put[a].begun = NoField
    /\ f \in put[a].left /\ \A g \in put[a].left : Order[f] <= Order[g]
    /\ put' = [put EXCEPT ![a].begun = f]
SecondStep(a, f) ==
    /\ At(a, "fields") /\ put[a].begun = f
    /\ put' = [put EXCEPT ![a].begun = NoField, ![a].left = @ \ {f},
                          ![a].at = IF put[a].left = {f} THEN "create" ELSE "fields"]

(* PUT of the descriptions sets them before it changes the Config. *)
ToAssign(a, f) == IF f = "toolDesc" THEN SecondStep(a, f) ELSE FirstStep(a, f)
ToApply(a, f) == IF f = "toolDesc" THEN FirstStep(a, f) ELSE SecondStep(a, f)

Begin(a) ==
    /\ Waiting(a) /\ puts < MaxPuts
    /\ \E req \in Requests:
         put' = [b \in Admins |->
                   IF b = a THEN [NoPut EXCEPT !.req = req, !.left = DOMAIN req, !.alone = Alone(a),
                                               !.at = IF DOMAIN req = {} THEN "create" ELSE "fields"]
                            ELSE [put[b] EXCEPT !.alone = Waiting(b)]]
    /\ puts' = puts + 1
    /\ shared' = (shared \/ ~Alone(a))
    /\ UNCHANGED <<cfg, settings, params, models, file, up, restarts, saved, given>>

Ignored(f, v) == f \in Secrets /\ (v = Mask \/ (f = "apiToken" /\ v = ""))
Assign(a, f) ==
    /\ ToAssign(a, f)
    /\ cfg' = IF Ignored(f, put[a].req[f]) THEN cfg ELSE [cfg EXCEPT ![f] = put[a].req[f]]
    /\ UNCHANGED <<settings, params, models, file, up, puts, restarts, saved, given, shared>>

(* SetChunkMinChars and SetChunkOverlapChars: the default for too little,    *)
(* and all of the chunker's parameters from the settings, each only if it    *)
(* will do.                                                                 *)
Clamped(f, v) == IF f \in Chunking /\ v < Least[f] THEN Default[f] ELSE v
SetChunkParamsUnchecked(from) == params' = [f \in Chunking |-> from[f]]  \* mutant
SetChunkParams(from) == params' = [f \in Chunking |-> IF from[f] >= Least[f] THEN from[f] ELSE params[f]]

ApplySetting(a, f) ==
    /\ f \in Settings /\ ToApply(a, f)
    /\ settings' = [settings EXCEPT ![f] = Clamped(f, put[a].req[f])]
    /\ IF f \in Chunking THEN SetChunkParams(settings') ELSE UNCHANGED params
    /\ given' = given \cup {f}
    /\ UNCHANGED <<cfg, models, file, up, puts, restarts, saved, shared>>

(* reloadReranker keeps the old client when there is no endpoint, and builds *)
(* one for the Server alone; the other two go by what the Config says now.   *)
Reload(a, f) ==
    /\ f \notin Settings /\ ToApply(a, f)
    /\ models' = CASE f = "rerankEndpoint" /\ cfg.rerankEndpoint # "" ->
                        [models EXCEPT !.server = cfg.rerankEndpoint]
                   [] f = "docParserEndpoint" -> [models EXCEPT !.parser = cfg.docParserEndpoint]
                   [] f = "deepseekKey" -> [models EXCEPT !.rewriter = cfg.deepseekKey]
                   [] OTHER -> models
    /\ UNCHANGED <<cfg, settings, params, file, up, puts, restarts, saved, given, shared>>

(* Save: the file is emptied, the Config encoded as it is now, and written.  *)
(* A text written over another one leaves the end of the longer, and a write *)
(* that fails may leave a part.                                              *)
Create(a) ==
    /\ At(a, "create") /\ Step(a, "encode")
    /\ file' = Empty
    /\ UNCHANGED <<cfg, settings, params, models, up, puts, restarts, saved, given, shared>>

EncodeBody(a) ==  \* mutant: what the body says, secrets and all
    /\ At(a, "encode")
    /\ put' = [put EXCEPT ![a].at = "write",
          ![a].text = [f \in Fields |-> IF f \in DOMAIN put[a].req THEN put[a].req[f] ELSE cfg[f]]]
    /\ UNCHANGED <<cfg, settings, params, models, file, up, puts, restarts, saved, given, shared>>
Encode(a) ==
    /\ At(a, "encode")
    /\ put' = [put EXCEPT ![a].at = "write", ![a].text = cfg]
    /\ UNCHANGED <<cfg, settings, params, models, file, up, puts, restarts, saved, given, shared>>

Write(a) ==
    /\ At(a, "write")
    /\ file' \in IF file = Empty THEN {put[a].text} ELSE {put[a].text, Unreadable}
    /\ put' = [put EXCEPT ![a] = NoPut]
    /\ saved' = put[a].alone
    /\ UNCHANGED <<cfg, settings, params, models, up, puts, restarts, given, shared>>

(* It is logged, and the request answered 200 as if nothing had happened:    *)
(* what it has changed holds until the process ends.                         *)
SaveFails(a) ==
    /\ \/ At(a, "create") /\ file' = file
       \/ At(a, "write") /\ file' \in {file, Unreadable}
    /\ put' = [put EXCEPT ![a] = NoPut]
    /\ saved' = FALSE
    /\ UNCHANGED <<cfg, settings, params, models, up, puts, restarts, given, shared>>

(* The process ends, at the request of the page or by itself. *)
Stop ==
    /\ up /\ restarts < MaxRestarts
    /\ up' = FALSE /\ restarts' = restarts + 1
    /\ saved' = (saved /\ \A a \in Admins: Waiting(a))
    /\ put' = [a \in Admins |-> NoPut]
    /\ UNCHANGED <<cfg, settings, params, models, file, puts, given, shared>>

(* LoadWithEnvFallback; without a MySQL server's name the process exits.     *)
StartAgain ==
    /\ ~up /\ \E c \in Loaded(file) : Start(c)
    /\ up' = TRUE
    /\ UNCHANGED <<file, put, puts, restarts>>

Next ==
    \/ \E a \in Admins : \/ Begin(a) \/ \E f \in Fields : Assign(a, f) \/ ApplySetting(a, f) \/ Reload(a, f)
                         \/ Create(a) \/ Encode(a) \/ Write(a) \/ SaveFails(a)
    \/ Stop \/ StartAgain

Spec == Init /\ [][Next]_configVars

-----------------------------------------------------------------------------
Quiet == up /\ \A a \in Admins: Waiting(a)

(* When no request is in progress, the file holds the whole Config, the     *)
(* secrets that were not meant to change included (handlers_config.go:304), *)
(* if the last request's save did not fail and no other overlapped it, or   *)
(* the process has begun from the file and none has come.  Each setting a   *)
(* request has given is in force as the Config says, and each other one as  *)
(* it was at the start, whether or not anything was saved.  A request whose *)
(* save fails is answered like one that is saved; that, and what a start    *)
(* makes of the file, are findings.                                         *)
SavedAndInForce ==
    Quiet =>
        /\ saved => file = cfg
        /\ ~shared => \A f \in Settings :
              settings[f] = IF f \in given THEN Clamped(f, cfg[f]) ELSE Booted(cfg)[f]

(* The chunker never gets a size it cannot work with, whatever was asked    *)
(* for, saved, and read back unchecked by the next start (chunker.go:92).   *)
ParamsUsable == \A f \in Chunking: params[f] >= Least[f]

(* The claims the code does not keep: a request's effect lasts ("applied    *)
(* immediately and persisted", handlers_config.go:271) over a restart;      *)
SettingsSurvive == [][~up /\ up' /\ saved /\ ~shared => settings' = settings /\ params' = params]_configVars

(* and the fields marked hot-reloadable (handlers_config.go:213) reach the  *)
(* searches.                                                                *)
ReloadReachesSearches == ~shared /\ Quiet => models.store = cfg.rerankEndpoint
=============================================================================
