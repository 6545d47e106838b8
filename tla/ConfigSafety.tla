---------------------------- MODULE ConfigSafety ----------------------------
(***************************************************************************)
(* Theorems about Config, proved for any number of administrators, any     *)
(* requests of theirs and any bounds.                                      *)
(***************************************************************************)
EXTENDS Config, TLAPS

LEMMA DefaultsUsable == \A f \in Chunking : Default[f] >= Least[f]
<1>1. Default["chunkMin"] = 200 /\ Default["chunkOverlap"] = 200
  BY Zenon DEF Default
<1>2. Least["chunkMin"] = 50 /\ Least["chunkOverlap"] = 0
  BY Zenon DEF Least
<1>3. QED BY <1>1, <1>2 DEF Chunking

(* The setters of chunking sizes pass nothing on that is too small.         *)
LEMMA SettersCheck ==
    ASSUME ParamsUsable, NEW from, SetChunkParams(from) PROVE ParamsUsable'
  BY DEF ParamsUsable, SetChunkParams

LEMMA ApplyUsable ==
    ASSUME ParamsUsable, NEW a \in Admins, NEW f \in Fields, ApplySetting(a, f) PROVE ParamsUsable'
<1>1. CASE f \in Chunking
  <2>1. SetChunkParams(settings')
    BY <1>1 DEF ApplySetting
  <2>2. QED BY <2>1, SettersCheck
<1>2. CASE f \notin Chunking
  BY <1>2 DEF ApplySetting, ParamsUsable
<1>3. QED BY <1>1, <1>2

LEMMA UsableStep == ParamsUsable /\ [Next]_configVars => ParamsUsable'
<1>1. SUFFICES ASSUME ParamsUsable, [Next]_configVars PROVE ParamsUsable'
  OBVIOUS
<1>2. ASSUME NEW a \in Admins, NEW f \in Fields, Assign(a, f) \/ ApplySetting(a, f) \/ Reload(a, f)
      PROVE  ParamsUsable'
  BY <1>1, <1>2, ApplyUsable DEF Assign, Reload, ParamsUsable
<1>3. CASE StartAgain
  <2>1. params' = [f \in Chunking |-> Default[f]]
    BY <1>3 DEF StartAgain, Start
  <2> QED BY <2>1, DefaultsUsable DEF ParamsUsable
<1>4. CASE params' = params
  BY <1>1, <1>4 DEF ParamsUsable
<1>5. ASSUME NEW a \in Admins,
             \/ Begin(a) \/ Create(a) \/ Encode(a) \/ Write(a) \/ SaveFails(a)
      PROVE  params' = params
  BY <1>5, Zenon DEF Begin, Create, Encode, Write, SaveFails
<1>6. QED
  BY <1>1, <1>2, <1>3, <1>4, <1>5, Zenon DEF Next, configVars, Stop

(* Whatever the requests set, save and read back, and however they and the  *)
(* restarts interleave, the chunker has sizes it can work with              *)
(* (store_settings.go, chunker.go).                                         *)
THEOREM ChunkerStaysUsable == Spec => []ParamsUsable
<1>1. Init => ParamsUsable
  BY DefaultsUsable DEF Init, ParamsUsable
<1>2. QED BY <1>1, UsableStep, PTL DEF Spec

-----------------------------------------------------------------------------
(* SavedAndInForce. A Config holds values that were installed, given, or    *)
(* set in the environment.                                                  *)
Given == UNION {{req[f] : f \in DOMAIN req} : req \in Requests}
Set == UNION {{c[f] : f \in Fields} : c \in Environments}
Values == {Installed[f] : f \in Fields} \cup Given \cup Set
Configs == [Fields -> Values]
Puts == [req : Requests \cup {<< >>}, at : {"idle", "fields", "create", "encode", "write"},
         left : SUBSET Fields, begun : Fields \cup {NoField}, text : Configs \cup {Empty}, alone : BOOLEAN]

TypeInv ==
    /\ cfg \in Configs /\ file \in Configs \cup {Empty, Unreadable} /\ settings \in [Settings -> Values]
    /\ put \in [Admins -> Puts]
    /\ up \in BOOLEAN /\ saved \in BOOLEAN /\ shared \in BOOLEAN

Active(a) == put[a].at # "idle"

(* The fields of a request that are left were given; none is half done      *)
(* outside of them, and no request outlives the process.                    *)
PutInv ==
    /\ \A a \in Admins :
          /\ put[a].left # {} => put[a].req \in Requests
          /\ put[a].left \subseteq DOMAIN put[a].req
          /\ put[a].begun # NoField => put[a].at = "fields" /\ put[a].begun \in put[a].left
          /\ put[a].at = "write" => put[a].text \in Configs
          /\ Active(a) => up

(* Who is alone, and since when nobody has shared the Config.               *)
AloneInv ==
    \A a, b \in Admins : a # b /\ Active(a) /\ Active(b) => shared /\ ~put[a].alone

(* A request that is alone empties the file and writes what the Config is.  *)
FileInv ==
    /\ \A a \in Admins : put[a].alone /\ Active(a) =>
          /\ put[a].at \in {"encode", "write"} => file = Empty
          /\ put[a].at = "write" => put[a].text = cfg
    /\ Quiet /\ saved => file = cfg

(* A setting goes by the Config unless its change is half done.             *)
Sync(f) == settings[f] = IF f \in given THEN Clamped(f, cfg[f]) ELSE Booted(cfg)[f]
Half(a, f) == IF f = "toolDesc" THEN f \in given /\ put[a].req[f] = settings[f] ELSE put[a].req[f] = cfg[f]
SyncInv ==
    up /\ ~shared => \A f \in Settings :
        /\ (\A a \in Admins : put[a].begun # f) => Sync(f)
        /\ \A a \in Admins : put[a].begun = f => Half(a, f)

ConfigInv == TypeInv /\ PutInv /\ AloneInv /\ FileInv /\ SyncInv

LEMMA Names ==
    /\ Settings \subseteq Fields /\ Chunking \subseteq Settings /\ Settings \cap Secrets = {}
    /\ NoField \notin Fields /\ "toolDesc" \in Settings \ Chunking
    /\ Fields = {"rerankEndpoint", "docParserEndpoint", "apiToken", "rerankEnabled", "chunkMin",
                 "chunkOverlap", "deepseekKey", "toolDesc"}
<1>1. Fields = {"rerankEndpoint", "docParserEndpoint", "apiToken", "rerankEnabled", "chunkMin",
                "chunkOverlap", "deepseekKey", "toolDesc"}
  BY DEF Fields, Order
<1> QED BY <1>1 DEF Settings, Chunking, Secrets, NoField

LEMMA InstalledTyped == Installed \in Configs /\ \A f \in Settings : Default[f] \in Values
<1>1. Installed \in [Fields -> {Installed[f] : f \in Fields}]
  <2>1. DOMAIN Installed = Fields /\ Installed = [f \in DOMAIN Installed |-> Installed[f]]
    BY Names DEF Installed
  <2> QED BY <2>1
<1>2. \A f \in Settings : Default[f] = Installed[f]
  <2>1. /\ Installed["rerankEnabled"] = Default["rerankEnabled"] /\ Installed["chunkMin"] = Default["chunkMin"]
        /\ Installed["chunkOverlap"] = Default["chunkOverlap"] /\ Installed["toolDesc"] = Default["toolDesc"]
    BY Zenon DEF Installed
  <2> QED BY <2>1 DEF Settings
<1> QED BY <1>1, <1>2, Names DEF Configs, Values

(* A start finds a Config, in the file or in the environment.               *)
LEMMA LoadedTyped == ASSUME NEW f \in Configs \cup {Empty, Unreadable}, NEW c \in Loaded(f) PROVE c \in Configs
<1>1. CASE c \in Environments
  <2>1. c = [g \in Fields |-> c[g]]
    BY <1>1, EnvironmentsAssumption
  <2>2. \A g \in Fields : c[g] \in Set
    BY <1>1 DEF Set
  <2>3. \A g \in Fields : c[g] \in Values
    BY <2>2 DEF Values
  <2> QED BY <2>1, <2>3 DEF Configs
<1> QED BY <1>1 DEF Loaded

LEMMA GivenTyped == ASSUME NEW req \in Requests, NEW f \in DOMAIN req PROVE req[f] \in Values
<1>1. req[f] \in Given
  BY DEF Given
<1> QED BY <1>1 DEF Values

(* What a start makes of a setting depends on the setting alone.            *)
LEMMA BootedSame ==
    ASSUME NEW c, NEW d, NEW f \in Settings, c[f] = d[f] PROVE Booted(c)[f] = Booted(d)[f]
  BY DEF Booted

LEMMA BootedTyped == ASSUME NEW c \in Configs PROVE Booted(c) \in [Settings -> Values]
<1>1. \A f \in Settings : c[f] \in Values /\ Default[f] \in Values
  BY InstalledTyped, Names DEF Configs
<1> QED BY <1>1 DEF Booted

LEMMA ClampedTyped == ASSUME NEW f \in Settings, NEW v \in Values PROVE Clamped(f, v) \in Values
  BY InstalledTyped DEF Clamped

LEMMA IdleTyped == ASSUME NEW a \in Admins PROVE NoPut \in Puts /\ NoPut.at = "idle"
  BY DEF NoPut, Puts

LEMMA ConfigStarts == Init => ConfigInv
<1>1. SUFFICES ASSUME Init PROVE ConfigInv
  OBVIOUS
<1>2. \A a \in Admins : put[a] = NoPut
  BY <1>1 DEF Init
<1>3. TypeInv
  <2>1. file \in Configs \cup {Empty, Unreadable} /\ cfg \in Configs
    BY <1>1, InstalledTyped, LoadedTyped DEF Init
  <2> QED BY <1>1, <2>1, BootedTyped, IdleTyped DEF Init, TypeInv
<1>4. PutInv /\ AloneInv
  BY <1>2 DEF PutInv, AloneInv, NoPut, Active
<1>5. FileInv
  BY <1>1, <1>2 DEF Init, FileInv, NoPut, Active
<1>6. SyncInv
  BY <1>1, <1>2, Names DEF Init, SyncInv, NoPut, Sync
<1> QED BY <1>3, <1>4, <1>5, <1>6 DEF ConfigInv

-----------------------------------------------------------------------------
(* Where a step of one request leaves the others.                           *)
LEMMA OneMoves ==
    ASSUME ConfigInv, NEW a \in Admins, Active(a), NEW r \in Puts, put' = [put EXCEPT ![a] = r],
           UNCHANGED <<up, shared>>, r.alone = put[a].alone \/ r.at = "idle",
           /\ r.left # {} => r.req \in Requests
           /\ r.left \subseteq DOMAIN r.req
           /\ r.begun # NoField => r.at = "fields" /\ r.begun \in r.left
           /\ r.at = "write" => r.text \in Configs
    PROVE  PutInv' /\ AloneInv' /\ put' \in [Admins -> Puts]
<1>1. put' \in [Admins -> Puts] /\ put'[a] = r /\ \A b \in Admins \ {a} : put'[b] = put[b]
  BY DEF ConfigInv, TypeInv
<1>2. up
  BY DEF ConfigInv, PutInv
<1>3. PutInv'
  BY <1>1, <1>2 DEF ConfigInv, PutInv, Active
<1>4. AloneInv'
  BY <1>1 DEF ConfigInv, AloneInv, Active
<1> QED BY <1>1, <1>3, <1>4

LEMMA FirstStepMoves ==
    ASSUME ConfigInv, NEW a \in Admins, NEW f \in Fields, FirstStep(a, f), UNCHANGED <<up, shared>>
    PROVE  /\ PutInv' /\ AloneInv' /\ put' \in [Admins -> Puts]
           /\ put[a].begun = NoField /\ Active(a) /\ up /\ Active(a)'
           /\ put'[a] = [put[a] EXCEPT !.begun = f] /\ put'[a].begun = f /\ put'[a].req = put[a].req
           /\ put'[a].at = "fields" /\ put'[a].alone = put[a].alone
           /\ put[a].req \in Requests /\ f \in DOMAIN put[a].req
           /\ \A b \in Admins \ {a} : put'[b] = put[b]
<1> DEFINE r == [put[a] EXCEPT !.begun = f]
<1>1. /\ put[a].at = "fields" /\ put[a].begun = NoField /\ up /\ f \in put[a].left /\ put[a] \in Puts
      /\ put' = [put EXCEPT ![a].begun = f] /\ put \in [Admins -> Puts]
  BY DEF FirstStep, At, ConfigInv, TypeInv
<1>2. put' = [put EXCEPT ![a] = r] /\ r \in Puts
  BY <1>1 DEF Puts
<1>3. /\ r.left = put[a].left /\ r.req = put[a].req /\ r.begun = f /\ r.at = "fields" /\ r.alone = put[a].alone
      /\ r.text = put[a].text
  BY <1>1 DEF Puts
<1>4. put[a].req \in Requests /\ put[a].left \subseteq DOMAIN put[a].req
  BY <1>1 DEF ConfigInv, PutInv
<1>5. Active(a)
  BY <1>1 DEF Active
<1>6. put'[a] = r /\ \A b \in Admins \ {a} : put'[b] = put[b]
  BY <1>1, <1>2
<1> HIDE DEF r
<1>7. PutInv' /\ AloneInv' /\ put' \in [Admins -> Puts]
  BY <1>1, <1>2, <1>3, <1>4, <1>5, OneMoves
<1> QED BY <1>1, <1>3, <1>4, <1>5, <1>6, <1>7 DEF r, Active

LEMMA SecondStepMoves ==
    ASSUME ConfigInv, NEW a \in Admins, NEW f \in Fields, SecondStep(a, f), UNCHANGED <<up, shared>>
    PROVE  /\ PutInv' /\ AloneInv' /\ put' \in [Admins -> Puts]
           /\ put[a].begun = f /\ Active(a) /\ up /\ Active(a)'
           /\ put'[a].begun = NoField /\ put'[a].at \in {"fields", "create"} /\ put'[a].alone = put[a].alone
           /\ put[a].req \in Requests /\ f \in DOMAIN put[a].req
           /\ \A b \in Admins \ {a} : put'[b] = put[b]
<1> DEFINE r == [put[a] EXCEPT !.begun = NoField, !.left = @ \ {f},
                               !.at = IF put[a].left = {f} THEN "create" ELSE "fields"]
<1>1. /\ put[a].at = "fields" /\ put[a].begun = f /\ up /\ put[a] \in Puts /\ put \in [Admins -> Puts]
      /\ put' = [put EXCEPT ![a].begun = NoField, ![a].left = @ \ {f},
                            ![a].at = IF put[a].left = {f} THEN "create" ELSE "fields"]
  BY DEF SecondStep, At, ConfigInv, TypeInv
<1>2. put' = [put EXCEPT ![a] = r] /\ r \in Puts
  BY <1>1 DEF Puts
<1>3. /\ r.left = put[a].left \ {f} /\ r.req = put[a].req /\ r.begun = NoField /\ r.at \in {"fields", "create"}
      /\ r.alone = put[a].alone /\ r.text = put[a].text
  BY <1>1 DEF Puts
<1>4. put[a].req \in Requests /\ put[a].left \subseteq DOMAIN put[a].req /\ f \in put[a].left
  BY <1>1, Names DEF ConfigInv, PutInv
<1>5. Active(a)
  BY <1>1 DEF Active
<1>6. put'[a] = r /\ \A b \in Admins \ {a} : put'[b] = put[b]
  BY <1>1, <1>2
<1> HIDE DEF r
<1>7. /\ r.left # {} => r.req \in Requests
      /\ r.left \subseteq DOMAIN r.req
      /\ r.begun # NoField => r.at = "fields" /\ r.begun \in r.left
      /\ r.at = "write" => r.text \in Configs
      /\ r.alone = put[a].alone \/ r.at = "idle"
  BY <1>3, <1>4
<1>8. PutInv' /\ AloneInv' /\ put' \in [Admins -> Puts]
  BY <1>2, <1>5, <1>7, OneMoves
<1> QED BY <1>1, <1>3, <1>4, <1>5, <1>6, <1>8 DEF Active

(* A step on a field of a Config in use: nothing is quiet, and a request    *)
(* that is alone has not come to the file.                                  *)
LEMMA FieldFile ==
    ASSUME ConfigInv, NEW a \in Admins, Active(a)', UNCHANGED <<up, file>>, Active(a),
           put'[a].at \in {"fields", "create"}, \A b \in Admins \ {a} : put'[b] = put[b]
    PROVE  FileInv'
<1>1. ~Quiet'
  BY DEF Quiet, Waiting, Active
<1>2. \A b \in Admins \ {a} : ~(put'[b].alone /\ Active(b)')
  BY DEF ConfigInv, AloneInv, Active
<1> QED BY <1>1, <1>2 DEF FileInv

(* While nobody has shared the Config, one request is active.               *)
LEMMA OnlyOne ==
    ASSUME ConfigInv, ~shared, NEW a \in Admins, Active(a), NEW b \in Admins \ {a}
    PROVE  put[b].begun = NoField
  BY DEF ConfigInv, AloneInv, PutInv, Active

LEMMA AssignStep == ASSUME ConfigInv, NEW a \in Admins, NEW f \in Fields, Assign(a, f) PROVE ConfigInv'
<1> DEFINE v == put[a].req[f]
<1>1. /\ UNCHANGED <<settings, params, models, file, up, puts, restarts, saved, given, shared>>
      /\ cfg' = IF Ignored(f, v) THEN cfg ELSE [cfg EXCEPT ![f] = v]
      /\ IF f = "toolDesc" THEN SecondStep(a, f) ELSE FirstStep(a, f)
  BY DEF Assign, ToAssign
<1>2. /\ PutInv' /\ AloneInv' /\ put' \in [Admins -> Puts]
      /\ Active(a) /\ up /\ Active(a)'
      /\ put[a].req \in Requests /\ f \in DOMAIN put[a].req
      /\ put'[a].at \in {"fields", "create"}
      /\ \A b \in Admins \ {a} : put'[b] = put[b]
  BY <1>1, FirstStepMoves, SecondStepMoves
<1>3. v \in Values /\ cfg \in Configs
  BY <1>2, GivenTyped DEF ConfigInv, TypeInv
<1>4. TypeInv'
  BY <1>1, <1>2, <1>3 DEF ConfigInv, TypeInv, Configs
<1>5. FileInv'
  BY <1>1, <1>2, FieldFile
<1>6. \A g \in Fields \ {f} : cfg'[g] = cfg[g]
  BY <1>1, <1>3 DEF Configs
<1>7. f \in Settings => cfg'[f] = v
  BY <1>1, <1>3, Names DEF Configs, Ignored
<1> HIDE DEF v
<1>8. SyncInv'
  <2>1. SUFFICES ASSUME ~shared, NEW g \in Settings
                 PROVE  /\ (\A b \in Admins : put'[b].begun # g) => Sync(g)'
                        /\ \A b \in Admins : put'[b].begun = g => Half(b, g)'
    BY <1>1 DEF SyncInv
  <2>2. \A b \in Admins \ {a} : put[b].begun = NoField /\ put'[b].begun = NoField
    BY <1>2, <2>1, OnlyOne
  <2>3. g # NoField /\ g \in Fields
    BY Names
  <2>4. /\ (\A b \in Admins : put[b].begun # g) => Sync(g)
        /\ put[a].begun = g => Half(a, g)
    BY <1>2, <2>1 DEF ConfigInv, SyncInv
  <2>5. CASE g # f
    <3>1. Sync(g)' = Sync(g)
      <4>1. Booted(cfg')[g] = Booted(cfg)[g]
        BY <1>6, <2>3, <2>5, BootedSame
      <4>2. cfg'[g] = cfg[g]
        BY <1>6, <2>3, <2>5
      <4> QED BY <1>1, <4>1, <4>2 DEF Sync
    <3>2. put[a].begun # g /\ put'[a].begun # g
      BY <1>1, <2>3, <2>5, FirstStepMoves, SecondStepMoves
    <3> QED BY <2>2, <2>3, <2>4, <3>1, <3>2
  <2>6. CASE g = f /\ f = "toolDesc"
    <3>1. put[a].begun = f /\ put'[a].begun = NoField
      BY <1>1, <2>6, SecondStepMoves
    <3>2. settings[f] = v /\ f \in given
      BY <2>4, <2>6, <3>1 DEF Half, v
    <3>3. Clamped(f, cfg'[f]) = v
      BY <1>7, <2>6, Names DEF Clamped
    <3>4. Sync(f)'
      BY <1>1, <3>2, <3>3 DEF Sync
    <3> QED BY <2>2, <2>3, <2>6, <3>1, <3>4
  <2>7. CASE g = f /\ f # "toolDesc"
    <3>1. put'[a].begun = f /\ put'[a].req = put[a].req
      BY <1>1, <2>7, FirstStepMoves
    <3>2. Half(a, f)'
      BY <1>7, <2>7, <3>1 DEF Half, v
    <3> QED BY <2>2, <2>3, <2>7, <3>1, <3>2
  <2> QED BY <2>5, <2>6, <2>7
<1> QED BY <1>2, <1>4, <1>5, <1>8 DEF ConfigInv

LEMMA ApplySettingStep == ASSUME ConfigInv, NEW a \in Admins, NEW f \in Fields, ApplySetting(a, f) PROVE ConfigInv'
<1> DEFINE v == put[a].req[f]
<1>1. /\ UNCHANGED <<cfg, models, file, up, puts, restarts, saved, shared>> /\ f \in Settings /\ given' = given \cup {f}
      /\ settings' = [settings EXCEPT ![f] = Clamped(f, v)]
      /\ IF f = "toolDesc" THEN FirstStep(a, f) ELSE SecondStep(a, f)
  BY DEF ApplySetting, ToApply
<1>2. /\ PutInv' /\ AloneInv' /\ put' \in [Admins -> Puts]
      /\ Active(a) /\ up /\ Active(a)'
      /\ put[a].req \in Requests /\ f \in DOMAIN put[a].req
      /\ put'[a].at \in {"fields", "create"}
      /\ \A b \in Admins \ {a} : put'[b] = put[b]
  BY <1>1, FirstStepMoves, SecondStepMoves
<1>3. Clamped(f, v) \in Values /\ settings \in [Settings -> Values]
  BY <1>1, <1>2, GivenTyped, ClampedTyped DEF ConfigInv, TypeInv
<1>4. TypeInv'
  BY <1>1, <1>2, <1>3 DEF ConfigInv, TypeInv
<1>5. FileInv'
  BY <1>1, <1>2, FieldFile
<1>6. settings'[f] = Clamped(f, v) /\ \A g \in Settings \ {f} : settings'[g] = settings[g]
  BY <1>1, <1>3
<1> HIDE DEF v
<1>8. SyncInv'
  <2>1. SUFFICES ASSUME ~shared, NEW g \in Settings
                 PROVE  /\ (\A b \in Admins : put'[b].begun # g) => Sync(g)'
                        /\ \A b \in Admins : put'[b].begun = g => Half(b, g)'
    BY <1>1 DEF SyncInv
  <2>2. \A b \in Admins \ {a} : put[b].begun = NoField /\ put'[b].begun = NoField
    BY <1>2, <2>1, OnlyOne
  <2>3. g # NoField /\ g \in Fields
    BY Names
  <2>4. /\ (\A b \in Admins : put[b].begun # g) => Sync(g)
        /\ put[a].begun = g => Half(a, g)
    BY <1>2, <2>1 DEF ConfigInv, SyncInv
  <2>5. CASE g # f
    <3>1. Sync(g)' = Sync(g)
      BY <1>1, <1>6, <2>5 DEF Sync
    <3>2. put[a].begun # g /\ put'[a].begun # g
      BY <1>1, <2>3, <2>5, FirstStepMoves, SecondStepMoves
    <3> QED BY <2>2, <2>3, <2>4, <3>1, <3>2
  <2>6. CASE g = f /\ f # "toolDesc"
    <3>1. put[a].begun = f /\ put'[a].begun = NoField
      BY <1>1, <2>6, SecondStepMoves
    <3>2. cfg[f] = v
      BY <2>4, <2>6, <3>1 DEF Half, v
    <3>3. Sync(f)'
      BY <1>1, <1>6, <3>2 DEF Sync
    <3> QED BY <2>2, <2>3, <2>6, <3>1, <3>3
  <2>7. CASE g = f /\ f = "toolDesc"
    <3>1. put'[a].begun = f /\ put'[a].req = put[a].req
      BY <1>1, <2>7, FirstStepMoves
    <3>2. settings'[f] = v
      BY <1>6, <2>7, Names DEF Clamped
    <3>3. Half(a, f)'
      BY <1>1, <2>7, <3>1, <3>2 DEF Half, v
    <3> QED BY <2>2, <2>3, <2>7, <3>1, <3>3
  <2> QED BY <2>5, <2>6, <2>7
<1> QED BY <1>2, <1>4, <1>5, <1>8 DEF ConfigInv

LEMMA ReloadStep == ASSUME ConfigInv, NEW a \in Admins, NEW f \in Fields, Reload(a, f) PROVE ConfigInv'
<1>1. /\ UNCHANGED <<cfg, settings, params, file, up, puts, restarts, saved, given, shared>> /\ f \notin Settings
      /\ SecondStep(a, f)
  BY Names DEF Reload, ToApply
<1>2. /\ PutInv' /\ AloneInv' /\ put' \in [Admins -> Puts]
      /\ put[a].begun = f /\ put'[a].begun = NoField
      /\ Active(a) /\ up /\ Active(a)'
      /\ put'[a].at \in {"fields", "create"}
      /\ \A b \in Admins \ {a} : put'[b] = put[b]
  BY <1>1, SecondStepMoves
<1>3. TypeInv'
  BY <1>1, <1>2 DEF ConfigInv, TypeInv
<1>4. FileInv'
  BY <1>1, <1>2, FieldFile
<1>5. SyncInv'
  <2>1. SUFFICES ASSUME ~shared, NEW g \in Settings
                 PROVE  /\ (\A b \in Admins : put'[b].begun # g) => Sync(g)'
                        /\ \A b \in Admins : put'[b].begun = g => Half(b, g)'
    BY <1>1 DEF SyncInv
  <2>2. \A b \in Admins : put[b].begun # g /\ put'[b].begun # g
    BY <1>1, <1>2, <2>1, OnlyOne, Names
  <2>3. Sync(g)
    BY <1>2, <2>1, <2>2 DEF ConfigInv, SyncInv
  <2> QED BY <1>1, <2>2, <2>3 DEF Sync
<1> QED BY <1>2, <1>3, <1>4, <1>5 DEF ConfigInv

-----------------------------------------------------------------------------
(* The steps that begin, save and end a request change no setting.          *)
LEMMA SettingsSame ==
    ASSUME ConfigInv, UNCHANGED <<cfg, settings, given, up>>, shared' \/ ~shared,
           \A b \in Admins : put'[b].begun = NoField \/ (put'[b].begun = put[b].begun /\ put'[b].req = put[b].req),
           \A b \in Admins : put[b].begun = NoField \/ put'[b].begun = put[b].begun
    PROVE  SyncInv'
<1>1. SUFFICES ASSUME up, ~shared, NEW g \in Settings
               PROVE  /\ (\A b \in Admins : put'[b].begun # g) => Sync(g)'
                      /\ \A b \in Admins : put'[b].begun = g => Half(b, g)'
  BY DEF SyncInv
<1>2. g # NoField
  BY Names
<1>3. /\ (\A b \in Admins : put[b].begun # g) => Sync(g)
      /\ \A b \in Admins : put[b].begun = g => Half(b, g)
  BY <1>1 DEF ConfigInv, SyncInv
<1>4. Sync(g)' = Sync(g)
  BY DEF Sync
<1>5. \A b \in Admins : put'[b].begun = g => Half(b, g)' 
  BY <1>2, <1>3 DEF Half
<1> QED BY <1>2, <1>3, <1>4, <1>5

LEMMA BeginStep == ASSUME ConfigInv, NEW a \in Admins, Begin(a) PROVE ConfigInv'
<1>1. PICK req \in Requests :
         put' = [b \in Admins |->
                   IF b = a THEN [NoPut EXCEPT !.req = req, !.left = DOMAIN req, !.alone = Alone(a),
                                               !.at = IF DOMAIN req = {} THEN "create" ELSE "fields"]
                            ELSE [put[b] EXCEPT !.alone = Waiting(b)]]
  BY DEF Begin
<1>2. /\ UNCHANGED <<cfg, settings, params, models, file, up, restarts, saved, given>>
      /\ shared' = (shared \/ ~Alone(a)) /\ up /\ put[a].at = "idle"
  BY DEF Begin, Waiting
<1> DEFINE r == [req |-> req, at |-> IF DOMAIN req = {} THEN "create" ELSE "fields", left |-> DOMAIN req,
                 begun |-> NoField, text |-> Empty, alone |-> Alone(a)]
<1>3. put'[a] = r /\ r \in Puts
  <2>1. put'[a] = r
    BY <1>1 DEF NoPut
  <2>2. DOMAIN req \subseteq Fields /\ Alone(a) \in BOOLEAN
    BY RequestsAssumption DEF Alone
  <2>3. r \in Puts
    BY <2>2 DEF Puts
  <2> QED BY <2>1, <2>3
<1>4. \A b \in Admins \ {a} :
          /\ put'[b] = [put[b] EXCEPT !.alone = ~Active(b)] /\ put'[b] \in Puts /\ put[b] \in Puts
          /\ put'[b].at = put[b].at /\ put'[b].req = put[b].req /\ put'[b].left = put[b].left
          /\ put'[b].begun = put[b].begun /\ put'[b].text = put[b].text /\ put'[b].alone = ~Active(b)
  <2>1. SUFFICES ASSUME NEW b \in Admins \ {a}
        PROVE /\ put'[b] = [put[b] EXCEPT !.alone = ~Active(b)] /\ put'[b] \in Puts /\ put[b] \in Puts
              /\ put'[b].at = put[b].at /\ put'[b].req = put[b].req /\ put'[b].left = put[b].left
              /\ put'[b].begun = put[b].begun /\ put'[b].text = put[b].text /\ put'[b].alone = ~Active(b)
    OBVIOUS
  <2>2. put[b] \in Puts
    BY DEF ConfigInv, TypeInv
  <2>3. Waiting(b) = ~Active(b)
    BY <1>2 DEF Waiting, Active
  <2>4. put'[b] = [put[b] EXCEPT !.alone = ~Active(b)]
    BY <1>1, <2>3
  <2>5. (~Active(b)) \in BOOLEAN
    BY DEF Active
  <2> QED BY <2>2, <2>4, <2>5 DEF Puts
<1>5. put'[a].at # "idle" /\ put'[a].begun = NoField /\ put'[a].alone = Alone(a) /\ put'[a].left = DOMAIN req
      /\ put'[a].req = req /\ put'[a].at \in {"create", "fields"}
  BY <1>3
<1> HIDE DEF r
<1>6. TypeInv'
  <2>1. put' \in [Admins -> Puts]
    BY <1>1, <1>3, <1>4
  <2>2. shared' \in BOOLEAN
    BY <1>2 DEF Alone, ConfigInv, TypeInv
  <2> QED BY <1>2, <2>1, <2>2 DEF ConfigInv, TypeInv
<1>7. PutInv'
  BY <1>2, <1>4, <1>5 DEF ConfigInv, PutInv, Active
<1>8. AloneInv'
  <2>1. SUFFICES ASSUME NEW b \in Admins, NEW c \in Admins, b # c, Active(b)', Active(c)'
                 PROVE  shared' /\ ~put'[b].alone
    BY DEF AloneInv
  <2>2. CASE b # a
    <3>1. Active(b) /\ ~put'[b].alone
      BY <1>4, <2>1, <2>2 DEF Active
    <3>2. ~Alone(a)
      BY <2>2, <3>1 DEF Alone, Waiting, Active
    <3> QED BY <1>2, <3>1, <3>2
  <2>3. CASE b = a
    <3>1. Active(c) /\ c # a
      BY <1>4, <2>1, <2>3 DEF Active
    <3>2. ~Alone(a)
      BY <3>1 DEF Alone, Waiting, Active
    <3> QED BY <1>2, <1>5, <2>3, <3>2
  <2> QED BY <2>2, <2>3
<1>9. FileInv'
  <2>1. ~Quiet'
    BY <1>5 DEF Quiet, Waiting
  <2>2. \A b \in Admins \ {a} : ~(put'[b].alone /\ Active(b)')
    BY <1>4 DEF Active
  <2> QED BY <1>5, <2>1, <2>2 DEF FileInv
<1>10. SyncInv'
  <2>1. put[a].begun = NoField
    BY <1>2 DEF ConfigInv, PutInv
  <2>2. shared' \/ ~shared
    BY <1>2 DEF ConfigInv, TypeInv
  <2>3. \A b \in Admins : put'[b].begun = NoField \/ (put'[b].begun = put[b].begun /\ put'[b].req = put[b].req)
    BY <1>4, <1>5
  <2>4. \A b \in Admins : put[b].begun = NoField \/ put'[b].begun = put[b].begun
    BY <1>4, <2>1
  <2>5. UNCHANGED <<cfg, settings, given, up>>
    BY <1>2
  <2> QED BY <2>2, <2>3, <2>4, <2>5, SettingsSame
<1> QED BY <1>6, <1>7, <1>8, <1>9, <1>10 DEF ConfigInv

(* A request whose fields are done moves on, or ends, in one record.        *)
LEMMA EndMoves ==
    ASSUME ConfigInv, NEW a \in Admins, Active(a), put' = [put EXCEPT ![a] = NoPut], UNCHANGED <<up, shared>>
    PROVE  PutInv' /\ AloneInv' /\ put' \in [Admins -> Puts] /\ put'[a] = NoPut
<1>1. NoPut \in Puts /\ NoPut.left = {} /\ NoPut.begun = NoField /\ NoPut.at = "idle"
  BY IdleTyped DEF NoPut
<1>2. put'[a] = NoPut
  BY DEF ConfigInv, TypeInv
<1> QED BY <1>1, <1>2, OneMoves

LEMMA SettledSync ==
    ASSUME ConfigInv, UNCHANGED <<cfg, settings, given, up, shared>>, NEW a \in Admins,
           put[a].begun = NoField, put'[a].begun = NoField, \A b \in Admins \ {a} : put'[b] = put[b]
    PROVE  SyncInv'
<1>1. \A b \in Admins : put'[b].begun = NoField \/ (put'[b].begun = put[b].begun /\ put'[b].req = put[b].req)
  OBVIOUS
<1>2. \A b \in Admins : put[b].begun = NoField \/ put'[b].begun = put[b].begun
  OBVIOUS
<1>3. shared' \/ ~shared
  BY DEF ConfigInv, TypeInv
<1> QED BY <1>1, <1>2, <1>3, SettingsSame

(* When a request is alone in the end, every other is idle.                 *)
LEMMA OthersIdle ==
    ASSUME ConfigInv, NEW a \in Admins, Active(a), put[a].alone, NEW b \in Admins \ {a} PROVE ~Active(b)
  BY DEF ConfigInv, AloneInv

LEMMA CreateStep == ASSUME ConfigInv, NEW a \in Admins, Create(a) PROVE ConfigInv'
<1> DEFINE r == [put[a] EXCEPT !.at = "encode"]
<1>1. /\ UNCHANGED <<cfg, settings, params, models, up, puts, restarts, saved, given, shared>> /\ file' = Empty
      /\ put[a].at = "create" /\ put' = [put EXCEPT ![a].at = "encode"] /\ up
      /\ put \in [Admins -> Puts] /\ put[a] \in Puts
  BY DEF Create, At, Step, ConfigInv, TypeInv
<1>2. put' = [put EXCEPT ![a] = r] /\ r \in Puts /\ put'[a] = r /\ \A b \in Admins \ {a} : put'[b] = put[b]
  BY <1>1 DEF Puts
<1>3. /\ r.left = put[a].left /\ r.req = put[a].req /\ r.begun = put[a].begun /\ r.at = "encode"
      /\ r.alone = put[a].alone
  BY <1>1 DEF Puts
<1>4. put[a].begun = NoField /\ Active(a)
  BY <1>1 DEF ConfigInv, PutInv, Active
<1> HIDE DEF r
<1>5. /\ r.left # {} => r.req \in Requests
      /\ r.left \subseteq DOMAIN r.req
      /\ r.begun # NoField => r.at = "fields" /\ r.begun \in r.left
      /\ r.at = "write" => r.text \in Configs
      /\ r.alone = put[a].alone \/ r.at = "idle"
  BY <1>3, <1>4 DEF ConfigInv, PutInv
<1>6. PutInv' /\ AloneInv' /\ put' \in [Admins -> Puts]
  BY <1>1, <1>2, <1>4, <1>5, OneMoves
<1>7. TypeInv'
  BY <1>1, <1>6 DEF ConfigInv, TypeInv
<1>8. FileInv'
  <2>1. ~Quiet'
    BY <1>2, <1>3 DEF Quiet, Waiting
  <2>2. \A b \in Admins \ {a} : ~(put'[b].alone /\ Active(b)')
    BY <1>2, <1>4 DEF ConfigInv, AloneInv, Active
  <2> QED BY <1>1, <1>2, <1>3, <2>1, <2>2 DEF FileInv
<1>9. SyncInv'
  BY <1>1, <1>2, <1>3, <1>4, SettledSync
<1> QED BY <1>6, <1>7, <1>8, <1>9 DEF ConfigInv

LEMMA EncodeStep == ASSUME ConfigInv, NEW a \in Admins, Encode(a) PROVE ConfigInv'
<1> DEFINE r == [put[a] EXCEPT !.at = "write", !.text = cfg]
<1>1. /\ UNCHANGED <<cfg, settings, params, models, file, up, puts, restarts, saved, given, shared>>
      /\ put[a].at = "encode" /\ put' = [put EXCEPT ![a].at = "write", ![a].text = cfg] /\ up
      /\ put \in [Admins -> Puts] /\ put[a] \in Puts /\ cfg \in Configs
  BY DEF Encode, At, ConfigInv, TypeInv
<1>2. put' = [put EXCEPT ![a] = r] /\ r \in Puts /\ put'[a] = r /\ \A b \in Admins \ {a} : put'[b] = put[b]
  BY <1>1 DEF Puts
<1>3. /\ r.left = put[a].left /\ r.req = put[a].req /\ r.begun = put[a].begun /\ r.at = "write"
      /\ r.alone = put[a].alone /\ r.text = cfg
  BY <1>1 DEF Puts
<1>4. put[a].begun = NoField /\ Active(a) /\ (put[a].alone => file = Empty)
  BY <1>1 DEF ConfigInv, PutInv, FileInv, Active
<1> HIDE DEF r
<1>5. /\ r.left # {} => r.req \in Requests
      /\ r.left \subseteq DOMAIN r.req
      /\ r.begun # NoField => r.at = "fields" /\ r.begun \in r.left
      /\ r.at = "write" => r.text \in Configs
      /\ r.alone = put[a].alone \/ r.at = "idle"
  BY <1>1, <1>3, <1>4 DEF ConfigInv, PutInv
<1>6. PutInv' /\ AloneInv' /\ put' \in [Admins -> Puts]
  BY <1>1, <1>2, <1>4, <1>5, OneMoves
<1>7. TypeInv'
  BY <1>1, <1>6 DEF ConfigInv, TypeInv
<1>8. FileInv'
  <2>1. ~Quiet'
    BY <1>2, <1>3 DEF Quiet, Waiting
  <2>2. \A b \in Admins \ {a} : ~(put'[b].alone /\ Active(b)')
    BY <1>2, <1>4 DEF ConfigInv, AloneInv, Active
  <2> QED BY <1>1, <1>2, <1>3, <1>4, <2>1, <2>2 DEF FileInv
<1>9. SyncInv'
  BY <1>1, <1>2, <1>3, <1>4, SettledSync
<1> QED BY <1>6, <1>7, <1>8, <1>9 DEF ConfigInv

LEMMA WriteStep == ASSUME ConfigInv, NEW a \in Admins, Write(a) PROVE ConfigInv'
<1>1. /\ UNCHANGED <<cfg, settings, params, models, up, puts, restarts, given, shared>>
      /\ put[a].at = "write" /\ put' = [put EXCEPT ![a] = NoPut] /\ up /\ saved' = put[a].alone
      /\ put \in [Admins -> Puts] /\ put[a] \in Puts /\ cfg \in Configs
      /\ file' \in IF file = Empty THEN {put[a].text} ELSE {put[a].text, Unreadable}
  BY DEF Write, At, ConfigInv, TypeInv
<1>2. put[a].begun = NoField /\ Active(a) /\ put[a].text \in Configs
      /\ (put[a].alone => file = Empty /\ put[a].text = cfg)
  BY <1>1 DEF ConfigInv, PutInv, FileInv, Active
<1>3. PutInv' /\ AloneInv' /\ put' \in [Admins -> Puts] /\ put'[a] = NoPut
  BY <1>1, <1>2, EndMoves
<1>4. \A b \in Admins \ {a} : put'[b] = put[b]
  BY <1>1
<1>5. saved' \in BOOLEAN /\ file' \in Configs \cup {Empty, Unreadable}
  BY <1>1, <1>2 DEF Puts
<1>6. TypeInv'
  BY <1>1, <1>3, <1>5 DEF ConfigInv, TypeInv
<1>7. put'[a].at = "idle" /\ put'[a].begun = NoField
  BY <1>3 DEF NoPut
<1>8. FileInv'
  <2>1. \A b \in Admins : ~(put'[b].alone /\ Active(b)')
    BY <1>2, <1>4, <1>7 DEF ConfigInv, AloneInv, Active
  <2>2. put[a].alone => file' = cfg
    BY <1>1, <1>2
  <2> QED BY <1>1, <2>1, <2>2 DEF FileInv
<1>9. SyncInv'
  BY <1>1, <1>2, <1>4, <1>7, SettledSync
<1> QED BY <1>3, <1>6, <1>8, <1>9 DEF ConfigInv

LEMMA SaveFailsStep == ASSUME ConfigInv, NEW a \in Admins, SaveFails(a) PROVE ConfigInv'
<1>1. /\ UNCHANGED <<cfg, settings, params, models, up, puts, restarts, given, shared>>
      /\ put[a].at \in {"create", "write"} /\ put' = [put EXCEPT ![a] = NoPut] /\ saved' = FALSE
      /\ file' \in {file, Unreadable}
      /\ put \in [Admins -> Puts]
  BY DEF SaveFails, At, ConfigInv, TypeInv
<1>2. put[a].begun = NoField /\ Active(a)
  BY <1>1 DEF ConfigInv, PutInv, Active
<1>3. PutInv' /\ AloneInv' /\ put' \in [Admins -> Puts] /\ put'[a] = NoPut
  BY <1>1, <1>2, EndMoves
<1>4. \A b \in Admins \ {a} : put'[b] = put[b]
  BY <1>1
<1>5. TypeInv'
  BY <1>1, <1>3 DEF ConfigInv, TypeInv
<1>6. put'[a].at = "idle" /\ put'[a].begun = NoField
  BY <1>3 DEF NoPut
<1>7. FileInv'
  <2>1. \A b \in Admins \ {a} : ~(put'[b].alone /\ Active(b)')
    BY <1>2, <1>4 DEF ConfigInv, AloneInv, Active
  <2> QED BY <1>1, <1>6, <2>1 DEF FileInv, Active
<1>8. SyncInv'
  BY <1>1, <1>2, <1>4, <1>6, SettledSync
<1> QED BY <1>3, <1>5, <1>7, <1>8 DEF ConfigInv

LEMMA StopStep == ASSUME ConfigInv, Stop PROVE ConfigInv'
<1>1. /\ UNCHANGED <<cfg, settings, params, models, file, puts, given, shared>> /\ up' = FALSE
      /\ put' = [a \in Admins |-> NoPut] /\ saved' \in BOOLEAN
  BY DEF Stop, Waiting, ConfigInv, TypeInv
<1>2. \A a \in Admins : put'[a] = NoPut
  BY <1>1
<1>3. TypeInv'
  BY <1>1, IdleTyped DEF ConfigInv, TypeInv
<1>4. PutInv' /\ AloneInv'
  BY <1>2 DEF PutInv, AloneInv, NoPut, Active
<1>5. FileInv' /\ SyncInv'
  BY <1>1, <1>2 DEF FileInv, SyncInv, Quiet, NoPut, Active
<1> QED BY <1>3, <1>4, <1>5 DEF ConfigInv

LEMMA StartAgainStep == ASSUME ConfigInv, StartAgain PROVE ConfigInv'
<1> PICK c \in Loaded(file) : Start(c)
  BY DEF StartAgain
<1>1. /\ cfg' = c /\ settings' = Booted(c) /\ UNCHANGED <<file, put, puts, restarts>>
      /\ up' = TRUE /\ saved' = (c = file) /\ given' = {} /\ shared' = FALSE /\ ~up
  BY DEF StartAgain, Start
<1>2. c \in Configs
  BY LoadedTyped DEF ConfigInv, TypeInv
<1>3. \A a \in Admins : put[a].at = "idle" /\ put[a].begun = NoField
  BY <1>1 DEF ConfigInv, PutInv, Active
<1>4. TypeInv'
  BY <1>1, <1>2, BootedTyped DEF ConfigInv, TypeInv
<1>5. PutInv' /\ AloneInv'
  BY <1>1, <1>3 DEF ConfigInv, PutInv, AloneInv, Active
<1>6. FileInv'
  BY <1>1, <1>3 DEF FileInv, Active
<1>7. SyncInv'
  <2>1. \A f \in Settings : Sync(f)'
    BY <1>1 DEF Sync
  <2> QED BY <1>1, <1>3, <2>1, Names DEF SyncInv
<1> QED BY <1>4, <1>5, <1>6, <1>7 DEF ConfigInv

LEMMA ConfigStep == ConfigInv /\ [Next]_configVars => ConfigInv'
<1>1. SUFFICES ASSUME ConfigInv, [Next]_configVars PROVE ConfigInv'
  OBVIOUS
<1>2. ASSUME NEW a \in Admins, NEW f \in Fields, Assign(a, f) \/ ApplySetting(a, f) \/ Reload(a, f)
      PROVE  ConfigInv'
  BY <1>1, <1>2, AssignStep, ApplySettingStep, ReloadStep
<1>3. ASSUME NEW a \in Admins, \/ Begin(a) \/ Create(a) \/ Encode(a) \/ Write(a) \/ SaveFails(a)
      PROVE  ConfigInv'
  BY <1>1, <1>3, BeginStep, CreateStep, EncodeStep, WriteStep, SaveFailsStep
<1>4. CASE UNCHANGED configVars
  BY <1>1, <1>4 DEF configVars, ConfigInv, TypeInv, PutInv, AloneInv, FileInv, SyncInv, Quiet, Waiting,
                    Active, Sync, Half
<1>5. QED
  BY <1>1, <1>2, <1>3, <1>4, StopStep, StartAgainStep, Zenon DEF Next

(* Whenever no request is in progress, the file holds the Config after a    *)
(* request that overlapped no other and whose save did not fail, and after  *)
(* a start from the file; and while no two requests have overlapped since   *)
(* the start, each setting that was given is in force as the Config says,   *)
(* saved or not, and each other one as the start made it                    *)
(* (handlers_config.go).  Of a request whose save fails nothing is said of  *)
(* the file: it is answered 200 all the same.                               *)
THEOREM SavesAreInForce == Spec => []SavedAndInForce
<1>1. ConfigInv => SavedAndInForce
  <2>1. SUFFICES ASSUME ConfigInv, Quiet PROVE SavedAndInForce
    BY DEF SavedAndInForce
  <2>2. up /\ \A a \in Admins : put[a].begun = NoField
    BY <2>1 DEF ConfigInv, PutInv, Quiet, Waiting
  <2>3. saved => file = cfg
    BY <2>1 DEF ConfigInv, FileInv
  <2>4. ~shared => \A f \in Settings : Sync(f)
    BY <2>1, <2>2, Names DEF ConfigInv, SyncInv
  <2> QED BY <2>3, <2>4 DEF SavedAndInForce, Sync
<1>2. QED BY <1>1, ConfigStarts, ConfigStep, PTL DEF Spec
=============================================================================
