------------------------------ MODULE Settings ------------------------------
(***************************************************************************)
(* Settings an owner saves from the page: src/trackstarr/settings.py, over    *)
(* config.py's reading of the environment and settings.json, keystore.py's    *)
(* key and what startup refuses.                                             *)
(*                                                                         *)
(* A setting's text is one of a few values the constants tell apart.  One     *)
(* process serves the page, and update holds _WRITE_LOCK, so one save is       *)
(* under way; another process on the same volume may mint the key.            *)
(***************************************************************************)
EXTENDS Integers, FiniteSets

CONSTANTS
  Setting,        \* the settings
  Secret,      \* those that are credentials
  SourceOf,    \* setting -> the connection it is a field of, or NoSource
  NoSource,
  Standing,    \* the connections that exist whatever is stated
  Default,     \* setting -> the text it has when nothing states one
  Unreadable,  \* <<setting, text>> its parser will not take
  Unfit,       \* <<setting, text>> that parse and startup refuses
  Clash,       \* sets of <<setting, text>> startup refuses together
  Change,      \* what the page may ask: connection, kind and values
  Null,        \* the value that clears an entry
  Deploy,      \* what the environment may state: direct and by a file
  Unset,       \* no indirect form of a credential
  HandTexts,   \* setting -> texts an owner types into the file
  MaxChanges,  \* bound on the saves
  MaxTampers,  \* bound on an owner's changes by hand
  MaxStops     \* bound on the deaths of the process

\* The zone is a setting like any other, no check of a start is about a credential,
\* and the page names settings: update turns away any other name.
ASSUME SettingsAssumption ==
  /\ "TZ" \in Setting \ Secret
  /\ \A c \in Change : DOMAIN c.values \subseteq Setting
  /\ \A stated \in Unfit \cup UNION Clash : stated[1] \in Setting \ Secret

VARIABLES
  env,         \* what the environment states
  saved,       \* settings.json
  key,         \* the key file: NoKey, EmptyKey, or the number of the key in it
  minted,      \* the keys drawn so far
  live,        \* config._CURRENT
  zone,        \* TZ as libc reads it
  step,        \* where update is
  save,        \* update's locals
  rival,       \* the other process' ensure
  tainted,     \* the file is not what a save or a start left
  keyLost,     \* the key file was taken away
  changed, tampers, stops   \* bounded counters

fileVars == <<saved, tainted>>
keyVars == <<key, minted, keyLost>>
liveVars == <<live, zone>>
boundVars == <<changed, tampers, stops>>
settingsVars == <<env, fileVars, keyVars, liveVars, step, save, rival, boundVars>>

NoKey == -1
EmptyKey == 0
NoFile == [kind |-> "absent", holds |-> [n \in {} |-> ""]]
Typed(text) == [text |-> text, key |-> 0]

(***************************************************************************)
(* Reading both sources.                                                    *)
(***************************************************************************)
\* A blank variable is a leftover of the deploy and states nothing.
Raw(f, n) == IF env.direct[n] # "" THEN env.direct[n]
             ELSE IF n \in DOMAIN f.holds THEN f.holds[n].text ELSE Default[n]

\* A bad text keeps the default.
Parsed(f, n) == IF <<n, Raw(f, n)>> \in Unreadable THEN Default[n] ELSE Raw(f, n)

Forms(n) == (IF env.direct[n] # "" THEN {"direct"} ELSE {})
            \cup (IF n \in Secret /\ env.indirect[n] # Unset THEN {"indirect"} ELSE {})
env_pinned(n) == Forms(n) # {}

\* What the file holds sealed, this deploy may be unable to open.
Unopened(f) == {n \in DOMAIN f.holds \cap Secret : f.holds[n].key \notin {0, key} /\ Forms(n) = {}}

Credential(f, n) ==
  CASE Forms(n) = {"direct", "indirect"} -> ""
    [] Forms(n) = {"direct"} -> env.direct[n]
    [] Forms(n) = {"indirect"} -> env.indirect[n]
    [] OTHER -> IF n \in Unopened(f) THEN "" ELSE Raw(f, n)

\* Stated two ways, or through a file that is missing or empty.
BadlyStated(n) ==
  \/ Cardinality(Forms(n)) > 1
  \/ Forms(n) = {"indirect"} /\ env.indirect[n] = ""
SecretProblems == {<<n, "stated badly">> : n \in {s \in Secret : BadlyStated(s)}}

\* A file that cannot be read states nothing, and says so.
FileProblems(f) == IF f.kind = "damaged" THEN {<<"file", "unreadable">>} ELSE {}

Fields(id) == {n \in Setting : SourceOf[n] = id}
Stated(f) == DOMAIN f.holds \cup {n \in Setting : Forms(n) # {}}

load(f) ==
  [values |-> [n \in Setting |-> IF n \in Secret THEN Credential(f, n) ELSE Parsed(f, n)],
   problems |-> {<<n, Raw(f, n)>> : n \in {u \in Setting \ Secret : <<u, Raw(f, u)>> \in Unreadable}}
                \cup SecretProblems \cup FileProblems(f),
   sealed |-> Unopened(f),
   sources |-> Standing \cup ({SourceOf[n] : n \in Stated(f)} \ {NoSource})]

\* config.errors and policy.errors: each problem names the texts it is about.
Problems(s) ==
  LET texts == {<<n, s.values[n]>> : n \in Setting}
  IN {{p} : p \in s.problems \cup (texts \cap Unfit)} \cup {c \in Clash : c \subseteq texts}

\* A zone this system does not know is left unapplied; the deploy's own stays.
ZoneOf(s, now) == IF env.direct["TZ"] # "" \/ <<"TZ", s.values["TZ"]>> \in Unfit
                  THEN now ELSE s.values["TZ"]

PutInForce(s) == live' = s /\ zone' = ZoneOf(s, zone)

(***************************************************************************)
(* One save.                                                                *)
(***************************************************************************)
\* The page's connections as flat settings: blank leaves a credential it was
\* never shown alone, a removal clears every field.
Flat(c) ==
  CASE c.kind = "remove" -> [n \in Fields(c.source) |-> Null]
    [] c.kind = "create" -> [n \in Fields(c.source) |->
                               IF n \in DOMAIN c.values THEN c.values[n] ELSE ""]
    [] c.kind = "edit" -> [n \in {v \in DOMAIN c.values : ~(v \in Secret /\ c.values[v] = "")}
                             |-> c.values[n]]
    [] OTHER -> c.values

Taken(c) ==
  /\ c.kind = "create" => c.source \notin live.sources
  /\ c.kind \in {"edit", "remove"} => c.source \in live.sources
  /\ \A n \in DOMAIN Flat(c) : ~env_pinned(n)

Merged(c) ==
  LET flat == Flat(c)
      cleared == {n \in DOMAIN flat : flat[n] = Null}
  IN [n \in (DOMAIN saved.holds \cup DOMAIN flat) \ cleared |->
        IF n \in DOMAIN flat THEN Typed(flat[n]) ELSE saved.holds[n]]

\* Sent by the page, or typed into the file before.
Unsealed(holds) == {n \in DOMAIN holds \cap Secret : holds[n].text # "" /\ holds[n].key = 0}
Sealed(holds, k) == [n \in DOMAIN holds |->
                       IF n \in Unsealed(holds) THEN [holds[n] EXCEPT !.key = k] ELSE holds[n]]

BeginSave ==
  /\ step = "up" /\ saved.kind # "damaged" /\ changed < MaxChanges
  /\ \E c \in {d \in Change : Taken(d)} :
       /\ save' = [previous |-> saved, merged |-> Merged(c), known |-> Problems(live)]
       /\ step' = IF Unsealed(Merged(c)) = {} THEN "writing" ELSE "sealing"
  /\ changed' = changed + 1
  /\ UNCHANGED <<env, fileVars, keyVars, liveVars, rival, tampers, stops>>

\* keystore.read, for the key to seal with: none, one clipped short, or the key.
Seal ==
  /\ step' = IF key = EmptyKey THEN "up" ELSE "writing"
  /\ save' = IF key = EmptyKey THEN save ELSE [save EXCEPT !.merged = Sealed(@, key)]
  /\ UNCHANGED keyVars

LookForKey ==
  /\ step = "sealing"
  /\ \/ key # NoKey /\ Seal
     \/ key = NoKey /\ step' = "minting" /\ UNCHANGED <<save, keyVars>>
  /\ UNCHANGED <<env, fileVars, liveVars, rival, boundVars>>

\* Made only where no other process made one since; the loser takes the winner's,
\* which may have nothing in it yet.
CreateKey ==
  /\ step = "minting"
  /\ \/ key # NoKey /\ Seal
     \/ key = NoKey /\ key' = EmptyKey /\ step' = "filling" /\ UNCHANGED <<save, minted, keyLost>>
  /\ UNCHANGED <<env, fileVars, liveVars, rival, boundVars>>

\* The write of the key, which may fail and leave the file empty.
FillKey ==
  /\ step = "filling"
  /\ \/ /\ key' = minted + 1 /\ minted' = minted + 1 /\ step' = "writing"
        /\ save' = [save EXCEPT !.merged = Sealed(@, minted + 1)]
     \/ step' = "up" /\ UNCHANGED <<key, minted, save>>
  /\ UNCHANGED <<env, fileVars, liveVars, rival, keyLost, boundVars>>

\* Atomic, or an OSError that leaves the file.
WriteMerged ==
  /\ step = "writing"
  /\ \/ saved' = [kind |-> "settings", holds |-> save.merged] /\ step' = "loading"
     \/ step' = "up" /\ UNCHANGED saved
  /\ UNCHANGED <<env, tainted, keyVars, liveVars, save, rival, boundVars>>

\* In force before they are judged.
LoadMerged ==
  /\ step = "loading" /\ step' = "judging"
  /\ PutInForce(load(saved))
  /\ UNCHANGED <<env, fileVars, keyVars, save, rival, boundVars>>

\* Only problems the settings before the save had not got count.
JudgeSave ==
  /\ step = "judging"
  /\ step' = IF Problems(live) \subseteq save.known THEN "up" ELSE "undoing"
  /\ UNCHANGED <<env, fileVars, keyVars, liveVars, save, rival, boundVars>>

\* Only the settings in force go back.
UndoInForce ==
  /\ step = "undoing" /\ step' = "up"
  /\ PutInForce(load(save.previous))
  /\ UNCHANGED <<env, fileVars, keyVars, save, rival, boundVars>>

Undo ==
  /\ step = "undoing"
  /\ \/ saved' = save.previous /\ step' = "reloading" /\ UNCHANGED tainted
     \/ step' = "up" /\ tainted' = TRUE /\ UNCHANGED saved
  /\ UNCHANGED <<env, keyVars, liveVars, save, rival, boundVars>>

Reload ==
  /\ step = "reloading" /\ step' = "up"
  /\ PutInForce(load(saved))
  /\ UNCHANGED <<env, fileVars, keyVars, save, rival, boundVars>>

(***************************************************************************)
(* Everything around it.                                                    *)
(***************************************************************************)
\* Another process mints the key of the same volume, and may die half way.
RivalMints ==
  /\ \/ rival = "idle" /\ key = NoKey /\ key' = EmptyKey /\ rival' = "filling" /\ UNCHANGED minted
     \/ rival = "filling" /\ key' = minted + 1 /\ minted' = minted + 1 /\ rival' = "done"
     \/ rival = "filling" /\ rival' = "done" /\ UNCHANGED <<key, minted>>
  /\ UNCHANGED <<env, fileVars, liveVars, step, save, keyLost, boundVars>>

WithText(n, text) ==
  [kind |-> "settings", holds |-> [m \in DOMAIN saved.holds \cup {n} |->
                                     IF m = n THEN Typed(text) ELSE saved.holds[m]]]

\* A file the owner changes by hand, damages or removes, or a volume restored without
\* its key: between two saves, or while nothing runs.
Tamper ==
  /\ step \in {"up", "down"} /\ tampers < MaxTampers /\ tampers' = tampers + 1
  /\ \/ /\ saved' \in {NoFile, [NoFile EXCEPT !.kind = "damaged"]}
                    \cup UNION {{WithText(n, text) : text \in HandTexts[n]} : n \in Setting}
        /\ tainted' = TRUE /\ UNCHANGED keyVars
     \/ key > 0 /\ key' = NoKey /\ keyLost' = TRUE /\ UNCHANGED <<fileVars, minted>>
  /\ UNCHANGED <<env, liveVars, step, save, rival, changed, stops>>

\* Once the file may be what the save was about to undo, only a start says.
Stop ==
  /\ step # "down" /\ stops < MaxStops
  /\ step' = "down" /\ stops' = stops + 1
  /\ tainted' = (tainted \/ step \in {"loading", "judging", "undoing"})
  /\ UNCHANGED <<env, saved, keyVars, liveVars, save, rival, changed, tampers>>

\* A start that finds a problem refuses, and the process stays down.
Start ==
  /\ step = "down" /\ Problems(load(saved)) = {}
  /\ step' = "up" /\ tainted' = FALSE
  /\ live' = load(saved) /\ zone' = ZoneOf(load(saved), env.direct["TZ"])
  /\ UNCHANGED <<env, saved, keyVars, save, rival, boundVars>>

SettingsInit ==
  /\ env \in Deploy
  /\ saved = NoFile /\ key = NoKey /\ minted = 0
  /\ live = load(NoFile) /\ zone = ZoneOf(load(NoFile), env.direct["TZ"])
  /\ step = IF Problems(live) = {} THEN "up" ELSE "down"
  /\ save = [previous |-> NoFile, merged |-> NoFile.holds, known |-> {}]
  /\ rival = "idle" /\ tainted = FALSE /\ keyLost = FALSE
  /\ changed = 0 /\ tampers = 0 /\ stops = 0

SettingsNext ==
  \/ BeginSave \/ LookForKey \/ CreateKey \/ FillKey \/ WriteMerged \/ LoadMerged \/ JudgeSave
  \/ Undo \/ Reload \/ RivalMints \/ Tamper \/ Stop \/ Start
SettingsSpec == SettingsInit /\ [][SettingsNext]_settingsVars

SettingsTypeOK ==
  /\ saved.kind \in {"absent", "damaged", "settings"} /\ DOMAIN saved.holds \subseteq Setting
  /\ key \in -1..minted /\ DOMAIN live.values = Setting /\ live.sealed \subseteq Secret
  /\ step \in {"up", "sealing", "minting", "filling", "writing", "loading", "judging",
               "undoing", "reloading", "down"}
  /\ DOMAIN save.merged \subseteq Setting /\ rival \in {"idle", "filling", "done"}

\* settings.py's promise, "a change that would refuse startup is rolled back whole":
\* between saves, what is in force is what a start would load, and it would be
\* taken, with every credential the page sealed open and libc in the saved zone.
\* Not so where an owner changed the file since, a roll-back failed, or the
\* process died before one; a lost key closes credentials.
SavesAreWhole ==
  step = "up" /\ ~tainted =>
    /\ Problems(live) = {}
    /\ live.values["TZ"] = zone
    /\ ~keyLost => live = load(saved) /\ live.sealed = {}
=============================================================================
