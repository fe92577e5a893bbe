------------------------------- MODULE MCParts -------------------------------
(***************************************************************************)
(* The parts with no state in common, each on the instances it needs: a      *)
(* scene names the part that moves, and holds the others where they start.   *)
(***************************************************************************)
EXTENDS Rewrite, Pauses, QueueView, Planner, Settings, MCSchedule, TLC

CONSTANTS
  mine, page, theirs,           \* jobs
  serve, cli,                   \* processes, and the sites of a pause store
  here, there, reading,         \* clients and a reader of pauses
  pauser, shutter               \* what moves the pause flag

VARIABLE scene

MCHome == (mine :> serve) @@ (page :> serve) @@ (theirs :> cli)
MCKinds == (mine :> {"rewrite", "remux", "tag"}) @@ (page :> {"edit"})
           @@ (theirs :> {"rewrite", "remux"})
MCBudget == (serve :> 1) @@ (cli :> 2)

MCSite == (here :> serve) @@ (there :> cli) @@ (reading :> serve)
MCFile == reading :> "episode"
MCCovers == {<<"show", "show">>, <<"episode", "episode">>, <<"show", "episode">>}

(***************************************************************************)
(* Files and settings.  Every shape of one or two tracks of a rip, of two     *)
(* behind an untagged 5.1 in an mp4, and of one beside everything else a     *)
(* file can carry.                                                          *)
(***************************************************************************)
Track(channels, lang) ==
  [kind |-> "audio", channels |-> channels, codec |-> "ac3", lang |-> lang, rate |-> 0,
   made |-> <<>>, role |-> "plain", names |-> Untold, released |-> FALSE]
Stream(sort, codec, role) ==
  [Track(0, Untold) EXCEPT !.kind = sort, !.codec = codec, !.role = role]
Subtitle(lang, role) == [Stream("subtitle", "mov_text", role) EXCEPT !.lang = lang]

MCTracks ==
  {Track(channels, lang) : channels \in {2, 6}, lang \in {"jpn", "eng", Untold}}
  \cup {Track(8, "jpn"), [Track(2, "ja") EXCEPT !.rate = 100],
        [Track(2, Untold) EXCEPT !.rate = 900], [Track(2, Untold) EXCEPT !.rate = 100],
        [Track(2, "eng") EXCEPT !.role = "commentary"],
        [Track(6, "eng") EXCEPT !.released = TRUE]}

MCRip(audio, ext) ==
  [streams |-> <<Stream("video", "hevc", "plain")>> \o audio, ext |-> ext,
   tagged |-> FALSE, linked |-> FALSE]
MCDressed(track, ext) ==
  [streams |-> <<Stream("data", "tmcd", "plain"), track,
                 Subtitle("eng", "plain"), Subtitle("eng", "sdh"), Subtitle("fre", "forced"),
                 Stream("video", "hevc", "strippable"), Stream("video", "png", "plain"),
                 Stream("attachment", "ttf", "plain")>>,
   ext |-> ext, tagged |-> TRUE, linked |-> ext = "mkv"]

MCFilms ==
  UNION {{MCRip(<<a>>, ext), MCDressed(a, ext), MCRip(<<a, b>>, ext),
          MCRip(<<Track(6, Untold), a, b>>, "mp4")}
         : a \in MCTracks, b \in MCTracks, ext \in {"mkv", "mp4"}}

\* The settings as shipped, then what owners make of them; the last four are refused.
MCSpelling == ("ja" :> "jpn") @@ ("English" :> "eng") @@ ("und" :> Untold)
MCShipped ==
  [modes |-> [r \in {} |-> ""], layouts |-> <<<<2>>, <<6>>>>,
   languages |-> <<<<"original">>, <<"English">>>>,
   scope |-> "generated", below |-> 80, above |-> 0, exts |-> {"mkv", "mp4"},
   skip_hardlinks |-> FALSE]
MCOneDub == <<<<"original">>, <<"eng", "keep">>>>
MCTrimming ==
  [MCShipped EXCEPT !.modes = [regenerate |-> "always", tag_original |-> "always",
                               commentary |-> "always"],
                    !.languages = MCOneDub, !.exts = {"mkv"}, !.skip_hardlinks = TRUE,
                    !.layouts = <<<<2, "aac", 192>>, <<6, "remove">>, <<8, "remove">>>>]
MCDrafts ==
  {MCShipped, MCTrimming,
   [MCShipped EXCEPT !.modes = [tag_original |-> "always", remux |-> "always",
                                regenerate |-> "always"],
                     !.scope = "all", !.above = 110, !.languages = MCOneDub],
   [MCShipped EXCEPT !.modes = [tag_original |-> "alongside", regenerate |-> "alongside",
                                languages |-> "alongside", dv_strip |-> "always",
                                order |-> "never"],
                     !.scope = "all",
                     !.layouts = <<<<2, "aac", 192>>, <<6>>>>],
   [MCShipped EXCEPT !.layouts = <<<<2, "remove">>, <<6>>>>],
   [MCShipped EXCEPT !.layouts = <<<<2>>, <<2, "remove">>>>],
   [MCShipped EXCEPT !.layouts = <<<<8, "ac3", 640>>>>],
   [MCShipped EXCEPT !.layouts = <<<<3>>>>],
   [MCShipped EXCEPT !.languages = <<<<"eng">>, <<"English", "keep">>>>]}

(***************************************************************************)
(* Settings of the page: two numbers and lists, the zone, and a connection    *)
(* with its credential, some of it stated by the deploy.                     *)
(***************************************************************************)
MCSource == [n \in Setting |-> IF n \in {"url", "key"} THEN "uhd" ELSE NoSource]
MCDefault ==
  [slots |-> "1", layouts |-> "aac", exts |-> "mkv+mp4", TZ |-> "", url |-> "", key |-> ""]
MCUnreadable == {<<"slots", "many">>}
MCUnfit == {<<"slots", "0">>, <<"TZ", "Mars">>, <<"url", "uhd:80">>}
MCClash == {{<<"layouts", "opus">>, <<"exts", "mkv+mp4">>}}

Request(sort, values) ==
  [kind |-> sort, source |-> IF sort = "flat" THEN NoSource ELSE "uhd", values |-> values]
MCChange ==
  {Request("flat", v) : v \in {[slots |-> "0"], [slots |-> "4"], [slots |-> Null], [TZ |-> "Mars"],
                           [TZ |-> "Auckland"], [TZ |-> Null], [layouts |-> "opus"],
                           [layouts |-> "opus", exts |-> "mkv"]}}
  \cup {Request("create", [key |-> "k1"]), Request("remove", [n \in {} |-> ""]),
        Request("edit", [key |-> "", url |-> "http://uhd"]), Request("edit", [url |-> "uhd:80"])}

Deployed(direct, indirect) ==
  [direct |-> direct @@ [n \in Setting |-> ""], indirect |-> indirect @@ [n \in Secret |-> Unset]]
MCNothing == [n \in {} |-> ""]
MCDeploy ==
  {Deployed(MCNothing, MCNothing), Deployed([TZ |-> "Paris"], [key |-> "k9"]),
   Deployed([exts |-> "mkv+mp4"], MCNothing), Deployed([key |-> "k9"], [key |-> "k8"])}
MCHand == [n \in Setting |-> CASE n = "slots" -> {"many", "0"} [] n = "key" -> {"k2"}
                              [] OTHER -> {}]

(***************************************************************************)
(* Scenes.                                                                  *)
(***************************************************************************)
Part == {"rewrites", "skips", "upgrade", "pauses", "flag", "pages", "plans", "settings",
         "clock"}

\* The jobs that run in a scene, and what else may happen in it.
MCJobs == [rewrites |-> {mine, theirs}, skips |-> {mine, page}, upgrade |-> {mine}]
Rewriting ==
  /\ scene \in DOMAIN MCJobs
  /\ \A j \in Job \ MCJobs[scene] : at[j] = "idle"
  /\ scene # "upgrade" => landings = 0
  /\ scene = "skips" => crashes = 0
  /\ scene = "rewrites" => asked = {}
  /\ scene # "rewrites" => cleaner = "off"

PartsInit ==
  /\ scene \in Part
  /\ scene # "plans" => /\ film = MCRip(<<Track(2, "eng")>>, "mp4")
                        /\ policy = FromConfig(MCTrimming) /\ original = Untold
  /\ scene # "pauses" => store = [p \in Place |-> Absent] /\ migrated = TRUE
  /\ scene # "flag" => flag = FALSE
  /\ scene # "settings" => env = Deployed(MCNothing, MCNothing)
  /\ scene # "clock" => night = Far /\ sweepAt = NoSchedule
  /\ PlannerInit /\ RewriteInit /\ PausesInit /\ QueueViewInit /\ SettingsInit /\ ScheduleInit

RewriteMoves ==
  /\ scene \in DOMAIN MCJobs
  /\ UNCHANGED <<scene, pausesVars, queueViewVars, plannerVars, settingsVars, scheduleVars>>
  /\ RewriteNext /\ Rewriting'
PauseMoves ==
  /\ scene \in {"pauses", "flag"}
  /\ UNCHANGED <<scene, rewriteVars, queueViewVars, plannerVars, settingsVars, scheduleVars>>
  /\ PausesNext
  /\ scene = "pauses" => UNCHANGED flagVars
  /\ scene = "flag" => UNCHANGED <<storeVars, readVars>>
PageMoves ==
  /\ scene = "pages"
  /\ UNCHANGED <<scene, rewriteVars, pausesVars, plannerVars, settingsVars, scheduleVars>>
  /\ QueueViewNext
PlanMoves ==
  /\ scene = "plans"
  /\ UNCHANGED <<scene, rewriteVars, pausesVars, queueViewVars, settingsVars, scheduleVars>>
  /\ PlannerNext
SettingMoves ==
  /\ scene = "settings"
  /\ UNCHANGED <<scene, rewriteVars, pausesVars, queueViewVars, plannerVars, scheduleVars>>
  /\ SettingsNext
ClockMoves ==
  /\ scene = "clock"
  /\ UNCHANGED <<scene, rewriteVars, pausesVars, queueViewVars, plannerVars, settingsVars>>
  /\ ScheduleNext

PartsNext ==
  RewriteMoves \/ PauseMoves \/ PageMoves \/ PlanMoves \/ SettingMoves \/ ClockMoves

partsVars ==
  <<scene, rewriteVars, pausesVars, queueViewVars, plannerVars, settingsVars, scheduleVars>>
PartsSpec == PartsInit /\ [][PartsNext]_partsVars

\* Every part's variables stay of their types.
PartsTypeOK ==
  RewriteTypeOK /\ PausesTypeOK /\ QueueViewTypeOK /\ PlannerTypeOK /\ SettingsTypeOK
  /\ ScheduleTypeOK
=============================================================================
