------------------------------ MODULE Planner ------------------------------
(***************************************************************************)
(* What a file needs and what the rewrite leaves: src/trackstarr/planner.py, *)
(* over the policy of policy.py and tracks.py, with media.py's reading of a  *)
(* stream and the rendering of command.py.                                  *)
(*                                                                         *)
(* A file is what a probe says of it, without the chapter tracks ffmpeg      *)
(* makes itself.  Prose is left out: a change is the rule that ordered it.   *)
(* The file is planned and rewritten again and again, under settings an      *)
(* owner saves and an original language an *arr answers with.                *)
(***************************************************************************)
EXTENDS Integers, Sequences, SequencesExt, FiniteSetsExt

CONSTANTS
  Film,        \* the files it may start from
  Codec,       \* the names of codecs
  Draft,       \* the settings an owner may state, usable or not
  Origin,      \* the languages an *arr may answer with
  Spelling,    \* language -> its one code, where a tag may spell it otherwise
  Untold,      \* no language: an untagged track, a title no *arr knows
  MaxEdits,    \* bound on the saves of settings
  MaxAnswers   \* bound on the *arr's changes of mind

VARIABLES
  film,      \* the file
  policy,    \* the settings in force
  original,  \* what the *arr says the title was made in
  rewrites,  \* rewrites since the settings and the answer last changed
  edits, answers  \* bounded counters

plannerVars == <<film, policy, original, rewrites, edits, answers>>

(***************************************************************************)
(* What a probe says.  A track the rules made remembers the settings it was   *)
(* made at; a role is what a flag or a title says a stream is.               *)
(***************************************************************************)
Muxers == {"mkv", "mp4"}
Language == STRING \cup {Untold}
StreamKind == {"video", "audio", "subtitle", "attachment", "data"}
StreamRole == {"plain", "commentary", "sdh", "forced", "strippable"}
Probed ==
  [kind : StreamKind, channels : Nat, codec : Codec, lang : Language, rate : Nat,
   made : {<<>>} \cup (Codec \X Nat), role : StreamRole, names : Language, released : BOOLEAN]
File == [streams : Seq(Probed), ext : Muxers, tagged : BOOLEAN, linked : BOOLEAN]

\* A language in one spelling, or Untold.
NormLang(tag) == IF tag \in DOMAIN Spelling THEN Spelling[tag] ELSE tag

\* Spellings lead to codes, which are their own; an *arr's answer is a code.
ASSUME PlannerAssumption ==
  /\ Film \subseteq File /\ {"aac", "ac3", "srt"} \subseteq Codec
  /\ \A tag \in DOMAIN Spelling : /\ Spelling[tag] \in Language
                                   /\ NormLang(Spelling[tag]) = Spelling[tag]
  /\ Untold \notin DOMAIN Spelling
  /\ Origin \subseteq STRING /\ \A lang \in Origin : NormLang(lang) = lang
  /\ \A draft \in Draft :
       /\ DOMAIN draft = {"modes", "layouts", "languages", "scope", "below", "above", "exts",
                         "skip_hardlinks"}
       /\ DOMAIN draft.layouts = 1..Len(draft.layouts) /\ draft.languages \in Seq(Seq(STRING))
       /\ \A n \in DOMAIN draft.layouts :
            LET entry == draft.layouts[n]
            IN /\ DOMAIN entry = 1..Len(entry) /\ entry[1] \in Nat
               /\ Len(entry) = 3 => entry[2] \in Codec /\ entry[3] \in Nat
  /\ MaxEdits \in Nat /\ MaxAnswers \in Nat

(***************************************************************************)
(* The settings.                                                            *)
(***************************************************************************)
Modes == {"never", "alongside", "always"}
RULES ==
  [languages |-> "always", tag_original |-> "never", commentary |-> "never",
   sdh |-> "alongside", regenerate |-> "never", dv_strip |-> "never", cover_art |-> "always",
   release_tags |-> "alongside", stray_streams |-> "alongside", order |-> "always",
   remux |-> "never"]
Rule == DOMAIN RULES
ResolvedModes(stated) ==
  [r \in Rule |-> IF r \in DOMAIN stated /\ stated[r] \in Modes THEN stated[r] ELSE RULES[r]]

\* An entry of AUDIO_LAYOUTS: a size, a size and an action, or a size, an encoder
\* and its rate.  A bare size is made as shipped, where it is shipped for; an
\* unrecognised size is 0, and so is a rate of no known form.
Stock == [n \in {1, 2, 6, 7, 8} |->
            CASE n = 1 -> <<"aac", 160>> [] n = 2 -> <<"aac", 320>> [] n = 6 -> <<"ac3", 640>>
              [] n = 7 -> <<"aac", 704>> [] n = 8 -> <<"aac", 768>>]
Actions == {"downmix", "keep", "remove"}
LayoutRow(channels, action, made) ==
  [channels |-> channels, action |-> action, codec |-> made[1], rate |-> made[2]]
SplitEntry(e) ==
  CASE Len(e) = 1 /\ e[1] \in DOMAIN Stock -> LayoutRow(e[1], "downmix", Stock[e[1]])
    [] Len(e) = 2 -> LayoutRow(e[1], e[2], <<"", 0>>)
    [] Len(e) = 3 -> LayoutRow(e[1], "downmix", <<e[2], e[3]>>)
    [] OTHER -> LayoutRow(e[1], "downmix", <<"", 0>>)
SpecFits(row) ==
  /\ row.action \in Actions
  /\ row.action = "downmix" => row.codec # "" /\ row.rate # 0
Usable(e) == Len(e) <= 3 /\ e[1] # 0 /\ SpecFits(SplitEntry(e))
ResolvedLayouts(entries) ==
  [n \in {k \in DOMAIN entries : Usable(entries[k])} |-> SplitEntry(entries[n])]

\* An entry of LANGUAGES: a language, or a language and an action.
ParseLang(e) == [name |-> NormLang(e[1]), action |-> IF Len(e) = 1 THEN "downmix" ELSE e[2]]
LangFits(e) ==
  Len(e) <= 2 /\ ParseLang(e).name # Untold /\ ParseLang(e).action \in Actions \ {"remove"}
ResolvedLangs(entries) ==
  [n \in {k \in DOMAIN entries : LangFits(entries[k])} |-> ParseLang(entries[n])]

\* The rules a plan is judged with: rows keep the place they were written at.
FromConfig(draft) ==
  [draft EXCEPT !.modes = ResolvedModes(@), !.layouts = ResolvedLayouts(@),
                !.languages = ResolvedLangs(@)]

RulesIn(rules, modes) == {r \in Rule : rules.modes[r] \in modes}
Rows(seq, action) == {seq[i] : i \in {k \in DOMAIN seq : seq[k].action = action}}
Downmixed(rules) == Rows(rules.layouts, "downmix")
SizesOf(rows) == {row.channels : row \in rows}
LayoutAt(rules, channels) == CHOOSE row \in Downmixed(rules) : row.channels = channels

\* The encoders known by name: what each can hold, and which write only Matroska.
Ceiling == [aac |-> 8, ac3 |-> 6, eac3 |-> 6, libopus |-> 8, flac |-> 8]
MatroskaOnly == {"libopus", "flac"}
Lossless == {"flac", "truehd", "dts_ma"}
KeepsTags(ext) == ext = "mkv"

OutputExts(rules) == IF rules.modes["remux"] # "never" THEN {"mkv"} ELSE rules.exts

Encodable(rules, row) ==
  row.codec \in DOMAIN Ceiling =>
    /\ row.channels <= Ceiling[row.codec]
    /\ row.codec \in MatroskaOnly => OutputExts(rules) \subseteq {"mkv"}

\* One opinion on the tracks of a size, and every encoder holds what it is asked.
LayoutsFit(draft) ==
  LET rules == FromConfig(draft)
      entries == draft.layouts
  IN /\ \A n \in DOMAIN entries : Usable(entries[n])
     /\ \A row \in Downmixed(rules) : Encodable(rules, row)
     /\ \A i, k \in DOMAIN entries : entries[i][1] = entries[k][1] => i = k
LanguagesFit(draft) ==
  LET entries == draft.languages
  IN /\ \A n \in DOMAIN entries : LangFits(entries[n])
     /\ \A i, k \in DOMAIN entries : ParseLang(entries[i]).name = ParseLang(entries[k]).name => i = k
ModesFit(draft) == DOMAIN draft.modes \subseteq Rule /\ Range(draft.modes) \subseteq Modes
BandsFit(draft) == draft.below \in 10..90 /\ draft.above \in {0} \cup 110..400

\* Without the checks of repeated sizes and languages.
ValidOnePerRow(draft) ==
  /\ draft.exts \subseteq Muxers /\ ModesFit(draft) /\ BandsFit(draft)
  /\ \A row \in Downmixed(FromConfig(draft)) : Encodable(FromConfig(draft), row)

\* What startup and a save accept: policy.errors and the bands of config.errors.
Valid(draft) ==
  /\ draft.exts \subseteq Muxers /\ draft.scope \in {"generated", "all"}
  /\ ModesFit(draft) /\ LayoutsFit(draft) /\ LanguagesFit(draft) /\ BandsFit(draft)

Accepted == {FromConfig(d) : d \in {c \in Draft : Valid(c)}}

\* LANGUAGES for one title: ORIGINAL becomes its language, unless a row names it.
Resolve(rules, lang) ==
  LET rows == rules.languages
      answered == lang \notin {rows[n].name : n \in DOMAIN rows} \cup {Untold}
  IN [n \in {k \in DOMAIN rows : rows[k].name # "original" \/ answered} |->
        [rows[n] EXCEPT !.name = IF @ = "original" THEN lang ELSE @]]

(***************************************************************************)
(* One pass of the rules over one probe: the file, the settings, the         *)
(* languages as resolved, and the rules that act.                           *)
(***************************************************************************)
PassOver(f, rules, lang, acting) ==
  [streams |-> f.streams, ext |-> f.ext, tagged |-> f.tagged, policy |-> rules,
   original |-> lang, langs |-> Resolve(rules, lang), acting |-> acting]

Acts(p, rule) == rule \in p.acting
Named(p) == {p.langs[i].name : i \in DOMAIN p.langs}
Wanted(p) == {row.name : row \in Rows(p.langs, "downmix")}

(***************************************************************************)
(* What a stream is, by its flags or its title.                             *)
(***************************************************************************)
Cover(s) == s.kind = "video" /\ s.codec = "png"
Commentary(s) == s.role = "commentary"
Tongue(s) == NormLang(s.lang)
Sdh(s) == s.role = "sdh"
Forced(s) == s.role = "forced"
LoadBearing(s) == Commentary(s) \/ Sdh(s) \/ Forced(s)
ReleaseTags(s) == s.released
NamedIn(s) == s.names
Eligible(s) == s.role = "strippable" /\ ~Cover(s)

\* Matroska reports no rate of a track the rules made; 0 is none.
Reported(s) == s.rate
Generated(s) == s.made # <<>>
MadeAt(s) == s.made[2]

Videos(p) == {i \in DOMAIN p.streams :
  p.streams[i].kind = "video" /\ ~(Acts(p, "cover_art") /\ Cover(p.streams[i]))}
Trailing(p) == {i \in DOMAIN p.streams :
  \/ p.streams[i].kind = "attachment"
  \/ p.streams[i].kind = "data" /\ ~Acts(p, "stray_streams")}
Converting(p) == Acts(p, "remux") /\ ~KeepsTags(p.ext)
OutExt(p) == IF Converting(p) THEN "mkv" ELSE p.ext

AllOf(p, kind) == {i \in DOMAIN p.streams : p.streams[i].kind = kind}

\* Untagged always stays.
InLanguage(p, kind) ==
  {i \in AllOf(p, kind) : \/ ~Acts(p, "languages")
                          \/ Tongue(p.streams[i]) \in Named(p) \cup {Untold}}

WithoutCommentary(p, kept) ==
  LET spoken == {i \in kept : ~Commentary(p.streams[i])}
  IN IF Acts(p, "commentary") /\ spoken # {} THEN spoken ELSE kept

(***************************************************************************)
(* Downmixes: what one can be made from, which ones are in the way, which    *)
(* are missing.                                                             *)
(***************************************************************************)
Sources(p, kept, channels) ==
  {i \in kept : p.streams[i].channels > channels /\ ~Commentary(p.streams[i])}

Heard(p, kept) ==
  {<<p.streams[i].channels, Tongue(p.streams[i])>> : i \in {k \in kept : ~Commentary(p.streams[k])}}
Speaking(p, tracks) == {Tongue(p.streams[i]) : i \in tracks}

\* A size some wanted language has a track at, or a track to make one from.
Served(p, kept, channels) ==
  \E lang \in Wanted(p) : \/ <<channels, lang>> \in Heard(p, kept)
                          \/ lang \in Speaking(p, Sources(p, kept, channels))

\* The downmix rule's own tracks, in a language that only stood in for a wanted one.
StandIns(p, kept) ==
  {i \in kept : LET s == p.streams[i]
                IN /\ Generated(s) /\ s.channels \in SizesOf(Downmixed(p.policy))
                   /\ Tongue(s) \notin Wanted(p) /\ Served(p, kept, s.channels)}

\* The sizes the regenerate rule judges: its own tracks are known by a tag.
Rebuilt(p) ==
  IF Acts(p, "regenerate") /\ KeepsTags(p.ext) THEN SizesOf(Downmixed(p.policy)) ELSE {}

Settings(row) == <<row.codec, row.rate>>

HasMoreToGive(s, row) == Reported(s) = 0 \/ Reported(s) >= row.rate

\* Dropped for the downmix rule to make again: settings it was not made at, or,
\* where real tracks are judged too, a rate a bigger track could better.
Stale(p, kept) ==
  {i \in kept :
     LET s == p.streams[i]
         row == LayoutAt(p.policy, s.channels)
         bigger == Sources(p, kept \ {i}, s.channels)
     IN /\ s.channels \in Rebuilt(p) /\ bigger # {}
        /\ \/ Generated(s) /\ s.made # Settings(row)
           \/ /\ ~Generated(s) /\ p.policy.scope = "all" /\ ~Commentary(s)
              /\ Reported(s) # 0 /\ Reported(s) * 100 < row.rate * p.policy.below
              /\ \E k \in bigger : HasMoreToGive(p.streams[k], row)}

\* Encoded again from itself: over its layout's rate by what its own tag says it
\* was made at, or, where real tracks are judged too, by what it reports.
Oversized(p, kept) ==
  {i \in kept :
     LET s == p.streams[i]
         row == LayoutAt(p.policy, s.channels)
         rate == IF Generated(s) THEN MadeAt(s) ELSE Reported(s)
     IN /\ s.channels \in Rebuilt(p) /\ p.policy.above # 0
        /\ row.codec \notin Lossless /\ s.codec \notin Lossless /\ ~Commentary(s)
        /\ Generated(s) \/ p.policy.scope = "all"
        /\ rate # 0 /\ rate * 100 >= row.rate * p.policy.above}

\* How many rows come before the language's own; all of them, for one unlisted.
Preference(p, lang) ==
  Cardinality({n \in DOMAIN p.langs :
                 \A m \in DOMAIN p.langs : m <= n => p.langs[m].name # lang})

\* LANGUAGES order first, the most channels within one language, then file order.
Best(p, tracks) ==
  LET pref(i) == Preference(p, Tongue(p.streams[i]))
      first == {i \in tracks : \A k \in tracks : pref(i) <= pref(k)}
      biggest == {i \in first : \A k \in first : p.streams[k].channels <= p.streams[i].channels}
  IN Min(biggest)

\* A size the file has in any language is not made in another.
DownmixesOfSize(p, kept, owed) ==
  LET Has(row) == \E h \in Heard(p, kept) : h[1] = row.channels
      Missing(row) == ~Has(row) /\ Sources(p, kept, row.channels) # {}
  IN {<<row, Best(p, Sources(p, kept, row.channels))>>
      : row \in {r \in Downmixed(p.policy) : Missing(r)}}

\* Every layout in every wanted language, owed ones too, from a bigger track of
\* it; a layout none of them has is filled once, from any language.
Downmixes(p, kept, owed) ==
  LET langs == Wanted(p) \cup owed
      From(row, lang) == {i \in Sources(p, kept, row.channels) : Tongue(p.streams[i]) = lang}
      Fillable(row) == {lang \in langs : <<row.channels, lang>> \notin Heard(p, kept)
                                         /\ From(row, lang) # {}}
      Has(row) == \E h \in Heard(p, kept) : h[1] = row.channels
      StandsIn(row) == Fillable(row) = {} /\ ~Has(row) /\ Sources(p, kept, row.channels) # {}
  IN {<<row, Best(p, Sources(p, kept, row.channels))>>
        : row \in {r \in Downmixed(p.policy) : StandsIn(r)}}
     \cup UNION {{<<row, Best(p, From(row, lang))>> : lang \in Fillable(row)}
                 : row \in Downmixed(p.policy)}

\* The sizes with a downmix no dropped track is claimed by: one of its own
\* language, or one of the untagged, each claimed once.
Added(p, mixes, stale) ==
  {channels \in SizesOf({m[1] : m \in mixes}) :
     LET dropped(lang) == {i \in stale : p.streams[i].channels = channels
                                         /\ Tongue(p.streams[i]) = lang}
         ofSize == {m \in mixes : m[1].channels = channels}
         alone == {m \in ofSize : \/ Tongue(p.streams[m[2]]) = Untold
                                  \/ dropped(Tongue(p.streams[m[2]])) = {}}
     IN Cardinality(alone) > Cardinality(dropped(Untold))}

\* Whatever is left.
WithoutRemovedAll(p, kept, made) ==
  {i \in kept : p.streams[i].channels \notin SizesOf(Rows(p.policy.layouts, "remove"))}

\* Never the last track of the file: what will be made counts.
WithoutRemoved(p, kept, made) ==
  LET gone == SizesOf(Rows(p.policy.layouts, "remove"))
      staying == {i \in kept : p.streams[i].channels \notin gone}
  IN IF staying = {} /\ made = {} THEN kept ELSE staying

\* The one untagged track, where nothing in the file says it is something else
\* and the languages rule would not then drop it.
OriginalToTag(p, kept) ==
  LET audio == AllOf(p, "audio")
      untagged == {i \in audio : Tongue(p.streams[i]) = Untold}
      dropping == p.policy.modes["languages"] # "never"
  IN {i \in untagged \cap kept :
        /\ Acts(p, "tag_original") /\ p.original # Untold
        /\ dropping => p.original \in Named(p)
        /\ untagged = {i} /\ p.original \notin Speaking(p, audio)
        /\ ~Commentary(p.streams[i]) /\ NamedIn(p.streams[i]) \in {Untold, p.original}}

(***************************************************************************)
(* The audio rules in their order: each reads what the one before kept.      *)
(***************************************************************************)
Audio(p) ==
  LET named == InLanguage(p, "audio")
      spoken == WithoutCommentary(p, named)
      worth == spoken \ StandIns(p, spoken)
      stale == Stale(p, worth)
      kept == worth \ stale
      fat == Oversized(p, kept)
      mixes == Downmixes(p, kept, Speaking(p, stale) \ {Untold})
      made == mixes \cup {<<LayoutAt(p.policy, p.streams[i].channels), i>> : i \in fat}
      staying == WithoutRemoved(p, kept, made)
  IN [named |-> named, spoken |-> spoken, worth |-> worth, stale |-> stale, kept |-> kept,
      fat |-> fat, mixes |-> mixes, made |-> made, staying |-> staying,
      copied |-> staying \ fat, tag |-> OriginalToTag(p, staying)]

\* SDH goes where its language keeps a full subtitle; forced ones do not count.
RedundantSdh(p) ==
  LET subs == InLanguage(p, "subtitle")
      full == Speaking(p, {i \in subs : ~Sdh(p.streams[i]) /\ ~Forced(p.streams[i])})
  IN {i \in subs : Acts(p, "sdh") /\ Sdh(p.streams[i]) /\ Tongue(p.streams[i]) \in full}

Subtitles(p) == InLanguage(p, "subtitle") \ RedundantSdh(p)

\* A title the rules classify on is never cleared.
Cleared(p, a) == {i \in a.copied \cup Subtitles(p) :
  Acts(p, "release_tags") /\ ReleaseTags(p.streams[i]) /\ ~LoadBearing(p.streams[i])}

Stripped(p) == {i \in Videos(p) : Acts(p, "dv_strip") /\ Eligible(p.streams[i])}

(***************************************************************************)
(* What the pass writes: a copy of a stream, or a track encoded from one.    *)
(***************************************************************************)
Copy(p, a, i) ==
  LET s == p.streams[i]
  IN [s EXCEPT !.lang = IF i \in a.tag THEN p.original ELSE @,
               !.released = @ /\ i \notin Cleared(p, a),
               !.names = IF i \in Cleared(p, a) THEN Untold ELSE @,
               !.codec = IF Converting(p) /\ @ = "mov_text" THEN "srt" ELSE @,
               !.role = IF i \in Stripped(p) THEN "plain" ELSE @]

\* Only Matroska keeps the tag that says it was made, and it reports no rate.
Encoded(p, a, row, i) ==
  [kind |-> "audio", channels |-> row.channels, codec |-> row.codec,
   lang |-> IF i \in a.tag THEN p.original ELSE Tongue(p.streams[i]),
   rate |-> IF KeepsTags(OutExt(p)) THEN 0 ELSE row.rate,
   made |-> IF KeepsTags(OutExt(p)) THEN Settings(row) ELSE <<>>,
   role |-> "plain", names |-> Untold, released |-> FALSE]

Outputs(p, a) ==
  {[src |-> i, encode |-> FALSE, stream |-> Copy(p, a, i)] :
     i \in Videos(p) \cup a.copied \cup Subtitles(p) \cup Trailing(p)}
  \cup {[src |-> m[2], encode |-> TRUE, stream |-> Encoded(p, a, m[1], m[2])] : m \in a.made}

\* AUDIO_LAYOUTS' sizes first, as written, then the rest by channels, mono last.
Rank(p, channels) ==
  LET written == {n \in DOMAIN p.policy.layouts : p.policy.layouts[n].channels = channels}
  IN IF written # {} THEN <<0, Min(written), 0>>
     ELSE <<1, IF channels < 2 THEN 1 ELSE 0, channels>>

\* Video, audio by rank with the new track ahead of an equal, subtitles, the rest.
Section(kind) == CASE kind = "video" -> 0 [] kind = "audio" -> 1
                   [] kind = "subtitle" -> 2 [] OTHER -> 3
AudioRank(p, o) == IF o.stream.kind = "audio" THEN Rank(p, o.stream.channels) ELSE <<0, 0, 0>>
Copied(o) == IF o.stream.kind = "audio" /\ ~o.encode THEN 1 ELSE 0
Position(p, o) == <<Section(o.stream.kind)>> \o AudioRank(p, o) \o <<Copied(o), o.src>>

\* Input order, a generated track after its source.
InputPosition(p, o) == <<o.src, IF o.encode THEN 1 ELSE 0>> \o AudioRank(p, o)

\* Sort keys are compared at the first place they differ.
Lower(k, l) == \E n \in DOMAIN k : k[n] < l[n] /\ \A m \in 1..(n - 1) : k[m] = l[m]

\* What has a key, by its key.
Sorted(key) ==
  LET place == [o \in DOMAIN key |-> Cardinality({u \in DOMAIN key : Lower(key[u], key[o])}) + 1]
  IN [n \in 1..Cardinality(DOMAIN key) |-> CHOOSE o \in DOMAIN key : place[o] = n]
Ordered(p, outs) == Sorted([o \in outs |-> Position(p, o)])
Unordered(p, outs) == Sorted([o \in outs |-> InputPosition(p, o)])

\* Copied streams only: a drop is not a reorder, a new track is an insertion.
Reordered(p, outs) ==
  \E o, u \in {w \in outs : ~w.encode} :
    o.src < u.src /\ Lower(Position(p, u), Position(p, o))

(***************************************************************************)
(* The verdict of a pass: why it skips, and the rules that found a change.   *)
(***************************************************************************)
Skip(p, a) == CASE Videos(p) = {} -> "no video stream"
                [] a.named = {} -> "no audio left"
                [] OTHER -> ""

\* What is recorded before a pass may give up on the file.
FiredEarly(p) ==
  {r \in p.acting :
    \/ r = "cover_art" /\ \E i \in AllOf(p, "video") : Cover(p.streams[i])
    \/ r = "stray_streams" /\ AllOf(p, "data") # {}}
FiredBySource(p) ==
  FiredEarly(p) \cup {r \in p.acting :
    \/ r = "remux" /\ Converting(p)
    \/ r = "languages" /\ \E kind \in {"audio", "subtitle"} : InLanguage(p, kind) # AllOf(p, kind)}

\* The rules with a mode that found something in the tracks.
FiredByTracks(p, a) ==
  {r \in p.acting :
    \/ r = "commentary" /\ a.spoken # a.named
    \/ r = "regenerate" /\ a.stale \cup a.fat # {}
    \/ r = "sdh" /\ RedundantSdh(p) # {}
    \/ r = "tag_original" /\ a.tag # {}
    \/ r = "release_tags" /\ (p.tagged \/ Cleared(p, a) # {})
    \/ r = "dv_strip" /\ Stripped(p) # {}
    \/ r = "order" /\ Reordered(p, Outputs(p, a))}
\* What a row of the lists says has no mode.
FiredByRows(p, a) ==
  {r \in {"downmix"} : a.worth # a.spoken \/ Added(p, a.mixes, a.stale) # {}}
  \cup {r \in {"drop_layouts"} : a.staying # a.kept}

Fired(p, a) ==
  CASE Videos(p) = {} -> FiredEarly(p)
    [] a.named = {} -> FiredBySource(p)
    [] OTHER -> FiredBySource(p) \cup FiredByTracks(p, a) \cup FiredByRows(p, a)

(***************************************************************************)
(* The plan: a pass with the rules that may order a rewrite decides, and one  *)
(* with the ride-alongs too is what is then done.                           *)
(***************************************************************************)
Deciding(f, rules, lang) == PassOver(f, rules, lang, RulesIn(rules, {"always"}))
Whole(f, rules, lang) == PassOver(f, rules, lang, RulesIn(rules, {"always", "alongside"}))
Reasons(p, a) == Fired(p, a) \ RulesIn(p.policy, {"alongside"})

\* Left alone before any probe.
Refused(f, rules) == f.ext \notin rules.exts \/ (rules.skip_hardlinks /\ f.linked)

Needed(f, rules, lang) ==
  LET p == Whole(f, rules, lang)
      a == Audio(p)
      deciding == Deciding(f, rules, lang)
  IN /\ ~Refused(f, rules)
     /\ Fired(deciding, Audio(deciding)) # {}
     /\ Skip(p, a) = "" /\ Reasons(p, a) # {}

\* The file a plan leaves.  A rewrite is a new file, with no link to another.
Rewritten(f, rules, lang) ==
  LET p == Whole(f, rules, lang)
      made == Outputs(p, Audio(p))
      outs == IF Acts(p, "order") THEN Ordered(p, made) ELSE Unordered(p, made)
  IN [streams |-> [n \in DOMAIN outs |-> outs[n].stream], ext |-> OutExt(p),
      tagged |-> f.tagged /\ ~Acts(p, "release_tags"), linked |-> FALSE]

\* The tag that is the whole of a plan is written into the header, where the file
\* is Matroska and no other name shares it; no ride-along is done.
InPlace(f, rules, lang) ==
  LET p == Whole(f, rules, lang)
      a == Audio(p)
  IN IF Reasons(p, a) = {"tag_original"} /\ f.ext = "mkv" /\ ~f.linked
     THEN a.tag \cap a.copied ELSE {}

Tagged(f, lang, i) == [f EXCEPT !.streams[i].lang = lang]

(***************************************************************************)
(* The state machine.                                                       *)
(***************************************************************************)
PlannerInit ==
  /\ film \in Film /\ policy \in Accepted
  /\ original \in Origin \cup {Untold}
  /\ rewrites = 0 /\ edits = 0 /\ answers = 0

\* One visit that finds something to do does it.
Apply ==
  /\ Needed(film, policy, original)
  /\ film' = LET edit == InPlace(film, policy, original)
             IN IF edit = {} THEN Rewritten(film, policy, original)
                ELSE Tagged(film, original, CHOOSE i \in edit : TRUE)
  /\ rewrites' = rewrites + 1
  /\ UNCHANGED <<policy, original, edits, answers>>

SaveUnchecked ==
  /\ edits < MaxEdits
  /\ policy' \in {FromConfig(d) : d \in Draft} \ {policy}
  /\ rewrites' = 0 /\ edits' = edits + 1
  /\ UNCHANGED <<film, original, answers>>

\* A save that would leave the settings unusable is refused whole.
SaveSettings ==
  /\ edits < MaxEdits
  /\ policy' \in Accepted \ {policy}
  /\ rewrites' = 0 /\ edits' = edits + 1
  /\ UNCHANGED <<film, original, answers>>

\* The *arr names another language, or stops answering.
Answer ==
  /\ answers < MaxAnswers
  /\ original' \in (Origin \cup {Untold}) \ {original}
  /\ rewrites' = 0 /\ answers' = answers + 1
  /\ UNCHANGED <<film, policy, edits>>

PlannerNext == Apply \/ SaveSettings \/ Answer
PlannerSpec == PlannerInit /\ [][PlannerNext]_plannerVars

PlannerTypeOK ==
  /\ film \in File /\ policy \in Accepted /\ original \in Origin \cup {Untold}
  /\ rewrites \in Nat /\ edits \in 0..MaxEdits /\ answers \in 0..MaxAnswers

(***************************************************************************)
(* Properties.                                                              *)
(***************************************************************************)
Plain(f) == {i \in DOMAIN f.streams : f.streams[i].kind = "audio" /\ ~Commentary(f.streams[i])}
HeardIn(f) == {Tongue(f.streams[i]) : i \in Plain(f)}

\* Under settings and an answer that stand, a file stops being rewritten.
\* The longest chain there is takes four rewrites.
RewritesSettle == rewrites <= 4

\* What the settings put up for removal.
Expendable(s) ==
  \/ s.channels \in SizesOf(Rows(policy.layouts, "remove"))
  \/ s.made # <<>>
  \/ /\ policy.modes["regenerate"] # "never" /\ policy.scope = "all"
     /\ s.channels \in SizesOf(Downmixed(policy))

\* A rewrite leaves something to hear, and takes no language an owner listed, and no
\* untagged track, out of a file, but for tracks of a size they told it to remove, or
\* to make again: planner.py's kept_audio and what it falls back on.
ListedLanguagesStayHeard ==
  [][film' # film =>
       /\ \E i \in DOMAIN film'.streams : film'.streams[i].kind = "audio"
       /\ \A i \in Plain(film) :
            LET s == film.streams[i]
            IN Tongue(s) \in {Untold} \cup {row.name : row \in Range(Resolve(policy, original))}
               /\ ~Expendable(s)
               => \/ Tongue(s) \in HeardIn(film')
                  \/ Tongue(s) = Untold /\ original \in HeardIn(film')]_plannerVars

Settled(f, rules, lang) ==
  LET p == Whole(f, rules, lang)
  IN ~Refused(f, rules) /\ Skip(p, Audio(p)) = "" /\ ~Needed(f, rules, lang)

\* A track at a layout's size, or one to make it from.
Answers(f, lang, channels) ==
  {i \in Plain(f) : Tongue(f.streams[i]) = lang /\ f.streams[i].channels >= channels}
Has(f, lang, channels) ==
  \E i \in Answers(f, lang, channels) : f.streams[i].channels = channels

\* What a regenerate rule that only rides along would drop: a track of the size that
\* is untagged or of the language, which claims the downmix made there, or all there is
\* to make one from.
Withheld(p, f, lang, channels) ==
  LET stale == Audio(p).stale
  IN /\ p.policy.modes["regenerate"] = "alongside"
     /\ \/ \E i \in stale : /\ f.streams[i].channels = channels
                            /\ Tongue(f.streams[i]) \in {Untold, lang}
        \/ Answers(f, lang, channels) \subseteq stale

\* A settled file has every layout in every wanted language that has anything bigger,
\* but where a riding rule withholds it: planner.py's _choose_downmixes, over every
\* pass that _record does not count for a reason.
SettledFilesAreServed ==
  Settled(film, policy, original) =>
    LET p == Whole(film, policy, original)
    IN \A row \in Downmixed(policy), lang \in Wanted(p) :
         Answers(film, lang, row.channels) # {} =>
           Has(film, lang, row.channels) \/ Withheld(p, film, lang, row.channels)
=============================================================================
