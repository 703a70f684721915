----------------------------- MODULE Installer -----------------------------
(***************************************************************************)
(* The installer (scripts/install-oc-codex-multi-auth-core.js): it         *)
(* registers the plugin in opencode.json, or in opencode.jsonc when that   *)
(* is the one that exists, and in tui.json, merges the model catalog,      *)
(* backs up what it rewrites, and empties the cache OpenCode loads the     *)
(* plugin from.  Any file operation may fail, the process may be killed,   *)
(* and the user may edit the files meanwhile.                              *)
(*                                                                         *)
(* A file is its plugin list and the set of the keys it holds.             *)
(***************************************************************************)
EXTENDS Naturals, Sequences, SequencesExt

CONSTANTS
  Configs,   \* the configs a user starts from
  TuiLists,  \* the plugin lists of tui.json a user starts from
  MaxRuns,   \* bound: runs of the installer
  MaxEdits   \* bound: edits by the user

\* published: this package's name.  pinned: a version of it, or its former name.
\* cached: a path to it in OpenCode's cache.  checkout, formerCheckout: any other
\* directory that declares this package's name, or its former one.
Entries == {"published", "pinned", "cached", "checkout", "formerCheckout", "other"}
Modes == {"modern", "legacy", "full", "plugin-only"}

VARIABLES
  opened,   \* the user's files exist
  json,     \* opencode.json
  jsonc,    \* opencode.jsonc
  tui,      \* tui.json
  cache,    \* the parts of the cache that are there
  run,      \* the installer's run: [phase, config, tui, target, saved, overtaken]
  runs, edits

vars == <<opened, json, jsonc, tui, cache, run, runs, edits>>

Absent == [plugin |-> <<>>, keys |-> {}, exists |-> FALSE, parses |-> TRUE]
File(plugin, keys) == [plugin |-> plugin, keys |-> keys, exists |-> TRUE, parses |-> TRUE]

CacheParts == {"modules", "packages", "npm", "lock", "manifest"}
NoRun == [phase |-> "none", config |-> Absent, tui |-> Absent,
          target |-> "json", saved |-> Absent, overtaken |-> FALSE]

Init ==
  /\ opened = FALSE
  /\ json = Absent /\ jsonc = Absent /\ tui = Absent
  /\ cache = CacheParts
  /\ run = NoRun /\ runs = 0 /\ edits = 0

\* What the user's machine looks like before the first run.
Open ==
  /\ ~opened /\ opened' = TRUE
  /\ json' \in {Absent} \cup Configs
  /\ jsonc' \in {Absent} \cup IF json'.exists THEN {File(<<"cached">>, {"user"})} ELSE Configs
  /\ tui' \in {Absent} \cup {File(p, {"user"}) : p \in TuiLists}
  /\ UNCHANGED <<cache, run, runs, edits>>

-----------------------------------------------------------------------------
(***************************************************************************)
(* normalizePluginList.  A checkout is where a person pointed OpenCode:    *)
(* it is never removed, and the published name is not put beside it, not   *)
(* in the other file either.                                               *)
(***************************************************************************)
ClassifyPluginEntry(entry) ==
  CASE entry \in {"published", "pinned", "cached"} -> "managed-package"
    [] entry \in {"checkout", "formerCheckout"} -> "local-checkout"
    [] OTHER -> "unrelated"

Has(list, entry) == \E i \in DOMAIN list : list[i] = entry
Occurrences(list, entry) == Len(SelectSeq(list, LAMBDA e : e = entry))

NormalizePluginList(list, checkoutRegistered) ==
  LET covered == checkoutRegistered \/ Has(list, "checkout")
      FirstPublished(i) == list[i] = "published" /\ \A j \in 1..(i - 1) : list[j] # "published"
      Kept(i) == ClassifyPluginEntry(list[i]) = "managed-package" =>
                   list[i] = "published" /\ ~covered /\ FirstPublished(i)
      kept == FoldLeft(LAMBDA acc, i : IF Kept(i) THEN Append(acc, list[i]) ELSE acc,
                       <<>>, [i \in DOMAIN list |-> i])
  IN IF covered \/ Has(kept, "published") THEN kept ELSE Append(kept, "published")

\* mergeOpenaiProvider and the config merge: the catalog's keys replace the
\* managed ones; stale models and top-level credentials go; the rest stays.
Catalog(mode) ==
  CASE mode = "modern" -> {"modernModels"}
    [] mode = "legacy" -> {"legacyModels"}
    [] mode = "full" -> {"modernModels", "legacyModels"}
    [] OTHER -> {}

Pruned(mode) ==
  CASE mode = "modern" -> {"staleModels", "legacyModels", "apiKey"}
    [] mode = "legacy" -> {"staleModels", "modernModels", "apiKey"}
    [] mode = "full" -> {"staleModels", "apiKey"}
    [] OTHER -> {}

NextConfig(existing, mode, checkoutRegistered) ==
  File(NormalizePluginList(existing.plugin, checkoutRegistered),
       (existing.keys \ Pruned(mode)) \cup Catalog(mode)
         \cup IF existing.exists THEN {} ELSE {"schema"})

\* Mutant: each file looks for a checkout in its own list only.
NextFilesApart(config, mode) ==
  [config |-> NextConfig(config, mode, FALSE),
   tui |-> File(NormalizePluginList(tui.plugin, FALSE), tui.keys \cup {"schema"})]

NextFiles(config, mode) ==
  LET registered == Has(config.plugin, "checkout") \/ Has(tui.plugin, "checkout")
  IN [config |-> NextConfig(config, mode, registered),
      tui |-> File(NormalizePluginList(tui.plugin, registered), tui.keys \cup {"schema"})]

(***************************************************************************)
(* A run.  Both files are read and merged before either is written; each   *)
(* is backed up and replaced by a rename, if it changes; the cache goes    *)
(* last.                                                                   *)
(***************************************************************************)
Target == IF ~json.exists /\ jsonc.exists THEN "jsonc" ELSE "json"
Config == IF Target = "jsonc" THEN jsonc ELSE json
Current == IF run.target = "jsonc" THEN jsonc ELSE json

Read(mode) ==
  /\ opened /\ run.phase = "none" /\ runs < MaxRuns
  /\ runs' = runs + 1
  /\ IF Config.parses /\ tui.parses
       THEN LET next == NextFiles(Config, mode)
            IN run' = [phase |-> "config", config |-> next.config, tui |-> next.tui,
                       target |-> Target, saved |-> Absent, overtaken |-> FALSE]
       ELSE UNCHANGED run  \* refused; nothing is written
  /\ UNCHANGED <<opened, json, jsonc, tui, cache, edits>>

\* Mutant: the file is rewritten without a copy.
BackUpConfigNot ==
  /\ run.phase = "config"
  /\ run' = [run EXCEPT !.phase = "write config"]
  /\ UNCHANGED <<opened, json, jsonc, tui, cache, runs, edits>>

BackUpConfig ==
  /\ run.phase = "config"
  /\ IF Current = run.config
       THEN run' = [run EXCEPT !.phase = "tui"]
       ELSE run' = [run EXCEPT !.phase = "write config", !.saved = Current]
  /\ UNCHANGED <<opened, json, jsonc, tui, cache, runs, edits>>

WriteConfig ==
  /\ run.phase = "write config"
  /\ IF run.target = "jsonc"
       THEN jsonc' = run.config /\ UNCHANGED json
       ELSE json' = run.config /\ UNCHANGED jsonc
  /\ run' = [run EXCEPT !.phase = "tui"]
  /\ UNCHANGED <<opened, tui, cache, runs, edits>>

BackUpTui ==
  /\ run.phase = "tui"
  /\ IF tui = run.tui
       THEN run' = [run EXCEPT !.phase = "cache"]
       ELSE run' = [run EXCEPT !.phase = "write tui", !.saved = tui]
  /\ UNCHANGED <<opened, json, jsonc, tui, cache, runs, edits>>

WriteTui ==
  /\ run.phase = "write tui"
  /\ tui' = run.tui
  /\ run' = [run EXCEPT !.phase = "cache"]
  /\ UNCHANGED <<opened, json, jsonc, cache, runs, edits>>

\* clearCache removes its targets one by one, and then the plugin from the manifest.
ClearCache ==
  /\ run.phase = "cache" /\ cache # {}
  /\ \E part \in cache :
       /\ part = "manifest" => cache = {"manifest"}
       /\ cache' = cache \ {part}
  /\ UNCHANGED <<opened, json, jsonc, tui, run, runs, edits>>

\* --no-cache-clear leaves all but the manifest.
Finish ==
  /\ run.phase = "cache"
  /\ \/ cache = {} /\ UNCHANGED cache
     \/ cache = CacheParts /\ cache' = cache \ {"manifest"}
  /\ run' = [run EXCEPT !.phase = "done"]
  /\ UNCHANGED <<opened, json, jsonc, tui, runs, edits>>

\* A file operation fails, or the process is killed: the run ends where it is.
Abort ==
  /\ run.phase \notin {"none", "done"}
  /\ run' = NoRun
  /\ UNCHANGED <<opened, json, jsonc, tui, cache, runs, edits>>

\* OpenCode starts and fills the cache again.
Restart ==
  /\ run.phase = "done"
  /\ run' = NoRun /\ cache' = CacheParts
  /\ UNCHANGED <<opened, json, jsonc, tui, runs, edits>>

\* The update command.
Update ==
  /\ opened /\ run.phase = "none" /\ cache # {}
  /\ cache' = {}
  /\ UNCHANGED <<opened, json, jsonc, tui, run, runs, edits>>

\* --v2 writes its own list into opencode.json, and refuses beside a V1 one.
RegisterV2 ==
  /\ opened /\ run.phase = "none" /\ runs < MaxRuns
  /\ ~jsonc.exists /\ json.parses /\ json.plugin = <<>>
  /\ "v2" \notin json.keys
  /\ runs' = runs + 1
  /\ json' = File(<<>>, json.keys \cup {"schema", "v2"})
  /\ UNCHANGED <<opened, jsonc, tui, cache, run, edits>>

\* The user adds an entry or a key, or leaves a file that does not parse; not
\* between the copy and the rename of the same file, where the edit would go.
Edit ==
  /\ opened /\ edits < MaxEdits /\ edits' = edits + 1
  /\ run' = [run EXCEPT !.overtaken = @ \/ run.phase # "none"]
  /\ \/ /\ json.exists /\ run.phase # "write config"
        /\ \/ json' = [json EXCEPT !.keys = @ \cup {"user"}, !.parses = TRUE]
           \/ json' = [json EXCEPT !.parses = FALSE]
        /\ UNCHANGED tui
     \/ /\ tui.exists /\ run.phase # "write tui"
        /\ \E e \in Entries : tui' = [tui EXCEPT !.plugin = Append(@, e)]
        /\ Len(tui.plugin) < 3
        /\ UNCHANGED json
  /\ UNCHANGED <<opened, jsonc, cache, runs>>

Next ==
  \/ Open \/ (\E mode \in Modes : Read(mode))
  \/ BackUpConfig \/ WriteConfig \/ BackUpTui \/ WriteTui
  \/ ClearCache \/ Finish \/ Abort \/ Restart \/ Update \/ RegisterV2 \/ Edit

Spec == Init /\ [][Next]_vars

-----------------------------------------------------------------------------
TypeOK ==
  /\ \A f \in {json, jsonc, tui} : f.plugin \in Seq(Entries) /\ f.exists \in BOOLEAN
  /\ cache \subseteq CacheParts
  /\ run.phase \in {"none", "config", "write config", "tui", "write tui", "cache", "done"}

(***************************************************************************)
(* After a run that was not overtaken by an edit, each file registers the  *)
(* plugin exactly once, or not beside a checkout that either registers:    *)
(* OpenCode never loads two copies of it.                                  *)
(***************************************************************************)
Checkout == Has(Current.plugin, "checkout") \/ Has(tui.plugin, "checkout")

RegisteredOnce ==
  run.phase = "done" /\ ~run.overtaken =>
    \A f \in {Current, tui} :
      /\ Occurrences(f.plugin, "published") = IF Checkout THEN 0 ELSE 1
      /\ ~Has(f.plugin, "pinned")

(***************************************************************************)
(* When a run empties the cache no file it could read still names a path   *)
(* into the cache: the entry would load nothing.                           *)
(***************************************************************************)
NoDanglingEntry ==
  run.phase \in {"cache", "done"} /\ ~run.overtaken =>
    ~Has(Current.plugin, "cached") /\ ~Has(tui.plugin, "cached")

InstallSafe == RegisteredOnce /\ NoDanglingEntry

(***************************************************************************)
(* A rewrite never loses what the user wrote: whatever goes from a file    *)
(* was copied before, and the user's own keys, checkouts and other plugins *)
(* do not go at all.                                                       *)
(***************************************************************************)
Mine(f) == <<f.keys \cap {"user"},
             SelectSeq(f.plugin, LAMBDA e : e \in {"checkout", "formerCheckout", "other"})>>

Loses(f, g) == ~(f.keys \subseteq g.keys) \/ f.plugin # g.plugin

LosesNothing ==
  \A f \in {<<json, json'>>, <<jsonc, jsonc'>>, <<tui, tui'>>} :
    f[1].exists /\ Loses(f[1], f[2]) /\ edits' = edits =>
      f[1] = run.saved /\ (~run.overtaken => Mine(f[1]) = Mine(f[2]))

NothingLost == [][LosesNothing]_vars
=============================================================================
