-------------------------------- MODULE Settings --------------------------------
(***************************************************************************)
(* What is read from files: mtw.toml, by a server at its start             *)
(* (load_config() of crates/mtw-server/src/main.rs, MtwConfig of           *)
(* crates/mtw-core), in which environment variables are expanded before it *)
(* is parsed; and mtw-module.toml, by the tools of the registry            *)
(* (crates/mtw-registry/src/manifest.rs).  Text is a sequence of pieces;   *)
(* files may come and go while they are looked for.                        *)
(***************************************************************************)
EXTENDS Integers, FiniteSets, SequencesExt

CONSTANTS Environments,    \* the environments: the value of each variable that is set
          Documents,       \* files: their text and the tables and keys they have
          AtStart,         \* the sets of paths at which there may be a file at the start
          Given,           \* the path --config names
          FileChanges,     \* bound: files that come or go
          MaxExpansions,   \* bound: replacements of one text
          Drafts           \* manifests as they are written

Variables == {"A", "B"}
Open == "${"
Close == "}"

\* A quote is a value's; it ends the string that the reference is in.
Pieces == Variables \cup {Open, Close, "text", "quote"}
ConfigKeys == {"store", "path", "bridge", "socket", "address"}

UsualPaths == <<"mtw.toml", "config/mtw.toml", "/etc/mtw/mtw.toml">>
Paths == Range(UsualPaths) \cup {Given}

\* A part of a version that is no number.
NotANumber == -1

\* A table has a key once, so no draft names a module twice.
ASSUME SettingsAssumption ==
    /\ \A there \in AtStart : there \subseteq Paths
    /\ \A e \in Environments : DOMAIN e \subseteq Variables /\ Range(e) \subseteq Seq(Pieces)
    /\ \A d \in Documents :
          /\ d.text \in Seq(Pieces) /\ d.keys \subseteq ConfigKeys
          /\ "path" \in d.keys => "store" \in d.keys
          /\ d.keys \cap {"socket", "address"} # {} => "bridge" \in d.keys
    /\ \A d \in Drafts :
          /\ d.version \in Seq(Nat \cup {NotANumber})
          /\ IsFiniteSet(d.dependencies)
          /\ \A x, y \in d.dependencies : x.name = y.name => x = y
    /\ FileChanges \in Nat /\ MaxExpansions \in Nat

VARIABLES
    environment,  \* the variables that are set
    files,        \* the file at each path, or none
    fileChanges,      \* how many have come or gone
    configArg,       \* --config: not there, there without a path, with one
    loading,      \* where load_config() is, if this is a server
    looked,       \* how many of the usual paths it has looked at
    text,         \* the text, as far as it is expanded
    expansions,   \* how many references are
    config,       \* what came out: the keys and texts, the defaults, or an error
    throughout,   \* history: the paths at which there was a file all the time
    origin,       \* history: the path and the document that were read
    draft,        \* a manifest as it is written
    manifest      \* what is made of it

fileVars == <<environment, files, fileChanges, configArg>>
loadVars == <<loading, looked, text, expansions, config, origin>>
manifestVars == <<draft, manifest>>
settingsVars == <<fileVars, loadVars, throughout, manifestVars>>

ConfigArgs == {"no", "without", "with"}
Missing == [keys |-> {}, text |-> <<>>, there |-> FALSE]
File(d) == [keys |-> d.keys, text |-> d.text, there |-> TRUE]
NoConfig == [from |-> "nothing", store |-> FALSE, bridge |-> FALSE, text |-> <<>>]

NoDraft == [name |-> ""]
NoOrigin == [path |-> Given, keys |-> {}, text |-> <<>>]

SettingsTypeOK ==
    /\ environment \in Environments
    /\ \A p \in Paths : files[p] = Missing \/ files[p].text \in Seq(Pieces)
    /\ fileChanges \in 0..FileChanges /\ configArg \in ConfigArgs
    /\ loading \in {"none", "args", "looking", "found", "read", "over"}
    /\ looked \in 0..Len(UsualPaths) /\ text \in Seq(Pieces)
    /\ expansions \in 0..MaxExpansions
    /\ config.from \in {"nothing", "file", "defaults", "error"}
    /\ throughout \subseteq Paths /\ origin.path \in Paths
    /\ draft \in Drafts \cup {NoDraft} /\ manifest.is \in {"unread", "error", "read"}

FilesAtStart(there, d) ==
    /\ files = [p \in Paths |-> IF p \in there THEN File(d) ELSE Missing]
    /\ throughout = there

SettingsInit ==
    /\ environment \in Environments /\ configArg \in ConfigArgs
    /\ \E there \in AtStart, d \in Documents : FilesAtStart(there, d)
    /\ fileChanges = 0
    /\ loading \in {"args", "none"} /\ looked = 0 /\ text = <<>> /\ expansions = 0
    /\ config = NoConfig /\ origin = NoOrigin
    /\ draft = NoDraft /\ manifest = [is |-> "unread"]

-----------------------------------------------------------------------------
(* mtw.toml.                                                               *)

\* Somebody else makes, replaces or removes a file.
FileChange ==
    /\ loading \notin {"none", "over"}
    /\ fileChanges < FileChanges /\ fileChanges' = fileChanges + 1
    /\ \E p \in Paths : \E f \in {Missing} \cup {File(d) : d \in Documents} :
          /\ files' = [files EXCEPT ![p] = f]
          /\ throughout' = IF f.there THEN throughout ELSE throughout \ {p}
    /\ UNCHANGED <<environment, configArg, loadVars, manifestVars>>

Rests == UNCHANGED <<fileVars, throughout, manifestVars>>

\* The path after --config, if there is one, whatever is at it.
ReadArgs ==
    /\ loading = "args"
    /\ IF configArg = "with" THEN loading' = "found" /\ origin' = [origin EXCEPT !.path = Given]
       ELSE loading' = "looking" /\ UNCHANGED origin
    /\ Rests /\ UNCHANGED <<looked, text, expansions, config>>

\* The usual paths in turn, until a file is at one ...
LookAt ==
    /\ loading = "looking" /\ looked < Len(UsualPaths)
    /\ looked' = looked + 1
    /\ IF files[UsualPaths[looked + 1]].there
       THEN loading' = "found" /\ origin' = [origin EXCEPT !.path = UsualPaths[looked + 1]]
       ELSE UNCHANGED <<loading, origin>>
    /\ Rests /\ UNCHANGED <<text, expansions, config>>

\* ... or default_config().
UseDefaults ==
    /\ loading = "looking" /\ looked = Len(UsualPaths)
    /\ config' = [NoConfig EXCEPT !.from = "defaults"]
    /\ loading' = "over"
    /\ Rests /\ UNCHANGED <<looked, text, expansions, origin>>

\* from_file(): what was there a moment ago may be gone by now.
ReadConfig ==
    /\ loading = "found"
    /\ LET f == files[origin.path]
       IN IF f.there
          THEN /\ loading' = "read" /\ text' = f.text
               /\ origin' = [origin EXCEPT !.keys = f.keys, !.text = f.text]
               /\ UNCHANGED config
          ELSE /\ loading' = "over" /\ config' = [NoConfig EXCEPT !.from = "error"]
               /\ UNCHANGED <<text, origin>>
    /\ Rests /\ UNCHANGED <<looked, expansions>>

\* The value of what is between the first "${" and the next "}": of one name that
\* is set, and nothing for all the rest.
Value(name) ==
    IF Len(name) = 1 /\ Head(name) \in DOMAIN environment THEN environment[Head(name)] ELSE <<>>

Openings(t) == {i \in DOMAIN t : t[i] = Open}
First(S) == CHOOSE i \in S : \A j \in S : i <= j
Closings(t) == {i \in DOMAIN t : t[i] = Close /\ i > First(Openings(t))}
Refers(t) == Openings(t) # {} /\ Closings(t) # {}

\* Fault: the search goes on behind the value.
ReplaceOnce(t) ==
    LET i == First(Openings(t))
        j == First(Closings(t))
        value == SelectSeq(Value(SubSeq(t, i + 1, j - 1)), LAMBDA p : p # Open)
    IN SubSeq(t, 1, i - 1) \o value \o SubSeq(t, j + 1, Len(t))

\* The search starts again from the front, so values are expanded as well.
Replace(t) ==
    LET i == First(Openings(t))
        j == First(Closings(t))
    IN SubSeq(t, 1, i - 1) \o Value(SubSeq(t, i + 1, j - 1)) \o SubSeq(t, j + 1, Len(t))

ExpandOne ==
    /\ loading = "read" /\ Refers(text)
    /\ expansions < MaxExpansions /\ expansions' = expansions + 1
    /\ text' = Replace(text)
    /\ Rests /\ UNCHANGED <<loading, looked, config, origin>>

\* toml::from_str() of what came out: a store needs its path, and a table for its
\* bridge makes a store.  What is not there takes its default.
HasStore(keys) == keys \cap {"store", "bridge"} # {}
HasBridge(keys) == "bridge" \in keys /\ keys \cap {"socket", "address"} # {}
Parses(keys, t) == "quote" \notin Range(t) /\ (HasStore(keys) => "path" \in keys)

ParseConfig ==
    /\ loading = "read" /\ ~Refers(text)
    /\ config' = IF Parses(origin.keys, text)
                 THEN [from |-> "file", store |-> HasStore(origin.keys),
                       bridge |-> HasBridge(origin.keys), text |-> text]
                 ELSE [NoConfig EXCEPT !.from = "error"]
    /\ loading' = "over"
    /\ Rests /\ UNCHANGED <<looked, text, expansions, origin>>

-----------------------------------------------------------------------------
(* mtw-module.toml.                                                        *)

\* validate_semver(): one to three numbers; "" has one part, which is none.
ValidVersion(v) == Len(v) \in 1..3 /\ \A i \in DOMAIN v : v[i] # NotANumber

ModuleTypes == {"transport", "middleware", "ai_provider", "ai_agent", "codec", "auth", "storage",
                "channel", "integration", "ui"}

\* Dependencies are written as a version, as a table that may lack it, or as
\* something else, which counts as any version.
Dependency(d) ==
    [name |-> d.name, optional |-> d.form = "table" /\ d.optional,
     version |-> IF d.form \in {"string", "table"} THEN d.version ELSE "*"]

ManifestError(d) ==
    IF d.name = "" THEN "name"
    ELSE IF d.version = <<>> THEN "version"
    ELSE IF ~ValidVersion(d.version) THEN "invalid version"
    ELSE IF d.type \notin ModuleTypes THEN "type" ELSE "none"

\* from_toml(), and what to_module_manifest() makes of it.
ReadManifest ==
    /\ loading = "none" /\ manifest.is = "unread"
    /\ draft' \in Drafts
    /\ manifest' = IF ManifestError(draft') # "none"
                   THEN [is |-> "error", why |-> ManifestError(draft')]
                   ELSE [is |-> "read", name |-> draft'.name, version |-> draft'.version,
                         type |-> draft'.type, permissions |-> draft'.permissions,
                         dependencies |-> {Dependency(d) : d \in draft'.dependencies}]
    /\ UNCHANGED <<fileVars, loadVars, throughout>>

SettingsNext ==
    \/ FileChange \/ ReadArgs \/ LookAt \/ UseDefaults \/ ReadConfig \/ ExpandOne \/ ParseConfig
    \/ ReadManifest

SettingsSpec == SettingsInit /\ [][SettingsNext]_settingsVars

-----------------------------------------------------------------------------

\* Which file it is, though they come and go while they are looked for: no usual
\* path is passed over at which there has been a file all the time, and an error
\* means that the file has gone or cannot be parsed.
FirstFileWins ==
    LET Passed == {UsualPaths[i] : i \in {i \in 1..looked : UsualPaths[i] # origin.path}}
    IN /\ Passed \cap throughout = {}
       /\ config.from = "defaults" => configArg # "with" /\ Range(UsualPaths) \cap throughout = {}
       /\ config.from = "error" /\ origin.path \in throughout => ~Parses(origin.keys, text)

\* The variables a variable's value refers to, in the end.
Referred(t) == Range(t) \cap DOMAIN environment
Reach == [v \in DOMAIN environment |->
            Referred(environment[v])
              \cup UNION {Referred(environment[w]) : w \in Referred(environment[v])}]
Circular == \E v \in DOMAIN environment : v \in Reach[v]

\* Text all of whose references are whole and next to each other.
Whole(t) ==
    \A i \in DOMAIN t :
       /\ t[i] = Open => i + 2 \in DOMAIN t /\ t[i + 1] \in Variables /\ t[i + 2] = Close
       /\ t[i] = Close => i > 2 /\ t[i - 2] = Open

\* What whole text means: each reference is the meaning of its value.
Meaning(t) ==
    LET Deeper[n \in 0..Cardinality(Variables), u \in Range(environment) \cup {t}] ==
          LET Piece(i) == CASE u[i] \in {Open, Close} -> <<>>
                            [] u[i] \notin {Open, Close} /\ i > 1 /\ u[i - 1] = Open ->
                                 IF u[i] \in DOMAIN environment /\ n > 0
                                 THEN Deeper[n - 1, environment[u[i]]] ELSE <<>>
                            [] OTHER -> <<u[i]>>
          IN FlattenSeq([i \in DOMAIN u |-> Piece(i)])
    IN Deeper[Cardinality(Variables), t]

\* Every reference is replaced by what it means, and that comes to an end, unless
\* a variable refers to itself, in which case the server never starts.
ExpandedWhole ==
    /\ ~Circular /\ (\A t \in Range(environment) \cup {origin.text} : Whole(t))
         /\ config.from = "file" => config.text = Meaning(origin.text)
    /\ expansions = MaxExpansions /\ Refers(text) => Circular

\* A manifest that is read names a version the resolver can compare, and needs
\* what it says it needs.
ManifestsUsable ==
    manifest.is = "read" =>
       /\ manifest.version \in Seq(Nat) /\ Len(manifest.version) \in 1..3
       /\ {d.name : d \in manifest.dependencies} = {d.name : d \in draft.dependencies}
       /\ Cardinality(manifest.dependencies) = Cardinality(draft.dependencies)

\* What a server reads at its start is what is written (crates/mtw-core/src/config.rs).
ReadAtStart == FirstFileWins /\ ExpandedWhole /\ ManifestsUsable

=================================================================================
