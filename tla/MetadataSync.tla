---------------------------- MODULE MetadataSync ----------------------------
(***************************************************************************)
(* sync-litellm-model-metadata.py, which the launcher hook of              *)
(* patch-pi-context-window-launcher.py runs before every start of pi: the  *)
(* model limits of the canonical catalog (models.json of the data volume)  *)
(* are copied into the session's catalog, which omnigent generates with    *)
(* branded ids and without limits.  Both files are replaced by others at   *)
(* any time.  A model id is a brand and an alias (the spelling             *)
(* `normalized_model_id' returns); a limit stands for all that is copied.  *)
(***************************************************************************)
EXTENDS Integers, Sequences

CONSTANTS
  Brands, Aliases,
  Limits,
  NoLimit,      \* an entry without the canonical fields
  NoModel,      \* no such entry
  Unreadable,   \* no file, invalid JSON, or nothing usable in it
  Sessions,     \* the sets of models omnigent configures a session with
  Gateway,      \* provider of the session's catalog -> baseUrl
  MaxModels,    \* bound: entries of the canonical catalog
  MaxEvents     \* bound: files replaced, processes killed

Ids == Brands \X Aliases
Providers == DOMAIN Gateway
Urls == {Gateway[p] : p \in Providers}
Ours == {"omnigent", "omnigent-other"}     \* the names that start with "omnigent"

Entries == [id : Ids, limit : Limits]
Catalogs == [url : Urls, models : UNION {[1..n -> Entries] : n \in 0..MaxModels}]
Lists == [Ids -> Limits \cup {NoLimit, NoModel}]

\* What stands for nothing is nothing of its kind.
ASSUME SyncAssumption ==
  /\ MaxModels \in Nat /\ MaxEvents \in Nat
  /\ Ours \subseteq Providers /\ Sessions \subseteq SUBSET Ids
  /\ NoModel \notin Entries \cup Limits \cup {NoLimit}
  /\ Unreadable \notin Catalogs \cup [Providers -> Lists]

VARIABLES
  source, target,  \* the two catalogs
  pc,              \* idle, source, target, write, exec, up (pi runs)
  catalog, draft,  \* what has been read and merged
  events,
  \* History: the target was replaced since it was read, an undisturbed run.
  stale, calm

vars == <<source, target, pc, catalog, draft, events, stale, calm>>

Generated(ids) == [p \in Providers |-> [i \in Ids |-> IF i \in ids THEN NoLimit ELSE NoModel]]

Init ==
  /\ source = Unreadable /\ target = Unreadable
  /\ pc = "idle" /\ catalog = Unreadable /\ draft = Unreadable
  /\ events = 0 /\ stale = FALSE /\ calm = FALSE
-----------------------------------------------------------------------------
(* source_metadata. *)

Alias(id) == id[2]
NoIndex == [exact |-> [i \in Ids |-> NoModel], aliases |-> [a \in Aliases |-> NoModel],
            ambiguous |-> {}]

\* Mutant: the last model with an alias wins.
IndexLast(acc, m) == [acc EXCEPT !.exact[m.id] = m, !.aliases[Alias(m.id)] = m]
\* One model of the list: an alias two ids share is dropped and stays dropped.
Index(acc, m) ==
  LET a == Alias(m.id)
      seen == [acc EXCEPT !.exact[m.id] = m]
  IN  CASE a \in acc.ambiguous -> seen
        [] a \notin acc.ambiguous /\ (acc.aliases[a] = NoModel \/ acc.aliases[a].id = m.id) ->
             [seen EXCEPT !.aliases[a] = m]
        [] OTHER -> [seen EXCEPT !.aliases[a] = NoModel, !.ambiguous = @ \cup {a}]

SourceMetadata(models) ==
  LET upTo[n \in 0..Len(models)] == IF n = 0 THEN NoIndex ELSE Index(upTo[n - 1], models[n])
  IN  upTo[Len(models)]
-----------------------------------------------------------------------------
(* synchronize. *)

Enriches(p, url) == p \in Ours /\ Gateway[p] = url

\* The limit of an entry of the target: the exact id first, then its alias.
Metadata(index, id) ==
  IF index.exact[id] # NoModel THEN index.exact[id] ELSE index.aliases[Alias(id)]

\* Mutant: an entry that has a limit keeps it.
EnrichedOnce(index, id, limit) ==
  IF limit # NoLimit \/ Metadata(index, id) = NoModel THEN limit ELSE Metadata(index, id).limit
Enriched(index, id, limit) ==
  IF limit = NoModel \/ Metadata(index, id) = NoModel THEN limit ELSE Metadata(index, id).limit

Synchronized(cat, old) ==
  LET index == SourceMetadata(cat.models) IN
  [p \in Providers |->
     IF Enriches(p, cat.url) THEN [i \in Ids |-> Enriched(index, i, old[p][i])] ELSE old[p]]

\* Without a target nothing is read.
Start ==
  /\ pc = "idle" /\ calm' = TRUE
  /\ pc' \in IF target = Unreadable THEN {"source", "exec"} ELSE {"source"}
  /\ UNCHANGED <<source, target, catalog, draft, events, stale>>

AbortsHook == "failed"                     \* mutant: set -e
AfterHook == "exec"

\* The hook is over: whatever came of it, pi is executed.
HookEnds == pc' = AfterHook /\ catalog' = Unreadable /\ draft' = Unreadable

\* An error ends it with a message.
ReadSource ==
  /\ pc = "source"
  /\ IF source = Unreadable THEN HookEnds
     ELSE catalog' = source /\ pc' = "target" /\ UNCHANGED draft
  /\ UNCHANGED <<source, target, events, stale, calm>>

ReadTarget ==
  /\ pc = "target" /\ stale' = FALSE
  /\ IF target = Unreadable \/ catalog.models = <<>> THEN HookEnds
     ELSE LET new == Synchronized(catalog, target) IN
          IF new = target THEN HookEnds
          ELSE draft' = new /\ pc' = "write" /\ UNCHANGED catalog
  /\ UNCHANGED <<source, target, events, calm>>

Write ==
  /\ pc = "write" /\ target' = draft /\ HookEnds
  /\ UNCHANGED <<source, events, stale, calm>>

Exec ==
  /\ pc = "exec" /\ pc' = "up"
  /\ UNCHANGED <<source, target, catalog, draft, events, stale, calm>>

Happens == events < MaxEvents /\ events' = events + 1

HookDies ==
  /\ pc \in {"source", "target", "write"} /\ Happens /\ HookEnds /\ calm' = FALSE
  /\ UNCHANGED <<source, target, stale>>

PiEnds ==
  /\ pc = "up" /\ pc' = "idle"
  /\ UNCHANGED <<source, target, catalog, draft, events, stale, calm>>
-----------------------------------------------------------------------------
(* The writers of the two files. *)

PiWebWrites ==
  /\ Happens /\ source' \in Catalogs \cup {Unreadable} /\ calm' = FALSE
  /\ UNCHANGED <<target, pc, catalog, draft, stale>>

\* Each configuration of a session is written anew, without limits.
OmnigentWrites ==
  /\ Happens /\ stale' = TRUE /\ calm' = FALSE
  /\ \/ target' = Unreadable
     \/ \E ids \in Sessions : target' = Generated(ids)
  /\ UNCHANGED <<source, pc, catalog, draft>>

Hook == ReadSource \/ ReadTarget \/ Write \/ Exec
Next == Start \/ Hook \/ HookDies \/ PiEnds \/ PiWebWrites \/ OmnigentWrites

Spec == Init /\ [][Next]_vars
-----------------------------------------------------------------------------
(* Properties. *)

TypeOK ==
  /\ source \in {Unreadable} \cup Catalogs /\ catalog \in {Unreadable} \cup Catalogs
  /\ target \in {Unreadable} \cup [Providers -> Lists]
  /\ draft \in {Unreadable} \cup [Providers -> Lists] /\ (draft # Unreadable) = (pc = "write")
  /\ pc \in {"idle", "source", "target", "write", "exec", "up"}
  /\ events \in 0..MaxEvents /\ stale \in BOOLEAN /\ calm \in BOOLEAN

\* What the canonical catalog says of an id, stated without the index: the last
\* entry of this id, else the last one of its alias if all those have one id.
Entry(models, id) ==
  LET last(S) == models[CHOOSE i \in S : \A j \in S : j <= i].limit
      same == {i \in DOMAIN models : models[i].id = id}
      alike == {i \in DOMAIN models : Alias(models[i].id) = Alias(id)}
  IN  CASE same # {} -> last(same)
        [] same = {} /\ alike # {} /\ (\A i, j \in alike : models[i].id = models[j].id) -> last(alike)
        [] OTHER -> NoLimit

Writes == pc = "write" /\ pc' # "write" /\ events' = events

\* "only unambiguous branded aliases": what a write changes is the limit of an
\* entry of the gateway, and the new one is what the catalog states for this id or
\* for the only model of that name, never another's; no entry comes or goes, and
\* the tenant's providers stay as they are, unless omnigent wrote the file meanwhile.
NeverAnothersLimit ==
  [][Writes /\ ~stale => \A p \in Providers, i \in Ids :
       target'[p][i] # target[p][i] =>
         /\ target[p][i] # NoModel /\ target'[p][i] = Entry(catalog.models, i)
         /\ p \in Ours /\ Gateway[p] = catalog.url]_vars

\* pi starts with every limit the catalog knows, however the file it finds was
\* left by earlier starts, if both files stand still from the hook to the start.
StartsEnriched ==
  pc = "up" /\ calm /\ source # Unreadable /\ target # Unreadable =>
    \A p \in Providers, i \in Ids :
      Enriches(p, source.url) /\ target[p][i] # NoModel =>
        Entry(source.models, i) \in {NoLimit, target[p][i]}
=============================================================================
