----------------------------- MODULE ConfigSeed -----------------------------
(***************************************************************************)
(* The config seed of og_helper.py (`cmd_seed'): every start of the host   *)
(* merges the platform's defaults into config.yaml, which belongs to the   *)
(* tenant, and remembers in one marker file per provider that the provider *)
(* was decided.  The file is read, changed in memory and replaced without  *)
(* a lock, and the markers follow one by one.                              *)
(***************************************************************************)
EXTENDS SeedEvents, FiniteSets

CONSTANTS
  Wanted,      \* OG_PROVIDERS, as a set: the scopes of its two entries differ
  Own,         \* the name of an entry only the tenant has
  NoHost,      \* no host: block
  Odd,         \* a value that is not a mapping (of host: or of providers:)
  Broken       \* config.yaml that cannot be read or parsed

Providers == {"claude-subscription", "pi-original"}
Scopes == {"anthropic", "pi"}
Names == Providers \cup {Own}
HostBlocks == [ours : BOOLEAN, id : BOOLEAN]

VARIABLES
  config,    \* config.yaml
  markers,   \* providers with a file seeded-provider-<name>
  cpc,       \* the helper: idle, write (config.yaml), mark (the providers)
  draft,     \* the merged configuration in memory (Broken: none)
  marks,     \* markers still to write
  \* History: how often the kit added a provider, additions whose run died before
  \* the marker, config.yaml changed since it was read, an undisturbed run.
  adds, unmarked, stale, calm

chistory == <<adds, unmarked, stale, calm>>
cvars == <<config, markers, cpc, draft, marks, events, chistory>>

\* The defaults an entry claims stand for the entry.
NoProvider == {"no entry"}
ProviderEntries == {NoProvider} \cup SUBSET Scopes
Hosts == {NoHost, Odd} \cup HostBlocks
Configs == [host : Hosts, telemetry : BOOLEAN, providers : {Odd} \cup [Names -> ProviderEntries],
            rest : BOOLEAN]

ASSUME ConfigAssumption ==
  /\ Wanted \subseteq Providers /\ Own \notin Providers
  /\ NoHost # Odd /\ NoHost \notin HostBlocks /\ Odd \notin HostBlocks /\ Broken \notin Configs

Scope(n) == IF n = "pi-original" THEN "pi" ELSE "anthropic"
Claims(providers, s) == {n \in Names : providers[n] # NoProvider /\ s \in providers[n]}
NoProviders == [n \in Names |-> NoProvider]

FreshConfig == [host |-> NoHost, telemetry |-> TRUE, providers |-> NoProviders, rest |-> FALSE]

CInit ==
  /\ config = FreshConfig
  /\ markers = {} /\ cpc = "idle" /\ draft = Broken /\ marks = {}
  /\ events = 0
  /\ adds = [n \in Providers |-> 0] /\ unmarked = {} /\ stale = FALSE /\ calm = FALSE
-----------------------------------------------------------------------------
(* The run of the helper. *)

\* Mutant: the block is written anew.
NewHost(host) == IF host = Odd THEN Odd ELSE [ours |-> TRUE, id |-> FALSE]
\* The name is set, the id is kept; a missing block is created without an id.
NamedHost(host) ==
  CASE host = Odd -> Odd
    [] host = NoHost -> [ours |-> TRUE, id |-> FALSE]
    [] OTHER -> [host EXCEPT !.ours = TRUE]

\* Mutant: the markers are not looked at.
UndecidedAll(cfg) == IF cfg.providers = Odd THEN {} ELSE Wanted
Undecided(cfg) == IF cfg.providers = Odd THEN {} ELSE Wanted \ markers

\* Undecided providers the tenant has no entry for and nobody claims the default of.
Additions(cfg) ==
  {n \in Undecided(cfg) : cfg.providers[n] = NoProvider /\ Claims(cfg.providers, Scope(n)) = {}}

Merged(cfg) ==
  [cfg EXCEPT !.host = NamedHost(@), !.telemetry = FALSE,
              !.providers = IF @ = Odd THEN Odd
                            ELSE [n \in Names |-> IF n \in Additions(cfg) THEN {Scope(n)} ELSE @[n]]]

\* Exit 1, nothing touched.
Refuse ==
  /\ cpc = "idle" /\ config = Broken /\ calm' = TRUE
  /\ UNCHANGED <<config, markers, cpc, draft, marks, events, adds, unmarked, stale>>

Merge ==
  /\ cpc = "idle" /\ config # Broken
  /\ IF Merged(config) # config THEN cpc' = "write" /\ draft' = Merged(config)
                                ELSE cpc' = "mark" /\ UNCHANGED draft
  /\ marks' = Undecided(config)
  /\ stale' = FALSE /\ calm' = TRUE
  /\ UNCHANGED <<config, markers, events, adds, unmarked>>

Lacks(cfg, n) == cfg # Broken /\ cfg.providers # Odd /\ cfg.providers[n] = NoProvider

WriteConfig ==
  /\ cpc = "write" /\ cpc' = "mark" /\ config' = draft
  /\ adds' = [n \in Providers |-> IF n \in marks /\ Lacks(config, n) /\ ~Lacks(draft, n)
                                  THEN adds[n] + 1 ELSE adds[n]]
  /\ draft' = Broken
  /\ UNCHANGED <<markers, marks, events, unmarked, stale, calm>>

Mark(n) ==
  /\ cpc = "mark" /\ n \in marks
  /\ markers' = markers \cup {n} /\ marks' = marks \ {n} /\ unmarked' = unmarked \ {n}
  /\ UNCHANGED <<config, cpc, draft, events, adds, stale, calm>>

Done ==
  /\ cpc = "mark" /\ marks = {} /\ cpc' = "idle"
  /\ UNCHANGED <<config, markers, draft, marks, events, chistory>>

\* Killed, or an OSError while config.yaml or a marker is written.
CDie ==
  /\ cpc # "idle" /\ Happens
  /\ cpc' = "idle" /\ unmarked' = IF cpc = "mark" THEN unmarked \cup marks ELSE unmarked
  /\ draft' = Broken /\ marks' = {} /\ calm' = FALSE
  /\ UNCHANGED <<config, markers, adds, stale>>

CHelperStep == Refuse \/ Merge \/ WriteConfig \/ Done \/ \E n \in Providers : Mark(n)
-----------------------------------------------------------------------------
(* The others: each of them replaces the file as a whole. *)

Replaced(cfg) ==
  /\ config' = cfg /\ stale' = TRUE /\ calm' = FALSE
  /\ UNCHANGED <<markers, cpc, draft, marks, adds, unmarked>>

\* What a tenant's editor or CLI may leave of a configuration.
EditsOf(cfg) ==
  IF cfg = Broken
  THEN {FreshConfig}
  ELSE {Broken, [cfg EXCEPT !.rest = ~@], [cfg EXCEPT !.telemetry = TRUE]}
       \cup {[cfg EXCEPT !.host = h] : h \in {NoHost, Odd, [ours |-> FALSE, id |-> TRUE]}}
       \cup {[cfg EXCEPT !.providers = Odd]}
       \cup IF cfg.providers = Odd THEN {[cfg EXCEPT !.providers = NoProviders]}
            ELSE {[cfg EXCEPT !.providers[n] = NoProvider] : n \in Names}
                 \cup {[cfg EXCEPT !.providers[Own] = {"anthropic"}],
                       [cfg EXCEPT !.providers["pi-original"] = {}]}

TenantEdits ==
  /\ Happens
  /\ \E cfg \in EditsOf(config) \ {config} : Replaced(cfg)

\* omnigent generates the id when it finds a block without one.
MintsId ==
  /\ config # Broken /\ config.host \notin {NoHost, Odd} /\ ~config.host.id
  /\ Replaced([config EXCEPT !.host.id = TRUE])
  /\ UNCHANGED events

COutsiders == TenantEdits \/ MintsId

CNext == CHelperStep \/ CDie \/ COutsiders
CSpec == CInit /\ [][CNext]_cvars
-----------------------------------------------------------------------------
(* Properties. *)

CTypeOK ==
  /\ config \in {Broken} \cup Configs /\ draft \in {Broken} \cup Configs
  /\ markers \subseteq Providers /\ marks \subseteq Providers
  /\ cpc \in {"idle", "write", "mark"}
  /\ events \in 0..MaxEvents
  /\ adds \in [Providers -> 0..(1 + MaxEvents)] /\ unmarked \subseteq Providers
  /\ stale \in BOOLEAN /\ calm \in BOOLEAN

KeepsSettings ==
  /\ config # Broken /\ config'.rest = config.rest
  /\ config.host = Odd => config'.host = Odd
  /\ config.host \notin {NoHost, Odd} => config'.host.id = config.host.id
  /\ config.providers = Odd => config'.providers = Odd
  /\ config.providers # Odd =>
       /\ \A n \in Names : config.providers[n] # NoProvider => config'.providers[n] = config.providers[n]
       /\ config'.providers[Own] = config.providers[Own]
       /\ \A s \in Scopes : Claims(config'.providers, s) # Claims(config.providers, s) =>
                              Cardinality(Claims(config'.providers, s)) = 1

\* "without destroying tenant settings": what the helper writes differs from what
\* it replaces in the host's name, the telemetry switch and the entries of wanted
\* providers nobody had, and no default gets a second claim from it, unless the
\* file changed after the helper had read it.
MergeKeepsSettings == [][cpc = "write" /\ cpc' = "mark" /\ ~stale => KeepsSettings]_cvars

\* The kit adds a provider once per volume, whatever the tenant does with the
\* entry afterwards and whatever it overwrites, unless the run that added it died
\* before the marker.
AddedOnce ==
  [][\A n \in Providers : adds'[n] > adds[n] => adds[n] = 0 \/ n \in unmarked]_cvars

\* After a run nobody disturbed the name is the platform's, telemetry is off and
\* every wanted provider is decided for good.
DefaultsInPlace ==
  cpc = "idle" /\ calm /\ config # Broken =>
    /\ config.host = Odd \/ (config.host # NoHost /\ config.host.ours)
    /\ ~config.telemetry
    /\ config.providers # Odd => Wanted \subseteq markers
=============================================================================
