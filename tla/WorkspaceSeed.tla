--------------------------- MODULE WorkspaceSeed ---------------------------
(***************************************************************************)
(* The workspace seed of og_helper.py (`cmd_workspace'): every start of    *)
(* the host copies the files of a ConfigMap into the tenant's workspace    *)
(* and records each decision in a manifest.  The files are written one by  *)
(* one, the manifest once at the end, and nothing is locked: the tenant    *)
(* edits and deletes files, the ConfigMap changes and the helper dies at   *)
(* any moment.  A sha256 stands for the content it is computed from.       *)
(***************************************************************************)
EXTENDS SeedEvents

CONSTANTS
  NPaths,       \* the paths of the seed, in the sorted order of the loop
  Versions,     \* contents a seed file has had
  First,        \* the one it has at the start
  Updatable,    \* paths listed in OG_WORKSPACE_SEED_UPDATE
  Absent,       \* no file
  Mine,         \* a content only the tenant wrote
  NotAFile,     \* a directory, a socket, ...
  Outside       \* the path leaves the workspace through a symlink

Paths == 1..NPaths

ASSUME SeedAssumption ==
  /\ NPaths \in Nat
  /\ Updatable \subseteq Paths /\ First \in Versions
  /\ Absent \notin Versions /\ Mine \notin Versions
  /\ NotAFile \notin Versions /\ Outside \notin Versions
  /\ Absent # Mine /\ Absent # NotAFile /\ Absent # Outside
  /\ Mine # NotAFile /\ Mine # Outside /\ NotAFile # Outside

VARIABLES
  disk,      \* the workspace
  offer,     \* <workspace>/.omnigent-seed-updates
  manifest,  \* workspace-seed.json
  seed,      \* the ConfigMap
  pc,        \* the helper: idle, look (at the next path), write, drop, save
  at,        \* the path of the loop
  files,     \* the manifest in memory
  src_sha,   \* hash of the seed file, taken before the destination is looked at
  \* History: who made the file what it is, recorded files the tenant deleted,
  \* files written by this run, files of a run that died or read the seed twice
  \* differently, the tenant touched the path after the look, an undisturbed run.
  author, optout, written, lost, raced, clean

durable == <<disk, offer, manifest, seed>>
history == <<author, optout, written, lost, raced, clean>>
wvars == <<durable, pc, at, files, src_sha, events, history>>

Contents == Versions \cup {Absent, Mine, NotAFile, Outside}
Hashes == Versions \cup {Absent}
Entries == [state : {"none", "seeded", "tenant", "deleted"}, sha : Hashes, offered : Hashes]
NoEntry == [state |-> "none", sha |-> Absent, offered |-> Absent]

WInit ==
  /\ seed = [p \in Paths |-> First]
  /\ disk \in [Paths -> {Absent, Mine, First}]
  /\ offer = [p \in Paths |-> Absent]
  /\ manifest = [p \in Paths |-> NoEntry]
  /\ pc = "idle" /\ at = 1 /\ files = manifest /\ src_sha = Absent
  /\ events = 0
  /\ author = [p \in Paths |-> IF disk[p] = Absent THEN "nobody" ELSE "tenant"]
  /\ optout = {} /\ written = {} /\ lost = {} /\ raced = FALSE /\ clean = FALSE
-----------------------------------------------------------------------------
(* The run of the helper. *)

Entry == files[at]
\* Mutant: an update keeps the old hash.
TrackedOldHash(e, h) == [e EXCEPT !.state = "seeded", !.sha = IF @ = Absent THEN h ELSE @]
Tracked(e, h) == [e EXCEPT !.state = "seeded", !.sha = h]
IsFile == disk[at] \notin {Absent, NotAFile}
\* Mutant: the hash is not compared.
NeverEdited == TRUE
Unedited == disk[at] = Entry.sha

\* The manifest is read; a missing one is empty.
Begin ==
  /\ pc = "idle"
  /\ pc' = "look" /\ files' = manifest /\ clean' = TRUE
  /\ UNCHANGED <<durable, at, src_sha, events,
                 author, optout, written, lost, raced>>

\* On to the next path with the entry e in memory.
Advance(e) ==
  /\ files' = [files EXCEPT ![at] = e]
  /\ at' = at + 1 /\ pc' = "look"
  /\ UNCHANGED <<disk, manifest, seed, src_sha, events, history>>

Looks == pc = "look" /\ at <= NPaths /\ seed[at] # Absent /\ disk[at] # Outside

\* The key is gone, the path leaves the workspace, or the entry or the kind of
\* file says that it is none of the kit's business.
Skip ==
  /\ pc = "look" /\ at <= NPaths
  /\ \/ seed[at] = Absent \/ disk[at] = Outside
     \/ Entry.state \in {"tenant", "deleted"}
     \/ Entry.state = "seeded" /\ disk[at] = NotAFile
  /\ Advance(Entry) /\ UNCHANGED offer

\* Seen for the first time and already there.
\* Mutant: whatever is there is tracked with its hash.
FirstEntryAnyFile == Tracked(NoEntry, disk[at])
FirstEntry == IF disk[at] = seed[at] THEN Tracked(NoEntry, seed[at])
                                     ELSE [NoEntry EXCEPT !.state = "tenant"]

TakeStock ==
  /\ Looks /\ Entry.state = "none" /\ disk[at] # Absent
  /\ Advance(FirstEntry)
  /\ UNCHANGED offer

NoteDeletion ==
  /\ Looks /\ Entry.state = "seeded" /\ disk[at] = Absent
  /\ Advance([Entry EXCEPT !.state = "deleted", !.offered = Absent])
  /\ UNCHANGED offer

\* Another version is only offered: written beside the workspace's files.
Offer ==
  /\ Looks /\ Entry.state = "seeded" /\ IsFile /\ disk[at] # seed[at]
  /\ ~(Unedited /\ at \in Updatable)
  /\ offer' = [offer EXCEPT ![at] = seed[at]]
  /\ Advance([Entry EXCEPT !.offered = seed[at]])

\* Mutant: a missing file is created whatever the manifest says.
MayCreateAgain == disk[at] = Absent
MayCreate == Entry.state = "none" /\ disk[at] = Absent
MayUpdate == Entry.state = "seeded" /\ IsFile /\ disk[at] # seed[at] /\ Unedited /\ at \in Updatable

\* The decision to write is taken on what is seen now and carried out later.
DecideToWrite ==
  /\ Looks /\ (MayCreate \/ MayUpdate)
  /\ pc' = "write" /\ src_sha' = seed[at] /\ raced' = FALSE
  /\ UNCHANGED <<durable, at, files, events, author, optout,
                 written, lost, clean>>

\* _write_atomic reads the seed file again and renames the copy over the
\* destination; the entry gets the hash taken earlier.
Write ==
  /\ pc = "write" /\ seed[at] # Absent
  /\ disk' = [disk EXCEPT ![at] = seed[at]]
  /\ files' = [files EXCEPT ![at] = Tracked(@, src_sha)]
  /\ pc' = "drop"
  /\ author' = [author EXCEPT ![at] = "kit"]
  /\ written' = written \cup {at} /\ optout' = optout \ {at}
  /\ lost' = IF seed[at] = src_sha THEN lost \ {at} ELSE lost \cup {at}
  /\ UNCHANGED <<offer, manifest, seed, at, src_sha, events, raced, clean>>

SameAsSeed ==
  /\ Looks /\ Entry.state = "seeded" /\ disk[at] = seed[at]
  /\ files' = [files EXCEPT ![at] = Tracked(@, seed[at])]
  /\ pc' = "drop"
  /\ UNCHANGED <<durable, at, src_sha, events, history>>

\* Mutant: the offer stays when the file is current.
OfferStays == offer
WithoutOffer == [offer EXCEPT ![at] = Absent]

DropOffer ==
  /\ pc = "drop"
  /\ offer' = WithoutOffer
  /\ Advance([Entry EXCEPT !.offered = Absent])

\* The memory of a run that is over.
Forget == at' = 1 /\ files' = manifest' /\ src_sha' = Absent /\ raced' = FALSE

\* The manifest is replaced by a rename (nothing is written when nothing changed).
Save ==
  /\ pc = "look" /\ at > NPaths
  /\ manifest' = files
  /\ pc' = "idle" /\ written' = {} /\ Forget
  /\ UNCHANGED <<disk, offer, seed, events, author, optout, lost, clean>>

\* The run ends with nothing saved: what it wrote stays.
Abandon ==
  /\ pc' = "idle" /\ lost' = lost \cup written /\ written' = {} /\ clean' = FALSE
  /\ UNCHANGED <<durable, author, optout>> /\ Forget

\* _write_atomic raises: the seed file went away after it was hashed.
SourceGone == pc = "write" /\ seed[at] = Absent /\ Abandon /\ UNCHANGED events

\* Killed, or an OSError (a full disk, a parent that is a file).
Die ==
  /\ pc # "idle" /\ Happens /\ Abandon

HelperStep ==
  \/ Skip \/ TakeStock \/ NoteDeletion \/ Offer \/ DecideToWrite \/ Write
  \/ SameAsSeed \/ DropOffer \/ Save \/ SourceGone
-----------------------------------------------------------------------------
(* The others. *)

\* The tenant writes, copies, links or removes the file at p.
Tenant(p, c) ==
  /\ Happens
  /\ c # disk[p]
  /\ disk' = [disk EXCEPT ![p] = c]
  /\ author' = [author EXCEPT ![p] = "tenant"]
  /\ optout' = IF c = Absent /\ manifest[p].state = "seeded" THEN optout \cup {p} ELSE optout \ {p}
  /\ raced' = (raced \/ (pc = "write" /\ p = at)) /\ clean' = FALSE
  /\ UNCHANGED <<offer, manifest, seed, pc, at, files, src_sha, written, lost>>

\* A chart upgrade, live in the mounted ConfigMap.
Upgrade(p, s) ==
  /\ Happens
  /\ s # seed[p] /\ seed' = [seed EXCEPT ![p] = s] /\ clean' = FALSE
  /\ UNCHANGED <<disk, offer, manifest, pc, at, files, src_sha,
                 author, optout, written, lost, raced>>

Outsiders ==
  \/ \E p \in Paths, c \in Contents : Tenant(p, c)
  \/ \E p \in Paths, s \in Hashes : Upgrade(p, s)

WNext == Begin \/ HelperStep \/ Die \/ Outsiders
WSpec == WInit /\ [][WNext]_wvars
-----------------------------------------------------------------------------
(* Properties. *)

WTypeOK ==
  /\ disk \in [Paths -> Contents] /\ seed \in [Paths -> Hashes] /\ offer \in [Paths -> Hashes]
  /\ manifest \in [Paths -> Entries] /\ files \in [Paths -> Entries]
  /\ pc \in {"idle", "look", "write", "drop"} /\ at \in 1..(NPaths + 1)
  /\ src_sha \in Hashes
  /\ events \in 0..MaxEvents
  /\ author \in [Paths -> {"nobody", "kit", "tenant"}]
  /\ optout \subseteq Paths /\ written \subseteq Paths /\ lost \subseteq Paths
  /\ raced \in BOOLEAN /\ clean \in BOOLEAN

KitWrites(p) == disk'[p] # disk[p] /\ author'[p] = "kit"

\* The tenant's own text is never replaced, whatever crashed before: only a
\* text written between the look and the rename can be.  (cmd_workspace: "an
\* existing file the kit did not write is ... never touched".)
OwnTextSurvives == [][\A p \in Paths : KitWrites(p) => disk[p] # Mine \/ raced]_wvars

\* A file the manifest knows as seeded and the tenant then removed is not
\* created again, in this run or any later one ("deleted ... never re-created").
OptOutIsForGood == [][\A p \in Paths : KitWrites(p) => p \notin optout \/ raced]_wvars

\* Between runs the manifest knows every file that is still as the kit wrote it,
\* with the hash it has, so that the next seed can update it, unless the run
\* that wrote it died first or the seed file changed under its hands.
KitFilesAreKnown ==
  pc = "idle" => \A p \in Paths : author[p] = "kit" /\ p \notin lost =>
                    manifest[p].state = "seeded" /\ manifest[p].sha = disk[p]

\* After a run nobody disturbed, whatever earlier runs left behind, every path of
\* the seed is decided: an unedited updatable file is current, another version is
\* on offer exactly while it differs, and deletions are recorded.
Settled ==
  pc = "idle" /\ clean => \A p \in Paths :
     LET e == manifest[p] IN
     seed[p] # Absent /\ disk[p] # Outside =>
       /\ e.state # "none"
       /\ e.state = "seeded" => disk[p] # Absent
       /\ e.state = "seeded" /\ disk[p] = seed[p] => e.sha = seed[p] /\ offer[p] = Absent
       /\ e.state = "seeded" /\ disk[p] \notin {seed[p], NotAFile} =>
            /\ offer[p] = seed[p] /\ e.offered = seed[p]
            /\ p \in Updatable => disk[p] # e.sha
=============================================================================
