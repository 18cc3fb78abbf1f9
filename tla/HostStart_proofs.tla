-------------------------- MODULE HostStart_proofs --------------------------
(***************************************************************************)
(* Proofs about the two seeds of a host start for any number of paths, any *)
(* versions of their files and any number of edits, upgrades and deaths.   *)
(***************************************************************************)
EXTENDS HostStart, FiniteSetTheorems, TLAPS

-----------------------------------------------------------------------------
(* The workspace seed. *)

(* A write was decided on a file nobody has touched since, or on nothing.    *)
WriteInv ==
  /\ pc \in {"write", "drop"} => at \in Paths
  /\ pc = "write" => raced \/ (disk[at] # Mine /\ at \notin optout)

(* The memory of the run, and between runs the manifest, knows what the kit   *)
(* wrote; the manifest only lags behind by what this run wrote.              *)
KnownInv ==
  /\ pc = "idle" => written = {}
  /\ \A p \in Paths : author[p] = "kit" =>
       /\ disk[p] \in Versions
       /\ p \notin lost =>
            /\ files[p].state = "seeded" /\ files[p].sha = disk[p]
            /\ p \notin written => manifest[p].state = "seeded" /\ manifest[p].sha = disk[p]

(* What the tenant deleted is gone and still in the manifest.                *)
OptInv ==
  \A p \in optout : disk[p] = Absent /\ manifest[p].state \in {"seeded", "deleted"}

(* The memory differs from the manifest only where the loop has been, and     *)
(* never returns to having no entry.                                         *)
MemoryInv ==
  /\ pc = "idle" => at = 1 /\ files = manifest
  /\ \A p \in Paths :
       /\ at < p \/ (at = p /\ pc # "drop") => files[p] = manifest[p]
       /\ manifest[p].state \in {"seeded", "deleted"} => files[p].state \in {"seeded", "deleted"}
       /\ manifest[p].state # "none" => files[p].state # "none"
       /\ manifest[p].state = "none" => offer[p] = Absent

(* A path is decided by the entry e.                                         *)
Decided(p, e) ==
  seed[p] # Absent /\ disk[p] # Outside =>
    /\ e.state # "none"
    /\ e.state = "seeded" => disk[p] # Absent
    /\ e.state = "seeded" /\ disk[p] = seed[p] => e.sha = seed[p] /\ offer[p] = Absent
    /\ e.state = "seeded" /\ disk[p] \notin {seed[p], NotAFile} =>
         /\ offer[p] = seed[p] /\ e.offered = seed[p]
         /\ p \in Updatable => disk[p] # e.sha

(* In an undisturbed run every path behind the loop is decided.              *)
DecidedInv ==
  clean =>
    /\ \A p \in Paths : p < at => Decided(p, files[p])
    /\ pc = "idle" => \A p \in Paths : Decided(p, manifest[p])
    /\ pc = "write" => src_sha = seed[at]
    /\ pc = "drop" => files[at].state = "seeded" /\ disk[at] = seed[at] /\ files[at].sha = seed[at]

WInv == WTypeOK /\ WriteInv /\ KnownInv /\ OptInv /\ MemoryInv /\ DecidedInv

(* What the loop writes into the memory are entries.                         *)
LEMMA EntryOps ==
  ASSUME NEW e \in Entries, NEW h \in Hashes
  PROVE  /\ Tracked(e, h) \in Entries /\ NoEntry \in Entries
         /\ [e EXCEPT !.offered = h] \in Entries
         /\ [e EXCEPT !.state = "deleted", !.offered = h] \in Entries
         /\ [e EXCEPT !.state = "tenant"] \in Entries
         /\ Absent \in Hashes
BY DEF Entries, Tracked, NoEntry, Hashes

LEMMA FirstPath == 1 \in 1..(NPaths + 1) /\ Absent \in Hashes
BY SeedAssumption DEF Hashes

(* A run starts from what the manifest says, and nothing is behind the loop. *)
LEMMA BeginStep == ASSUME WInv, Begin PROVE WInv'
<1>1. WTypeOK'
  BY DEF WInv, WTypeOK, Begin, durable, history
<1>2. KnownInv'
  BY DEF WInv, KnownInv, Begin, durable, history
<1>3. OptInv'
  BY DEF WInv, OptInv, Begin, durable, history
<1>4. MemoryInv'
  BY DEF WInv, MemoryInv, Begin, durable, history
<1>5. DecidedInv'
  BY SeedAssumption DEF WInv, WTypeOK, MemoryInv, WriteInv, DecidedInv, Decided, Begin, durable,
     history, Paths
<1>6. WriteInv'
  BY DEF WInv, WriteInv, Begin
<1> QED
  BY <1>1, <1>2, <1>3, <1>4, <1>5, <1>6 DEF WInv

(* The entry stays. *)
LEMMA SkipStep == ASSUME WInv, Skip PROVE WInv'
<1>1. WTypeOK'
  <2>1. at \in Paths /\ at + 1 \in 1..(NPaths + 1)
    BY SeedAssumption DEF WInv, WTypeOK, Skip, Paths
  <2> QED
    BY <2>1 DEF WInv, WTypeOK, Skip, Advance, Entry, history
<1>2. WriteInv'
  BY DEF WInv, WriteInv, Skip, Advance, Entry
<1>3. KnownInv'
  BY DEF WInv, KnownInv, Skip, Advance, Entry, durable, history
<1>4. OptInv'
  BY DEF WInv, OptInv, Skip, Advance, Entry, durable, history
<1>5. MemoryInv'
  BY SeedAssumption DEF WInv, WTypeOK, WriteInv, MemoryInv, Skip, Advance, Entry, durable,
     history, Paths
<1>6. DecidedInv'
  BY SeedAssumption DEF WInv, WTypeOK, MemoryInv, WriteInv, KnownInv, DecidedInv, Decided, Skip,
     Advance, Entry, durable, history, Paths, Contents, Hashes, Entries
<1> QED
  BY <1>1, <1>2, <1>3, <1>4, <1>5, <1>6 DEF WInv

(* The first entry of a file that is already there. *)
LEMMA TakeStockStep == ASSUME WInv, TakeStock PROVE WInv'
<1>1. WTypeOK'
  <2>1. at \in Paths /\ at + 1 \in 1..(NPaths + 1)
    BY SeedAssumption DEF WInv, WTypeOK, TakeStock, Looks, Paths
  <2>2. FirstEntry \in Entries
    BY <2>1, EntryOps DEF WInv, WTypeOK, FirstEntry
  <2> QED
    BY <2>1, <2>2 DEF WInv, WTypeOK, TakeStock, Advance, history
<1>2. WriteInv'
  BY DEF WInv, WriteInv, TakeStock, Looks, FirstEntry, Tracked, NoEntry, Advance, Entry
<1>3. KnownInv'
  BY DEF WInv, KnownInv, TakeStock, Looks, FirstEntry, Tracked, NoEntry, Advance, Entry,
     durable, history
<1>4. OptInv'
  BY DEF WInv, OptInv, TakeStock, Looks, FirstEntry, Tracked, NoEntry, Advance, Entry, durable,
     history
<1>5. MemoryInv'
  BY SeedAssumption DEF WInv, WTypeOK, WriteInv, MemoryInv, TakeStock, Looks, FirstEntry,
     Tracked, NoEntry, Advance, Entry, durable, history, Paths
<1>6. DecidedInv'
  BY SeedAssumption DEF WInv, WTypeOK, MemoryInv, WriteInv, DecidedInv, Decided, TakeStock,
     Looks, FirstEntry, Tracked, NoEntry, Advance, Entry, durable, history, Paths
<1> QED
  BY <1>1, <1>2, <1>3, <1>4, <1>5, <1>6 DEF WInv

(* The tenant deleted the file. *)
LEMMA NoteDeletionStep == ASSUME WInv, NoteDeletion PROVE WInv'
<1>1. WTypeOK'
  <2>1. at \in Paths /\ at + 1 \in 1..(NPaths + 1)
    BY SeedAssumption DEF WInv, WTypeOK, NoteDeletion, Looks, Paths
  <2>2. [files[at] EXCEPT !.state = "deleted", !.offered = Absent] \in Entries
    BY <2>1, EntryOps DEF WInv, WTypeOK
  <2> QED
    BY <2>1, <2>2 DEF WInv, WTypeOK, NoteDeletion, Advance, Entry, history
<1>2. WriteInv'
  BY DEF WInv, WriteInv, NoteDeletion, Looks, Entry, Advance
<1>3. KnownInv'
  BY SeedAssumption DEF WInv, WTypeOK, WriteInv, KnownInv, NoteDeletion, Looks, Entry, Advance,
     durable, history, Paths
<1>4. OptInv'
  BY DEF WInv, OptInv, NoteDeletion, Looks, Entry, Advance, durable, history
<1>5. MemoryInv'
  BY SeedAssumption DEF WInv, WTypeOK, WriteInv, MemoryInv, NoteDeletion, Looks, Entry, Advance,
     durable, history, Paths
<1>6. DecidedInv'
  BY SeedAssumption DEF WInv, WTypeOK, WriteInv, DecidedInv, Decided, NoteDeletion, Looks,
     Entry, Advance, durable, history, Paths
<1> QED
  BY <1>1, <1>2, <1>3, <1>4, <1>5, <1>6 DEF WInv

(* Only the offer changes. *)
LEMMA OfferStep == ASSUME WInv, Offer PROVE WInv'
<1>1. WTypeOK'
  <2>1. at \in Paths /\ at + 1 \in 1..(NPaths + 1)
    BY SeedAssumption DEF WInv, WTypeOK, Offer, Looks, Paths
  <2>2. [files[at] EXCEPT !.offered = seed[at]] \in Entries
    BY <2>1, EntryOps DEF WInv, WTypeOK
  <2> QED
    BY <2>1, <2>2 DEF WInv, WTypeOK, Offer, Advance, Entry, history
<1>2. WriteInv'
  BY DEF WInv, WriteInv, Offer, Looks, Entry, IsFile, Unedited, Advance
<1>3. KnownInv'
  BY DEF WInv, KnownInv, Offer, Looks, Entry, IsFile, Unedited, Advance, durable, history
<1>4. OptInv'
  BY DEF WInv, OptInv, Offer, Looks, Entry, IsFile, Unedited, Advance, durable, history
<1>5. MemoryInv'
  BY SeedAssumption DEF WInv, WTypeOK, WriteInv, MemoryInv, Offer, Looks, Entry, IsFile,
     Unedited, Advance, durable, history, Paths
<1>6. DecidedInv'
  BY SeedAssumption DEF WInv, WTypeOK, WriteInv, DecidedInv, Decided, Offer, Looks, Entry,
     IsFile, Unedited, Advance, durable, history, Paths
<1> QED
  BY <1>1, <1>2, <1>3, <1>4, <1>5, <1>6 DEF WInv

(* Nobody but the kit wrote what will be replaced, and it was not deleted. *)
LEMMA DecideToWriteStep == ASSUME WInv, DecideToWrite PROVE WInv'
<1>1. WTypeOK'
  <2>1. at \in Paths /\ at + 1 \in 1..(NPaths + 1)
    BY SeedAssumption DEF WInv, WTypeOK, DecideToWrite, Looks, Paths
  <2> QED
    BY <2>1 DEF WInv, WTypeOK, DecideToWrite, durable
<1>2. WriteInv'
  BY SeedAssumption DEF WInv, WTypeOK, MemoryInv, WriteInv, KnownInv, OptInv, DecideToWrite,
     Looks, MayCreate, MayUpdate, Entry, IsFile, Unedited, durable, history, Paths, Contents,
     Hashes, Entries
<1>3. KnownInv'
  BY DEF WInv, KnownInv, DecideToWrite, Looks, MayCreate, MayUpdate, Entry, IsFile, Unedited,
     durable, history
<1>4. OptInv'
  BY DEF WInv, OptInv, DecideToWrite, Looks, MayCreate, MayUpdate, Entry, IsFile, Unedited,
     durable, history
<1>5. MemoryInv'
  BY DEF WInv, MemoryInv, DecideToWrite, Looks, MayCreate, MayUpdate, Entry, IsFile, Unedited,
     durable, history
<1>6. DecidedInv'
  BY DEF WInv, DecidedInv, Decided, DecideToWrite, Looks, MayCreate, MayUpdate, Entry, IsFile,
     Unedited, durable, history
<1> QED
  BY <1>1, <1>2, <1>3, <1>4, <1>5, <1>6 DEF WInv

(* The destination becomes the kit's, with the hash in memory or among the lost. *)
LEMMA WriteStep == ASSUME WInv, Write PROVE WInv'
<1>1. WTypeOK'
  <2>1. Tracked(files[at], src_sha) \in Entries
    BY EntryOps DEF WInv, WTypeOK, WriteInv, Write
  <2>2. files' \in [Paths -> Entries]
    BY <2>1 DEF WInv, WTypeOK, Write
  <2>3. disk' \in [Paths -> Contents]
    BY DEF WInv, WTypeOK, WriteInv, Write, Contents, Hashes
  <2> QED
    BY <2>2, <2>3 DEF WInv, WTypeOK, WriteInv, Write
<1>2. KnownInv'
  BY SeedAssumption DEF WInv, WTypeOK, MemoryInv, WriteInv, KnownInv, Write, Tracked, durable,
     history, Paths, Contents, Hashes, Entries
<1>3. MemoryInv'
  BY DEF WInv, WTypeOK, MemoryInv, Write, Tracked, durable, history
<1>4. DecidedInv'
  BY SeedAssumption DEF WInv, WTypeOK, WriteInv, DecidedInv, Decided, Write, Tracked, durable,
     history, Paths
<1>5. WriteInv' /\ OptInv'
  BY DEF WInv, WriteInv, OptInv, Write
<1> QED
  BY <1>1, <1>2, <1>3, <1>4, <1>5 DEF WInv

(* The hash is the one the seed has. *)
LEMMA SameAsSeedStep == ASSUME WInv, SameAsSeed PROVE WInv'
<1>1. WTypeOK'
  <2>1. at \in Paths /\ at + 1 \in 1..(NPaths + 1)
    BY SeedAssumption DEF WInv, WTypeOK, SameAsSeed, Looks, Paths
  <2>2. Tracked(files[at], seed[at]) \in Entries
    BY <2>1, EntryOps DEF WInv, WTypeOK
  <2> QED
    BY <2>1, <2>2 DEF WInv, WTypeOK, SameAsSeed, Entry, durable, history
<1>2. WriteInv'
  BY SeedAssumption DEF WInv, WTypeOK, WriteInv, SameAsSeed, Looks, Entry, Tracked, durable,
     history, Paths
<1>3. KnownInv'
  BY DEF WInv, KnownInv, SameAsSeed, Looks, Entry, Tracked, durable, history
<1>4. OptInv'
  BY DEF WInv, OptInv, SameAsSeed, Looks, Entry, Tracked, durable, history
<1>5. MemoryInv'
  BY DEF WInv, WTypeOK, MemoryInv, SameAsSeed, Looks, Entry, Tracked, durable, history
<1>6. DecidedInv'
  BY SeedAssumption DEF WInv, WTypeOK, WriteInv, DecidedInv, Decided, SameAsSeed, Looks, Entry,
     Tracked, durable, history, Paths
<1> QED
  BY <1>1, <1>2, <1>3, <1>4, <1>5, <1>6 DEF WInv

(* Nothing is on offer for a current file. *)
LEMMA DropOfferStep == ASSUME WInv, DropOffer PROVE WInv'
<1>1. WTypeOK'
  <2>1. at \in Paths /\ at + 1 \in 1..(NPaths + 1)
    BY SeedAssumption DEF WInv, WTypeOK, WriteInv, DropOffer, Paths
  <2>2. [files[at] EXCEPT !.offered = Absent] \in Entries
    BY <2>1, EntryOps, FirstPath DEF WInv, WTypeOK
  <2> QED
    BY <2>1, <2>2, FirstPath DEF WInv, WTypeOK, DropOffer, Advance, Entry, history, WithoutOffer
<1>2. WriteInv'
  BY DEF WInv, WriteInv, DropOffer, WithoutOffer, Entry, Advance
<1>3. KnownInv'
  BY DEF WInv, KnownInv, DropOffer, WithoutOffer, Entry, Advance, durable, history
<1>4. OptInv'
  BY DEF WInv, OptInv, DropOffer, WithoutOffer, Entry, Advance, durable, history
<1>5. MemoryInv'
  BY SeedAssumption DEF WInv, WTypeOK, WriteInv, MemoryInv, DropOffer, WithoutOffer, Entry,
     Advance, durable, history, Paths
<1>6. DecidedInv'
  BY SeedAssumption DEF WInv, WTypeOK, WriteInv, DecidedInv, Decided, DropOffer, WithoutOffer,
     Entry, Advance, durable, history, Paths
<1> QED
  BY <1>1, <1>2, <1>3, <1>4, <1>5, <1>6 DEF WInv

(* The manifest becomes the memory of the run. *)
LEMMA SaveStep == ASSUME WInv, Save PROVE WInv'
<1>1. WTypeOK'
  <2>1. at' \in 1..(NPaths + 1) /\ src_sha' \in Hashes
    BY FirstPath DEF Save, Forget
  <2> QED
    BY <2>1 DEF WInv, WTypeOK, Save, Forget
<1>2. KnownInv'
  BY DEF WInv, KnownInv, Save, Forget
<1>3. OptInv'
  BY SeedAssumption DEF WInv, WTypeOK, MemoryInv, WriteInv, OptInv, Save, Forget, durable,
     history, Paths
<1>4. MemoryInv'
  BY DEF WInv, MemoryInv, Save, Forget
<1>5. DecidedInv'
  BY SeedAssumption DEF WInv, WTypeOK, WriteInv, DecidedInv, Decided, Save, Forget, durable,
     history, Paths
<1>6. WriteInv'
  BY DEF WInv, WriteInv, Save
<1> QED
  BY <1>1, <1>2, <1>3, <1>4, <1>5, <1>6 DEF WInv

(* What the run wrote is lost, the manifest is what it was. *)
LEMMA SourceGoneStep == ASSUME WInv, SourceGone PROVE WInv'
<1>1. WTypeOK'
  <2>1. at' \in 1..(NPaths + 1) /\ src_sha' \in Hashes
    BY FirstPath DEF SourceGone, Abandon, Forget
  <2> QED
    BY <2>1 DEF WInv, WTypeOK, SourceGone, Abandon, Forget, durable
<1>2. WriteInv'
  BY DEF WInv, WriteInv, SourceGone, Abandon, Forget
<1>3. KnownInv'
  BY DEF WInv, KnownInv, SourceGone, Abandon, Forget, durable, history
<1>4. OptInv'
  BY DEF WInv, OptInv, SourceGone, Abandon, Forget, durable, history
<1>5. MemoryInv'
  BY DEF WInv, MemoryInv, SourceGone, Abandon, Forget, durable, history
<1>6. DecidedInv'
  BY DEF WInv, DecidedInv, Decided, SourceGone, Abandon, Forget
<1> QED
  BY <1>1, <1>2, <1>3, <1>4, <1>5, <1>6 DEF WInv

(* What the run wrote is lost, the manifest is what it was. *)
LEMMA DieStep == ASSUME WInv, Die PROVE WInv'
<1>1. WTypeOK'
  <2>1. at' \in 1..(NPaths + 1) /\ src_sha' \in Hashes
    BY FirstPath DEF Die, Abandon, Forget
  <2>2. events' \in 0..MaxEvents
    BY EventsAssumption DEF WInv, WTypeOK, Die, Happens
  <2> QED
    BY <2>1, <2>2 DEF WInv, WTypeOK, Die, Abandon, Forget, durable
<1>2. WriteInv'
  BY DEF WInv, WriteInv, Die, Abandon, Forget, Happens
<1>3. KnownInv'
  BY DEF WInv, KnownInv, Die, Abandon, Forget, Happens, durable, history
<1>4. OptInv'
  BY DEF WInv, OptInv, Die, Abandon, Forget, Happens, durable, history
<1>5. MemoryInv'
  BY DEF WInv, MemoryInv, Die, Abandon, Forget, Happens, durable, history
<1>6. DecidedInv'
  BY DEF WInv, DecidedInv, Decided, Die, Abandon, Forget, Happens
<1> QED
  BY <1>1, <1>2, <1>3, <1>4, <1>5, <1>6 DEF WInv

(* What the tenant writes is the tenant's. *)
LEMMA TenantStep == ASSUME WInv, NEW r \in Paths, NEW c \in Contents, Tenant(r, c) PROVE WInv'
<1>1. WTypeOK'
  <2>1. raced' \in BOOLEAN
    BY DEF WInv, WTypeOK, Tenant
  <2>2. events' \in 0..MaxEvents
    BY EventsAssumption DEF WInv, WTypeOK, Tenant, Happens
  <2> QED
    BY <2>1, <2>2 DEF WInv, WTypeOK, Tenant
<1>2. WriteInv'
  BY DEF WInv, WTypeOK, WriteInv, Tenant, Happens, Contents, durable, history
<1>3. KnownInv'
  BY DEF WInv, WTypeOK, KnownInv, Tenant, Happens, Contents, durable, history
<1>4. OptInv'
  BY DEF WInv, WTypeOK, OptInv, Tenant, Happens, Contents, durable, history
<1>5. MemoryInv' /\ DecidedInv'
  BY DEF WInv, MemoryInv, DecidedInv, Decided, Tenant
<1> QED
  BY <1>1, <1>2, <1>3, <1>4, <1>5 DEF WInv

(* The seed of an undisturbed run does not change. *)
LEMMA UpgradeStep == ASSUME WInv, NEW r \in Paths, NEW s \in Hashes, Upgrade(r, s) PROVE WInv'
<1>1. WTypeOK'
  <2>1. events' \in 0..MaxEvents
    BY EventsAssumption DEF WInv, WTypeOK, Upgrade, Happens
  <2> QED
    BY <2>1 DEF WInv, WTypeOK, Upgrade
<1>2. WriteInv' /\ KnownInv' /\ OptInv' /\ MemoryInv' /\ DecidedInv'
  BY DEF WInv, WriteInv, KnownInv, OptInv, MemoryInv, DecidedInv, Decided, Upgrade
<1> QED
  BY <1>1, <1>2 DEF WInv

(* What happens elsewhere only counts. *)
LEMMA AloofWorkspaceStep == ASSUME WInv, UNCHANGED work, events' = events \/ Happens PROVE WInv'
<1>1. WTypeOK'
  <2>1. events' \in 0..MaxEvents
    BY EventsAssumption DEF WInv, WTypeOK, Happens
  <2> QED
    BY <2>1 DEF WInv, WTypeOK, work
<1>2. WriteInv' /\ KnownInv' /\ OptInv' /\ MemoryInv' /\ DecidedInv'
  BY DEF WInv, WriteInv, KnownInv, OptInv, MemoryInv, DecidedInv, Decided, work
<1> QED
  BY <1>1, <1>2 DEF WInv

(* Nothing has happened yet. *)
LEMMA WorkspaceInit == ASSUME WInit PROVE WInv
<1>1. WTypeOK
  <2>1. NoEntry \in Entries /\ Absent \in Hashes /\ First \in Hashes
    BY SeedAssumption DEF NoEntry, Entries, Hashes
  <2>2. 1 \in 1..(NPaths + 1) /\ 0 \in 0..MaxEvents
    BY SeedAssumption, EventsAssumption
  <2>3. {Absent, Mine, First} \subseteq Contents
    BY SeedAssumption DEF Contents
  <2> QED
    BY <2>1, <2>2, <2>3 DEF WInit, WTypeOK
<1>2. WriteInv /\ KnownInv /\ OptInv /\ MemoryInv /\ DecidedInv
  BY DEF WInit, WriteInv, KnownInv, OptInv, MemoryInv, DecidedInv, NoEntry
<1> QED
  BY <1>1, <1>2 DEF WInv

(* Every step of the workspace seed. *)
LEMMA WorkspaceStep == ASSUME WInv, WNext PROVE WInv'
BY BeginStep, SkipStep, TakeStockStep, NoteDeletionStep, OfferStep, DecideToWriteStep,
   WriteStep, SameAsSeedStep, DropOfferStep, SaveStep, SourceGoneStep, DieStep, TenantStep,
   UpgradeStep DEF WNext, HelperStep, Outsiders

-----------------------------------------------------------------------------
(* The config seed. *)

(* What is in memory was merged from the file that is still there, or from one
   that was replaced meanwhile. *)
DraftInv ==
  /\ cpc = "write" => draft \in Configs
  /\ cpc = "write" /\ ~stale => config # Broken /\ draft = Merged(config)

(* Only providers without a marker are to be marked. *)
MarkInv ==
  /\ marks \cap markers = {}
  /\ cpc = "write" /\ ~stale => marks = Undecided(config)

(* Each addition is followed by a marker or counted by the death that
   prevented it; without one the provider was never added or is known as
   unmarked. *)
AddsInv ==
  \A n \in Providers :
    /\ adds[n] <= 1 + events
    /\ n \notin markers /\ ~(cpc = "mark" /\ n \in marks) =>
         adds[n] <= events /\ (adds[n] = 0 \/ n \in unmarked)

(* The platform's defaults are in the file, and nothing is left to decide but
   the markers that are still to be written. *)
Placed ==
  /\ config # Broken
  /\ config.host = Odd \/ (config.host # NoHost /\ config.host.ours)
  /\ ~config.telemetry
  /\ config.providers # Odd => Wanted \subseteq markers \cup marks

(* So they are, in an undisturbed run, from the rename on. *)
PlaceInv ==
  calm => /\ cpc = "write" => ~stale
          /\ cpc = "mark" => Placed
          /\ DefaultsInPlace

CInv == CTypeOK /\ DraftInv /\ MarkInv /\ AddsInv /\ PlaceInv

(* The host block has the platform's name, if it is a mapping. *)
LEMMA NamedHostType == ASSUME NEW h \in Hosts PROVE NamedHost(h) \in Hosts
  BY DEF NamedHost, Hosts, HostBlocks

(* An added entry claims one scope. *)
LEMMA ScopeType == \A n \in Names : {Scope(n)} \in ProviderEntries
  BY DEF Scope, Scopes, ProviderEntries

(* A configuration with one part replaced is one. *)
LEMMA ConfigUpdate ==
  ASSUME NEW c \in Configs
  PROVE  /\ c.host \in Hosts /\ c.telemetry \in BOOLEAN /\ c.rest \in BOOLEAN
         /\ c.providers # Odd => c.providers \in [Names -> ProviderEntries]
         /\ \A h \in Hosts : [c EXCEPT !.host = h] \in Configs
         /\ \A b \in BOOLEAN : [c EXCEPT !.telemetry = b] \in Configs /\ [c EXCEPT !.rest = b] \in Configs
         /\ \A p \in {Odd} \cup [Names -> ProviderEntries] : [c EXCEPT !.providers = p] \in Configs
BY DEF Configs

(* A merged configuration is one. *)
LEMMA MergedType == ASSUME NEW c \in Configs PROVE Merged(c) \in Configs
<1> DEFINE P == IF c.providers = Odd THEN Odd
                ELSE [n \in Names |-> IF n \in Additions(c) THEN {Scope(n)} ELSE c.providers[n]]
<1>1. P \in {Odd} \cup [Names -> ProviderEntries]
  BY ScopeType, ConfigUpdate
<1>2. NamedHost(c.host) \in Hosts
  BY NamedHostType, ConfigUpdate
<1>3. Merged(c) = [c EXCEPT !.host = NamedHost(c.host), !.telemetry = FALSE, !.providers = P]
  BY DEF Merged
<1> QED
  BY <1>1, <1>2, <1>3 DEF Configs

(* So is the first one. *)
LEMMA FreshType == FreshConfig \in Configs
<1>1. NoProviders \in [Names -> ProviderEntries]
  BY DEF NoProviders, ProviderEntries
<1> QED
  BY <1>1 DEF FreshConfig, Configs, Hosts

(* And whatever an editor leaves, unless it cannot be read. *)
LEMMA EditsType == ASSUME NEW c \in {Broken} \cup Configs, NEW d \in EditsOf(c) PROVE d \in {Broken} \cup Configs
<1>1. CASE c = Broken
  BY <1>1, FreshType DEF EditsOf
<1>2. CASE c # Broken
  <2>1. \A h \in {NoHost, Odd, [ours |-> FALSE, id |-> TRUE]} : h \in Hosts
    <3>1. [ours |-> FALSE, id |-> TRUE] \in HostBlocks
      BY DEF HostBlocks
    <3> QED
      BY <3>1 DEF Hosts
  <2>2. NoProviders \in [Names -> ProviderEntries]
    BY DEF NoProviders, ProviderEntries
  <2>3. c.providers # Odd => \A n \in Names, e \in ProviderEntries : [c EXCEPT !.providers[n] = e] \in Configs
    <3> SUFFICES ASSUME c.providers # Odd, NEW n \in Names, NEW e \in ProviderEntries
                 PROVE  [c EXCEPT !.providers[n] = e] \in Configs
      OBVIOUS
    <3>1. [c.providers EXCEPT ![n] = e] \in [Names -> ProviderEntries]
      BY <1>2, ConfigUpdate
    <3>2. [c EXCEPT !.providers[n] = e] = [c EXCEPT !.providers = [c.providers EXCEPT ![n] = e]]
      OBVIOUS
    <3> QED
      BY <1>2, <3>1, <3>2, ConfigUpdate
  <2>4. NoProvider \in ProviderEntries /\ {"anthropic"} \in ProviderEntries /\ {} \in ProviderEntries
    BY DEF ProviderEntries, Scopes
  <2>5. Own \in Names /\ "pi-original" \in Names
    BY DEF Names, Providers
  <2> DEFINE A == {Broken, [c EXCEPT !.rest = ~@], [c EXCEPT !.telemetry = TRUE]}
             B == {[c EXCEPT !.host = h] : h \in {NoHost, Odd, [ours |-> FALSE, id |-> TRUE]}}
             C == {[c EXCEPT !.providers = Odd]}
             D == {[c EXCEPT !.providers = NoProviders]}
             E == {[c EXCEPT !.providers[n] = NoProvider] : n \in Names}
             F == {[c EXCEPT !.providers[Own] = {"anthropic"}], [c EXCEPT !.providers["pi-original"] = {}]}
  <2>6. d \in A \/ d \in B \/ d \in C \/ (c.providers = Odd /\ d \in D) \/ (c.providers # Odd /\ (d \in E \/ d \in F))
    BY <1>2 DEF EditsOf
  <2>7. d \in A => d \in {Broken} \cup Configs
    <3>1. [c EXCEPT !.rest = ~@] \in Configs
      BY <1>2, ConfigUpdate
    <3>2. [c EXCEPT !.telemetry = TRUE] \in Configs
      BY <1>2, ConfigUpdate
    <3> QED
      BY <3>1, <3>2
  <2>8. d \in B => d \in Configs
    <3>1. \A h \in Hosts : [c EXCEPT !.host = h] \in Configs
      BY <1>2, ConfigUpdate
    <3>2. d \in B => \E h \in Hosts : d = [c EXCEPT !.host = h]
      BY <2>1
    <3> QED
      BY <3>1, <3>2
  <2>9. d \in C \/ d \in D => d \in Configs
    BY <1>2, <2>2, ConfigUpdate
  <2>10. c.providers # Odd /\ (d \in E \/ d \in F) => d \in Configs
    BY <2>3, <2>4, <2>5
  <2> QED
    BY <2>6, <2>7, <2>8, <2>9, <2>10
<1> QED
  BY <1>1, <1>2

(* A merge puts the defaults in place. *)
LEMMA MergedPlaced ==
  ASSUME NEW c \in Configs
  PROVE  /\ Merged(c).host = Odd \/ (Merged(c).host # NoHost /\ Merged(c).host.ours)
         /\ ~Merged(c).telemetry
         /\ c.providers = Odd => Merged(c).providers = Odd
         /\ c.providers # Odd => Undecided(c) = Wanted \ markers
         /\ Undecided(c) \subseteq Providers /\ Undecided(c) \cap markers = {}
<1> DEFINE h == c.host
<1>0. h \in Hosts
  BY ConfigUpdate
<1>1. NamedHost(h) = Odd \/ (NamedHost(h) # NoHost /\ NamedHost(h).ours)
  <2>1. CASE h = Odd
    BY <2>1 DEF NamedHost
  <2>2. CASE h = NoHost
    <3>1. [ours |-> TRUE, id |-> FALSE] \in HostBlocks
      BY DEF HostBlocks
    <3>2. NamedHost(h) = [ours |-> TRUE, id |-> FALSE]
      BY <2>2, ConfigAssumption DEF NamedHost
    <3>3. NamedHost(h).ours
      BY <3>2
    <3> QED
      BY <3>1, <3>2, <3>3, ConfigAssumption
  <2>3. CASE h \notin {Odd, NoHost}
    <3>1. h \in HostBlocks
      BY <1>0, <2>3 DEF Hosts
    <3>2. NamedHost(h) = [h EXCEPT !.ours = TRUE]
      BY <2>3 DEF NamedHost
    <3>3. NamedHost(h) \in HostBlocks /\ NamedHost(h).ours
      BY <3>1, <3>2 DEF HostBlocks
    <3> QED
      BY <3>3, ConfigAssumption
  <2> QED
    BY <2>1, <2>2, <2>3
<1>2. Merged(c).host = NamedHost(c.host) /\ Merged(c).telemetry = FALSE
  BY DEF Merged, Configs
<1>3. Merged(c).providers = IF c.providers = Odd THEN Odd
        ELSE [n \in Names |-> IF n \in Additions(c) THEN {Scope(n)} ELSE c.providers[n]]
  BY DEF Merged, Configs
<1>4. c.providers = Odd => Merged(c).providers = Odd
  BY <1>3
<1>5. /\ c.providers # Odd => Undecided(c) = Wanted \ markers
      /\ Undecided(c) \subseteq Providers /\ Undecided(c) \cap markers = {}
  BY ConfigAssumption DEF Undecided
<1> QED
  BY <1>1, <1>2, <1>4, <1>5

(* A merge leaves other settings alone. *)
LEMMA MergedKeeps ==
  ASSUME NEW c \in Configs
  PROVE  /\ Merged(c).rest = c.rest
         /\ c.host = Odd => Merged(c).host = Odd
         /\ c.host \notin {NoHost, Odd} => Merged(c).host.id = c.host.id
<1>1. Merged(c).rest = c.rest /\ Merged(c).host = NamedHost(c.host)
  BY DEF Merged, Configs
<1>2. c.host = Odd => NamedHost(c.host) = Odd
  BY ConfigAssumption DEF NamedHost
<1>3. ASSUME c.host \notin {NoHost, Odd}
      PROVE  NamedHost(c.host).id = c.host.id
  <2>1. c.host \in HostBlocks
    BY <1>3, ConfigUpdate DEF Hosts
  <2>2. NamedHost(c.host) = [c.host EXCEPT !.ours = TRUE]
    BY <1>3 DEF NamedHost
  <2> QED
    BY <2>1, <2>2 DEF HostBlocks
<1> QED
  BY <1>1, <1>2, <1>3

(* A merge keeps all entries, and a default it claims nobody else claims. *)
LEMMA MergedClaims ==
  ASSUME NEW c \in Configs, c.providers # Odd
  PROVE  /\ \A n \in Names : c.providers[n] # NoProvider => Merged(c).providers[n] = c.providers[n]
         /\ Merged(c).providers[Own] = c.providers[Own]
         /\ \A s \in Scopes : Claims(Merged(c).providers, s) # Claims(c.providers, s) =>
                                Cardinality(Claims(Merged(c).providers, s)) = 1
<1> DEFINE P == c.providers
           Q == Merged(c).providers
<1>1. Q = [n \in Names |-> IF n \in Additions(c) THEN {Scope(n)} ELSE P[n]]
  BY DEF Merged, Configs
<1>2. \A n \in Additions(c) : n \in Providers /\ P[n] = NoProvider /\ Claims(P, Scope(n)) = {}
  BY ConfigAssumption DEF Additions, Undecided
<1>3. ASSUME NEW s \in Scopes, Claims(Q, s) # Claims(P, s)
      PROVE  Cardinality(Claims(Q, s)) = 1
  <2>1. \A n \in Names : Q[n] = IF n \in Additions(c) THEN {Scope(n)} ELSE P[n]
    BY <1>1
  <2>2. PICK n \in Additions(c) : Scope(n) = s
    <3> SUFFICES ASSUME \A n \in Additions(c) : Scope(n) # s
                 PROVE  FALSE
      OBVIOUS
    <3>1. \A n \in Names : n \in Claims(Q, s) <=> n \in Claims(P, s)
      BY <2>1, <1>2 DEF Claims
    <3> QED
      BY <3>1, <1>3 DEF Claims
  <2>3. \A m \in Names : Scope(m) = s /\ m \in Providers => m = n
    BY <1>2, <2>2 DEF Scope, Providers
  <2>4. Claims(P, s) = {}
    BY <1>2, <2>2
  <2>5. n \in Names /\ {s} # NoProvider
    BY <1>2 DEF Names, NoProvider, Scopes
  <2>6. n \in Claims(Q, s)
    BY <2>1, <2>2, <2>5 DEF Claims
  <2>7. \A m \in Claims(Q, s) : m = n
    <3> SUFFICES ASSUME NEW m \in Claims(Q, s)
                 PROVE  m = n
      OBVIOUS
    <3>1. m \in Names /\ m \notin Claims(P, s) /\ Q[m] # NoProvider /\ s \in Q[m]
      BY <2>4 DEF Claims
    <3>2. m \in Additions(c)
      BY <3>1, <2>1 DEF Claims
    <3>3. Scope(m) = s
      BY <3>1, <3>2, <2>1
    <3> QED
      BY <1>2, <2>3, <3>1, <3>2, <3>3
  <2>8. Claims(Q, s) = {n}
    BY <2>6, <2>7
  <2> QED
    BY <2>8, FS_Singleton
<1> QED
  BY <1>1, <1>2, <1>3, ConfigAssumption DEF Names

(* Nothing is touched. *)
LEMMA RefuseStep == ASSUME CInv, Refuse PROVE CInv'
<1>1. CTypeOK'
  BY DEF CInv, CTypeOK, Refuse
<1>2. DraftInv'
  BY DEF CInv, DraftInv, Refuse
<1>3. MarkInv'
  BY DEF CInv, MarkInv, Refuse
<1>4. AddsInv'
  BY DEF CInv, AddsInv, Refuse
<1>5. PlaceInv'
  BY DEF CInv, PlaceInv, Placed, DefaultsInPlace, Refuse
<1> QED
  BY <1>1, <1>2, <1>3, <1>4, <1>5 DEF CInv

(* The memory is merged from the file. *)
LEMMA MergeStep == ASSUME CInv, Merge PROVE CInv'
<1>1. CTypeOK'
  BY MergedType, MergedPlaced DEF CInv, CTypeOK, Placed, Merge, chistory
<1>0. Merged(config)' = Merged(config) /\ Undecided(config)' = Undecided(config)
  BY DEF Merge, Merged, Additions, Undecided
<1>2. DraftInv'
  BY <1>0, MergedType, MergedPlaced DEF CInv, CTypeOK, DraftInv, Placed, Merge, chistory
<1>3. MarkInv'
  BY <1>0, MergedType, MergedPlaced DEF CInv, CTypeOK, MarkInv, Placed, Merge, chistory
<1>4. AddsInv'
  BY DEF CInv, AddsInv, Merge
<1>5. PlaceInv'
  BY MergedType, MergedPlaced DEF CInv, CTypeOK, PlaceInv, Placed, DefaultsInPlace, Merge,
     chistory
<1> QED
  BY <1>1, <1>2, <1>3, <1>4, <1>5 DEF CInv

(* The file becomes what was merged. *)
LEMMA WriteConfigStep == ASSUME CInv, WriteConfig PROVE CInv'
<1>1. CTypeOK'
  BY ConfigAssumption, EventsAssumption, MergedType, MergedPlaced DEF CInv, CTypeOK, DraftInv,
     MarkInv, AddsInv, WriteConfig, chistory
<1>2. DraftInv'
  BY DEF CInv, DraftInv, WriteConfig
<1>3. MarkInv'
  BY DEF CInv, MarkInv, WriteConfig
<1>4. AddsInv'
  BY DEF CInv, CTypeOK, MarkInv, AddsInv, WriteConfig, chistory
<1>5. PlaceInv'
  BY ConfigAssumption, EventsAssumption, MergedType, MergedPlaced DEF CInv, CTypeOK, DraftInv,
     MarkInv, AddsInv, PlaceInv, Placed, DefaultsInPlace, WriteConfig, chistory
<1> QED
  BY <1>1, <1>2, <1>3, <1>4, <1>5 DEF CInv

(* A provider is decided for good. *)
LEMMA MarkStep == ASSUME CInv, NEW m \in Providers, Mark(m) PROVE CInv'
<1>1. CTypeOK'
  BY DEF CInv, CTypeOK, Mark
<1>2. DraftInv'
  BY DEF CInv, DraftInv, Mark
<1>3. MarkInv'
  BY DEF CInv, MarkInv, Mark
<1>4. AddsInv'
  BY DEF CInv, AddsInv, Mark
<1>5. PlaceInv'
  BY DEF CInv, PlaceInv, Placed, DefaultsInPlace, Mark
<1> QED
  BY <1>1, <1>2, <1>3, <1>4, <1>5 DEF CInv

(* Every provider is decided. *)
LEMMA DoneStep == ASSUME CInv, Done PROVE CInv'
<1>1. CTypeOK'
  BY DEF CInv, CTypeOK, Done, chistory
<1>2. DraftInv'
  BY DEF CInv, DraftInv, Done
<1>3. MarkInv'
  BY DEF CInv, MarkInv, Done
<1>4. AddsInv'
  BY DEF CInv, AddsInv, Done, chistory
<1>5. PlaceInv'
  BY DEF CInv, PlaceInv, Placed, DefaultsInPlace, Done, chistory
<1> QED
  BY <1>1, <1>2, <1>3, <1>4, <1>5 DEF CInv

(* The markers not written are counted and remembered. *)
LEMMA CDieStep == ASSUME CInv, CDie PROVE CInv'
<1>1. CTypeOK'
  <2>1. events' \in 0..MaxEvents
    BY EventsAssumption DEF CInv, CTypeOK, CDie, Happens
  <2> QED
    BY <2>1 DEF CInv, CTypeOK, CDie
<1>2. DraftInv'
  BY DEF CInv, DraftInv, CDie
<1>3. MarkInv'
  BY DEF CInv, MarkInv, CDie
<1>4. AddsInv'
  BY DEF CInv, CTypeOK, AddsInv, CDie, Happens, chistory
<1>5. PlaceInv'
  BY DEF CInv, PlaceInv, Placed, DefaultsInPlace, CDie
<1> QED
  BY <1>1, <1>2, <1>3, <1>4, <1>5 DEF CInv

(* What was read is stale. *)
LEMMA TenantEditsStep == ASSUME CInv, TenantEdits PROVE CInv'
<1>1. CTypeOK'
  <2>1. config' \in {Broken} \cup Configs
    BY EditsType DEF CInv, CTypeOK, TenantEdits, Replaced
  <2>2. events' \in 0..MaxEvents
    BY EventsAssumption DEF CInv, CTypeOK, TenantEdits, Happens
  <2> QED
    BY <2>1, <2>2 DEF CInv, CTypeOK, TenantEdits, Replaced
<1>2. DraftInv'
  BY DEF CInv, DraftInv, TenantEdits, Happens, Replaced
<1>3. MarkInv'
  BY DEF CInv, MarkInv, TenantEdits, Happens, Replaced
<1>4. AddsInv'
  BY DEF CInv, CTypeOK, AddsInv, TenantEdits, Happens, Replaced, chistory
<1>5. PlaceInv'
  BY DEF CInv, PlaceInv, Placed, DefaultsInPlace, TenantEdits, Happens, Replaced
<1> QED
  BY <1>1, <1>2, <1>3, <1>4, <1>5 DEF CInv

(* What was read is stale. *)
LEMMA MintsIdStep == ASSUME CInv, MintsId PROVE CInv'
<1>1. CTypeOK'
  <2>1. config' \in {Broken} \cup Configs
    <3>1. config \in Configs /\ config.host \in HostBlocks
      BY ConfigUpdate DEF CInv, CTypeOK, MintsId, Hosts
    <3>2. [config.host EXCEPT !.id = TRUE] \in Hosts
      BY <3>1 DEF HostBlocks, Hosts
    <3>3. config' = [config EXCEPT !.host = [config.host EXCEPT !.id = TRUE]]
      BY DEF MintsId, Replaced
    <3> QED
      BY <3>1, <3>2, <3>3, ConfigUpdate
  <2>2. events' \in 0..MaxEvents
    BY EventsAssumption DEF CInv, CTypeOK, MintsId, Happens
  <2> QED
    BY <2>1, <2>2 DEF CInv, CTypeOK, MintsId, Replaced
<1>2. DraftInv'
  BY DEF CInv, DraftInv, MintsId, Replaced
<1>3. MarkInv'
  BY DEF CInv, MarkInv, MintsId, Replaced
<1>4. AddsInv'
  BY DEF CInv, AddsInv, MintsId, Replaced
<1>5. PlaceInv'
  BY DEF CInv, PlaceInv, Placed, DefaultsInPlace, MintsId, Replaced
<1> QED
  BY <1>1, <1>2, <1>3, <1>4, <1>5 DEF CInv

(* What happens elsewhere only counts. *)
LEMMA AloofConfigStep == ASSUME CInv, UNCHANGED conf, events' = events \/ Happens PROVE CInv'
<1>1. CTypeOK'
  BY ConfigAssumption, EventsAssumption, MergedType, MergedPlaced DEF CInv, CTypeOK, DraftInv,
     MarkInv, AddsInv, conf, Happens, chistory
<1>0. Merged(config)' = Merged(config) /\ Undecided(config)' = Undecided(config)
  BY DEF conf, Merged, Additions, Undecided
<1>2. DraftInv'
  BY <1>0 DEF CInv, DraftInv, conf, Happens
<1>3. MarkInv'
  BY <1>0 DEF CInv, MarkInv, conf, Happens
<1>4. AddsInv'
  BY DEF CInv, CTypeOK, AddsInv, conf, Happens, chistory
<1>5. PlaceInv'
  BY DEF CInv, PlaceInv, Placed, DefaultsInPlace, conf, Happens
<1> QED
  BY <1>1, <1>2, <1>3, <1>4, <1>5 DEF CInv

(* Nothing has happened yet. *)
LEMMA ConfigInit == ASSUME CInit PROVE CInv
<1>1. CTypeOK
  <2>1. 0 \in 0..MaxEvents /\ 0 \in 0..(1 + MaxEvents)
    BY EventsAssumption
  <2> QED
    BY <2>1, FreshType DEF CInit, CTypeOK
<1>2. DraftInv /\ MarkInv /\ AddsInv /\ PlaceInv
  BY DEF CInit, DraftInv, MarkInv, AddsInv, PlaceInv
<1> QED
  BY <1>1, <1>2 DEF CInv

(* Every step of the config seed. *)
LEMMA ConfigStep == ASSUME CInv, CNext PROVE CInv'
BY RefuseStep, MergeStep, WriteConfigStep, MarkStep, DoneStep, CDieStep, TenantEditsStep,
   MintsIdStep
   DEF CNext, CHelperStep, COutsiders

-----------------------------------------------------------------------------
(* The two of them in a start of the host. *)

(* The steps of a start belong to one seed or to none. *)
LEMMA StepsOfStart == ASSUME [Next]_vars PROVE 
    \/ (WNext /\ UNCHANGED conf) \/ (CNext /\ UNCHANGED work) \/ (UNCHANGED <<work, conf>> /\ (events' = events \/ Happens))
  BY DEF Next, BeginWorkspace, NothingToSeed, InWorkspace, WorkspaceDone, InConfig, HelperDies,
     HostEnds, PodKilled, Interference, WNext, CNext, vars

(* The workspace seed counts what happens. *)
LEMMA WorkspaceEvents == ASSUME WNext PROVE events' = events \/ Happens
  BY DEF WNext, Begin, HelperStep, Skip, TakeStock, NoteDeletion, Offer, DecideToWrite, Write,
     SameAsSeed, DropOffer, Save, SourceGone, Die, Advance, Abandon, Outsiders, Tenant, Upgrade,
     history, durable

(* So does the config seed. *)
LEMMA ConfigEvents == ASSUME CNext PROVE events' = events \/ Happens
  BY DEF CNext, CHelperStep, Refuse, Merge, WriteConfig, Mark, Done, CDie, COutsiders,
     TenantEdits, MintsId
(* A write was decided on a file nobody has touched since, or on nothing.    *)

(* A start of the host is at one of four places. *)
PhaseInv == phase \in {"down", "workspace", "config", "up"}

(* The inductive invariant. *)
IInv == PhaseInv /\ WInv /\ CInv

(* No step leaves them. *)
LEMMA PhaseStep == ASSUME PhaseInv, [Next]_vars PROVE PhaseInv'
  BY DEF PhaseInv, Next, vars, BeginWorkspace, NothingToSeed, InWorkspace, WorkspaceDone,
     InConfig, HelperDies, HostEnds, PodKilled, Interference

(* A step of one seed leaves the invariant of the other alone. *)
LEMMA StepKeepsInv == ASSUME IInv, [Next]_vars PROVE IInv'
<1>1. CASE WNext /\ UNCHANGED conf
  BY <1>1, WorkspaceStep, WorkspaceEvents, AloofConfigStep, PhaseStep DEF IInv
<1>2. CASE CNext /\ UNCHANGED work
  BY <1>2, ConfigStep, ConfigEvents, AloofWorkspaceStep, PhaseStep DEF IInv
<1>3. CASE UNCHANGED <<work, conf>> /\ (events' = events \/ Happens)
  BY <1>3, AloofConfigStep, AloofWorkspaceStep, PhaseStep DEF IInv
<1> QED
  BY <1>1, <1>2, <1>3, StepsOfStart

(* IInv is an invariant. *)
THEOREM Invariance == Spec => []IInv
<1>1. Init => IInv
  BY WorkspaceInit, ConfigInit DEF Init, IInv, PhaseInv
<1>2. IInv /\ [Next]_vars => IInv'
  BY StepKeepsInv
<1> QED
  BY <1>1, <1>2, PTL DEF Spec

(* Every variable has its type; in particular the kit adds a provider at most
   once more than something happened. *)
THEOREM TypeCorrect == Spec => []TypeOK
<1>1. IInv => TypeOK
  BY DEF IInv, PhaseInv, WInv, CInv, TypeOK
<1> QED
  BY Invariance, <1>1, PTL

(* Between runs the manifest knows every file that is still as the kit wrote
   it, unless the run that wrote it died or the ConfigMap changed under its
   hands (cmd_workspace). *)
THEOREM FilesStayKnown == Spec => []KitFilesAreKnown
<1>1. IInv => KitFilesAreKnown
  BY DEF IInv, WInv, KnownInv, KitFilesAreKnown
<1> QED
  BY Invariance, <1>1, PTL

(* After an undisturbed run both seeds are complete, whatever the runs before
   it left behind. *)
THEOREM SeedsGetComplete == Spec => []SeedsComplete
<1>1. IInv => Settled
  BY DEF IInv, WInv, DecidedInv, Decided, Settled
<1>2. IInv => DefaultsInPlace
  BY DEF IInv, CInv, PlaceInv, DefaultsInPlace
<1>3. IInv => SeedsComplete
  BY <1>1, <1>2 DEF SeedsComplete
<1> QED
  BY Invariance, <1>3, PTL

(* Only _write_atomic writes for the kit, at the path of the loop. *)
LEMMA KitStep == ASSUME IInv, [Next]_vars, NEW p \in Paths, KitWrites(p) PROVE Write /\ p = at
<1>1. CASE WNext
  <2>1. Write \/ \E q \in Paths, c \in Contents : Tenant(q, c)
    BY <1>1 DEF KitWrites, WNext, Begin, HelperStep, Skip, TakeStock, NoteDeletion, Offer,
       DecideToWrite, SameAsSeed, DropOffer,
       Save, SourceGone, Die, Advance, Abandon, Outsiders, Upgrade, durable
  <2>2. ASSUME NEW q \in Paths, NEW c \in Contents, Tenant(q, c)
        PROVE  FALSE
    BY <2>2 DEF KitWrites, Tenant, IInv, WInv, WTypeOK
  <2>3. Write => p = at
    BY DEF KitWrites, Write, IInv, WInv, WTypeOK
  <2> QED
    BY <2>1, <2>2, <2>3
<1>2. CASE UNCHANGED work
  BY <1>2 DEF work, KitWrites
<1> QED
  BY <1>1, <1>2, StepsOfStart

(* The kit never replaces a text only the tenant wrote, unless it was written
   between the look and the rename. *)
THEOREM TextsSurvive == Spec => OwnTextSurvives
<1>1. ASSUME IInv, [Next]_vars PROVE \A p \in Paths : KitWrites(p) => disk[p] # Mine \/ raced
  BY <1>1, KitStep DEF IInv, WInv, WriteInv, Write
<1>2. IInv /\ [Next]_vars => [\A p \in Paths : KitWrites(p) => disk[p] # Mine \/ raced]_wvars
  BY <1>1
<1> QED
  BY Invariance, <1>2, PTL DEF Spec, OwnTextSurvives

(* The kit never creates again what the tenant deleted, with the same
   exception. *)
THEOREM OptOutsHold == Spec => OptOutIsForGood
<1>1. ASSUME IInv, [Next]_vars PROVE \A p \in Paths : KitWrites(p) => p \notin optout \/ raced
  BY <1>1, KitStep DEF IInv, WInv, WriteInv, Write
<1>2. IInv /\ [Next]_vars => [\A p \in Paths : KitWrites(p) => p \notin optout \/ raced]_wvars
  BY <1>1
<1> QED
  BY Invariance, <1>2, PTL DEF Spec, OptOutIsForGood

(* A merge written over the file it was made from keeps the settings. *)
LEMMA WriteMerged == ASSUME CInv, WriteConfig, ~stale PROVE KeepsSettings
<1>1. config \in Configs /\ config' = Merged(config)
  BY DEF CInv, CTypeOK, DraftInv, WriteConfig
<1>2. config # Broken
  BY <1>1, ConfigAssumption
<1>3. /\ config'.rest = config.rest
      /\ config.host = Odd => config'.host = Odd
      /\ config.host \notin {NoHost, Odd} => config'.host.id = config.host.id
  BY <1>1, MergedKeeps
<1>4. config.providers = Odd => config'.providers = Odd
  BY <1>1, MergedPlaced
<1> QED
  BY <1>1, <1>2, <1>3, <1>4, MergedClaims DEF KeepsSettings

(* What cmd_seed writes keeps every setting of the tenant, unless the file
   changed after it was read. *)
THEOREM SettingsAreKept == Spec => MergeKeepsSettings
<1>1. ASSUME IInv, [Next]_vars PROVE cpc = "write" /\ cpc' = "mark" /\ ~stale => KeepsSettings
  <2> SUFFICES ASSUME cpc = "write", cpc' = "mark", ~stale
               PROVE  WriteConfig
    BY <1>1, WriteMerged DEF IInv
  <2>1. CNext
    BY <1>1, StepsOfStart DEF conf
  <2> QED
    BY <2>1 DEF CNext, CHelperStep, Refuse, Merge, Mark, Done, CDie, COutsiders, TenantEdits,
       MintsId, Replaced
<1>2. IInv /\ [Next]_vars => [cpc = "write" /\ cpc' = "mark" /\ ~stale => KeepsSettings]_cvars
  BY <1>1
<1> QED
  BY Invariance, <1>2, PTL DEF Spec, MergeKeepsSettings

(* The kit adds a provider once per volume, unless the run that added it died
   before the marker was written. *)
THEOREM ProvidersAddedOnce == Spec => AddedOnce
<1>1. ASSUME IInv, [Next]_vars, NEW n \in Providers, adds'[n] > adds[n] PROVE adds[n] = 0 \/ n \in unmarked
  <2>1. CNext
    BY <1>1, StepsOfStart DEF conf, IInv, CInv, CTypeOK
  <2>2. WriteConfig
    BY <1>1, <2>1 DEF IInv, CInv, CTypeOK, CNext, CHelperStep, Refuse, Merge, Mark, Done, CDie,
       COutsiders, TenantEdits, MintsId, Replaced, chistory
  <2>3. n \in marks /\ cpc = "write"
    BY <1>1, <2>2 DEF WriteConfig, IInv, CInv, CTypeOK
  <2> QED
    BY <2>3, <1>1 DEF IInv, CInv, MarkInv, AddsInv
<1>2. IInv /\ [Next]_vars => [\A n \in Providers : adds'[n] > adds[n] => adds[n] = 0 \/ n \in unmarked]_cvars
  BY <1>1
<1> QED
  BY Invariance, <1>2, PTL DEF Spec, AddedOnce
=============================================================================
