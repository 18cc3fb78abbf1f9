-------------------------- MODULE ImagePublication --------------------------
(***************************************************************************)
(* Publication of a root image: image-candidate.py names and records what  *)
(* a build made, image-publication.py (`promote') moves the public tags,   *)
(* one after the other, to a candidate that was accepted.  Builds are      *)
(* rerun, main advances, release tags are moved, the answer of a registry  *)
(* write is lost and the job dies, all between any two requests.           *)
(* A digest stands for the image and the receipts of the attempt that made *)
(* it.  The registry, GitHub and the workflows are external.               *)
(***************************************************************************)
EXTENDS Integers, Sequences

CONSTANTS
  Runs,         \* build runs
  MaxAttempts,  \* bound: attempts of a run
  MaxRev,       \* bound: commits on main, numbered as they come
  Versions,     \* X.Y.Z
  Aliases,      \* <<X.Y, X>>: the shorter names, shared by the versions
  Chart,        \* chart version of each commit
  Publishers,   \* bound: the jobs of publish-image.yml, each runs once
  None

Revs == 1..MaxRev
Refs == {"main"} \cup Versions
AliasTags == {Aliases[i] : i \in DOMAIN Aliases}
Tags == Versions \cup AliasTags \cup {"main", "latest"}
Digests == Runs \X (1..MaxAttempts)

ASSUME PublicationAssumption ==
  /\ MaxAttempts \in Nat \ {0} /\ MaxRev \in Nat \ {0}
  /\ Chart \in [Revs -> Versions] /\ Aliases \in Seq(AliasTags)
  /\ Versions \cap (AliasTags \cup {"main", "latest"}) = {}
  /\ AliasTags \cap {"main", "latest"} = {}
  /\ None \notin Digests

VARIABLES
  main, release,     \* GitHub's refs: the head of main, the commit of each vX.Y.Z (0: no tag)
  builds,            \* build runs, with the outcome of the latest attempt
  made, accepted,    \* attempts with a candidate, with an acceptance artifact
  registry,          \* the public tags
  late,              \* writes without an answer which the registry may still apply
  pc, cand, at,      \* of each job: queued, check, put, verify, over; its candidate; its tag
  \* History: writes some receipt has as attempted, tags a late write has landed on,
  \* and, for each job, the tags it wrote although main had advanced.
  attempted, landed, strays

github == <<main, release, builds, made, accepted>>
jobs == <<pc, cand, at>>
vars == <<github, registry, late, jobs, attempted, landed, strays>>

NoBuild == [rev |-> 1, ref |-> "main", attempt |-> 0, status |-> "none"]

Init ==
  /\ main = 1 /\ release = [v \in Versions |-> 0]
  /\ builds = [b \in Runs |-> NoBuild] /\ made = {} /\ accepted = {}
  /\ registry = [t \in Tags |-> None] /\ late = {}
  /\ pc = [p \in Publishers |-> "queued"] /\ cand = [p \in Publishers |-> None]
  /\ at = [p \in Publishers |-> 1]
  /\ attempted = {} /\ landed = {} /\ strays = [p \in Publishers |-> 0]

Rev(d) == builds[d[1]].rev
Ref(d) == builds[d[1]].ref
-----------------------------------------------------------------------------
(* promote. *)

\* Mutant: main may be ahead of the candidate.
CurrentAncestor(d) == Rev(d) <= main
\* current(): main and the release tag are still the commit that was tested.
Current(d) == main = Rev(d) /\ (Ref(d) \in Versions => release[Ref(d)] = Rev(d))

\* Mutant: an acceptance of the run will do, whatever became of this attempt.
AcceptedInRun(d) ==
  /\ d[2] = builds[d[1]].attempt /\ d \in made /\ \E a \in 1..MaxAttempts : <<d[1], a>> \in accepted
\* The latest attempt of the run succeeded, with both artifacts of this attempt.
Accepted(d) ==
  /\ builds[d[1]].status = "success" /\ d[2] = builds[d[1]].attempt
  /\ d \in made /\ d \in accepted
NamesChartVersion(d) == Ref(d) \in Versions => Chart[Rev(d)] = Ref(d)

VersionAny(d) == TRUE  \* mutant: the version tag is not looked at
\* A stable version that is there is this very image.
VersionFree(d) == Ref(d) \in Versions => registry[Ref(d)] \in {None, d}

TagsOf(d) ==
  (IF Ref(d) \in Versions THEN <<Ref(d)>> \o Aliases ELSE <<>>) \o <<"main", "latest">>
Target(p) == TagsOf(cand[p])[at[p]]

Active(p) == pc[p] \in {"check", "put", "verify"}
AnyNumber == TRUE      \* mutant: no concurrency group
\* publish-image.yml: one job of the group runs.
NoneRunning == \A p \in Publishers : ~Active(p)

Begin(p, d) ==
  /\ NoneRunning /\ pc[p] = "queued"
  /\ Accepted(d) /\ NamesChartVersion(d) /\ Current(d) /\ VersionFree(d)
  /\ pc' = [pc EXCEPT ![p] = "check"] /\ cand' = [cand EXCEPT ![p] = d]
  /\ UNCHANGED <<github, registry, late, at, attempted, landed, strays>>

UncheckedInLoop(p) == TRUE                   \* mutant: current() before the loop only
StillCurrent(p) == Current(cand[p])

\* Before a write: current(), the stable version once more, the receipt.
Check(p) ==
  /\ pc[p] = "check" /\ StillCurrent(p)
  /\ Target(p) \in Versions => VersionFree(cand[p])
  /\ attempted' = attempted \cup {<<cand[p], Target(p)>>}
  /\ pc' = [pc EXCEPT ![p] = "put"]
  /\ UNCHANGED <<github, registry, late, cand, at, landed, strays>>

Put(p) ==
  /\ pc[p] = "put"
  /\ registry' = [registry EXCEPT ![Target(p)] = cand[p]]
  /\ strays' = [strays EXCEPT ![p] = IF main = Rev(cand[p]) THEN @ ELSE @ + 1]
  /\ pc' = [pc EXCEPT ![p] = "verify"]
  /\ UNCHANGED <<github, late, cand, at, attempted, landed>>

LastOffByOne(p) == at[p] > Len(TagsOf(cand[p]))  \* mutant
Last(p) == at[p] = Len(TagsOf(cand[p]))

\* After a write: the tag is read back, current() again; after the last, `published'.
Over(p) ==
  /\ pc' = [pc EXCEPT ![p] = "over"] /\ cand' = [cand EXCEPT ![p] = None]
  /\ at' = [at EXCEPT ![p] = 1] /\ strays' = [strays EXCEPT ![p] = 0]
  /\ UNCHANGED <<github, registry, attempted, landed>>
Verified(p) == pc[p] = "verify" /\ registry[Target(p)] = cand[p] /\ StillCurrent(p)
Next1(p) ==
  /\ Verified(p) /\ ~Last(p)
  /\ at' = [at EXCEPT ![p] = @ + 1] /\ pc' = [pc EXCEPT ![p] = "check"]
  /\ UNCHANGED <<github, registry, late, cand, attempted, landed, strays>>
Published(p) ==
  /\ Verified(p) /\ Last(p)
  /\ Over(p) /\ UNCHANGED late

\* A failed requirement, an error, a timeout or the end of the job: nothing is
\* rolled back, and a write whose answer is missing may be applied at any time.
Stops(p) ==
  /\ Active(p) /\ Over(p)
  /\ late' = IF pc[p] = "put" THEN late \cup {<<Target(p), cand[p]>>} ELSE late

Publisher(p) ==
  Check(p) \/ Put(p) \/ Next1(p) \/ Published(p) \/ Stops(p) \/ \E d \in Digests : Begin(p, d)
-----------------------------------------------------------------------------
(* The registry and GitHub. *)

Land ==
  \E t \in Tags, d \in Digests :
    /\ <<t, d>> \in late /\ late' = late \ {<<t, d>>}
    /\ registry' = [registry EXCEPT ![t] = d] /\ landed' = landed \cup {t}
    /\ UNCHANGED <<github, jobs, attempted, strays>>

Others == <<registry, late, jobs, attempted, landed, strays>>

Push == main < MaxRev /\ main' = main + 1 /\ UNCHANGED <<release, builds, made, accepted, Others>>

\* A release is tagged, or its tag moved.
TagRelease(v, r) ==
  /\ r <= main /\ r # release[v]
  /\ release' = [release EXCEPT ![v] = r]
  /\ UNCHANGED <<main, builds, made, accepted, Others>>

\* A push or a dispatch, on main or on a release tag.
StartBuild(b) ==
  /\ builds[b].status = "none"
  /\ \E ref \in Refs :
       LET rev == IF ref = "main" THEN main ELSE release[ref] IN
       /\ rev # 0
       /\ builds' = [builds EXCEPT ![b] = [rev |-> rev, ref |-> ref, attempt |-> 1, status |-> "running"]]
  /\ UNCHANGED <<main, release, made, accepted, Others>>

\* Rerun by hand: the same commit, a new attempt.
Rerun(b) ==
  /\ builds[b].status \in {"success", "failure", "expired"} /\ builds[b].attempt < MaxAttempts
  /\ builds' = [builds EXCEPT ![b].attempt = @ + 1, ![b].status = "running"]
  /\ UNCHANGED <<main, release, made, accepted, Others>>

\* The jobs: a candidate is pushed under a name of its own, the acceptance needs it;
\* a rerun of the failed job alone has no candidate of its attempt.
EndBuild(b) ==
  /\ builds[b].status = "running"
  /\ LET d == <<b, builds[b].attempt>> IN
     \E result \in {"success", "failure"}, image \in BOOLEAN :
       /\ result = "success" => image
       /\ builds' = [builds EXCEPT ![b].status = result]
       /\ made' = IF image THEN made \cup {d} ELSE made
       /\ accepted' = IF result = "success" THEN accepted \cup {d} ELSE accepted
  /\ UNCHANGED <<main, release, Others>>

\* 72 hours pass.
Expire(b) ==
  /\ builds[b].status = "success" /\ builds' = [builds EXCEPT ![b].status = "expired"]
  /\ UNCHANGED <<main, release, made, accepted, Others>>

GitHub ==
  \/ Push \/ \E v \in Versions, r \in Revs : TagRelease(v, r)
  \/ \E b \in Runs : StartBuild(b) \/ Rerun(b) \/ EndBuild(b) \/ Expire(b)

Next == Land \/ GitHub \/ \E p \in Publishers : Publisher(p)

Spec == Init /\ [][Next]_vars
-----------------------------------------------------------------------------
(* Properties. *)

Builds == [rev : Revs, ref : Refs, attempt : 0..MaxAttempts,
           status : {"none", "running", "success", "failure", "expired"}]
TypeOK ==
  /\ main \in Revs /\ release \in [Versions -> Revs \cup {0}] /\ builds \in [Runs -> Builds]
  /\ made \subseteq Digests /\ accepted \subseteq made
  /\ registry \in [Tags -> Digests \cup {None}] /\ late \subseteq Tags \X Digests
  /\ pc \in [Publishers -> {"queued", "check", "put", "verify", "over"}]
  /\ cand \in [Publishers -> Digests \cup {None}]
  /\ attempted \subseteq Digests \X Tags /\ landed \subseteq Tags
  /\ at \in [Publishers -> Nat] /\ strays \in [Publishers -> Nat]
  /\ \A p \in Publishers : Active(p) =>
       cand[p] \in Digests /\ at[p] \in 1..Len(TagsOf(cand[p]))

\* A stable version keeps its image for good, across reruns, moved release tags,
\* retries and dead jobs: only a write that was lost and applied late can break it.
\* ("stable version already exists with another digest".)
StableVersionsImmutable ==
  [][\A v \in Versions : registry[v] # None /\ registry'[v] # registry[v] => v \in landed']_vars

\* Whatever a public tag names, however late or lost the write, passed the
\* acceptance of its own build attempt ("mixed-attempt ... results are refused"),
\* and a receipt has the write ("records both attempted and acknowledged tag
\* writes").
PublicTagsAccountedFor ==
  \A t \in Tags : registry[t] # None => registry[t] \in accepted /\ <<registry[t], t>> \in attempted

\* `main' and `latest' follow main: they never return to an older commit.
LatestNeverGoesBack ==
  [][\A t \in {"main", "latest"} :
       registry[t] # None /\ t \notin landed' => Rev(registry'[t]) >= Rev(registry[t])]_vars

\* "checks the live main/tag SHA before and after every registry write": of the
\* tags of one publication, one at most is written after main advanced.  (A release
\* tag that is moved away and back between two looks is not noticed.)
AtMostOneStrayTag == \A p \in Publishers : strays[p] <= 1

\* `published' is the truth: all tags of the release name the one image when it is
\* recorded, lest a late write landed on them.
PublishedTagsAgree ==
  [][\A p \in Publishers : Verified(p) /\ Last(p) /\ pc'[p] = "over" =>
       \A i \in 1..Len(TagsOf(cand[p])) :
          TagsOf(cand[p])[i] \in landed \/ registry[TagsOf(cand[p])[i]] = cand[p]]_vars
=============================================================================
