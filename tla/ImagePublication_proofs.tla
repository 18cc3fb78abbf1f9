----------------------- MODULE ImagePublication_proofs ------------------------
(***************************************************************************)
(* Proofs about ImagePublication for any number of build runs, attempts,   *)
(* commits, versions, aliases and jobs.                                    *)
(***************************************************************************)
EXTENDS ImagePublication, SequenceTheorems, TLAPS

-----------------------------------------------------------------------------
(* The inductive invariant. *)

(* What a build made names a commit of main, and the build does not start anew. *)
BuildInv ==
  /\ \A b \in Runs : builds[b].rev <= main /\ (builds[b].status # "none" => builds[b].attempt # 0)
  /\ \A v \in Versions : release[v] <= main
  /\ \A d \in made : builds[d[1]].status # "none"

(* One job of the group runs, with a candidate that was accepted.            *)
JobInv ==
  /\ \A p, q \in Publishers : Active(p) /\ Active(q) => p = q
  /\ \A p \in Publishers : Active(p) => cand[p] \in accepted
  /\ \A p \in Publishers : pc[p] = "queued" => at[p] = 1

(* Whatever is written, may still be written or is about to be was accepted   *)
(* and is in a receipt.                                                      *)
ReceiptInv ==
  /\ PublicTagsAccountedFor
  /\ \A w \in late : w[2] \in accepted /\ <<w[2], w[1]>> \in attempted
  /\ \A p \in Publishers : pc[p] \in {"put", "verify"} => <<cand[p], Target(p)>> \in attempted

(* Between the look at the tags and the write only a late write changes them. *)
PutInv ==
  \A p \in Publishers : pc[p] = "put" =>
    /\ Target(p) \in Versions => Target(p) \in landed \/ registry[Target(p)] \in {None, cand[p]}
    /\ \A t \in Tags : registry[t] # None /\ t \notin landed => Rev(registry[t]) <= Rev(cand[p])

(* The tags behind the loop name the candidate.                              *)
DoneInv ==
  \A p \in Publishers : Active(p) =>
    \A i \in 1..Len(TagsOf(cand[p])) :
      i < at[p] \/ (i = at[p] /\ pc[p] = "verify") =>
        TagsOf(cand[p])[i] \in landed \/ registry[TagsOf(cand[p])[i]] = cand[p]

(* A stray write is the last one: main does not come back.                   *)
StrayInv ==
  \A p \in Publishers :
    /\ strays[p] <= 1
    /\ strays[p] # 0 => pc[p] = "verify" /\ Rev(cand[p]) < main

IInv == TypeOK /\ BuildInv /\ JobInv /\ ReceiptInv /\ PutInv /\ DoneInv /\ StrayInv

(* The tags of a candidate, and which of them can be a stable version.       *)
LEMMA TagsOfCandidate ==
  ASSUME TypeOK, NEW d \in Digests
  PROVE  /\ Len(TagsOf(d)) \in Nat \ {0}
         /\ \A i \in 1..Len(TagsOf(d)) : TagsOf(d)[i] \in Tags
         /\ \A i \in 1..Len(TagsOf(d)) : TagsOf(d)[i] \in Versions => TagsOf(d)[i] = Ref(d)
<1> DEFINE ends == <<"main", "latest">>
           front == IF Ref(d) \in Versions THEN <<Ref(d)>> \o Aliases ELSE <<>>
<1>1. ends \in Seq(Tags) /\ Len(ends) = 2 /\ \A i \in 1..2 : ends[i] \in {"main", "latest"}
  BY DEF Tags
<1>2. Aliases \in Seq(Tags) /\ Len(Aliases) \in Nat /\ \A i \in 1..Len(Aliases) : Aliases[i] \in AliasTags
  BY PublicationAssumption DEF Tags
<1>3. /\ front \in Seq(Tags) /\ Len(front) \in Nat
      /\ \A i \in 1..Len(front) : front[i] \in AliasTags \/ front[i] = Ref(d)
  <2>1. CASE Ref(d) \in Versions
    <3>1. <<Ref(d)>> \in Seq(Tags) /\ Len(<<Ref(d)>>) = 1 /\ <<Ref(d)>>[1] = Ref(d)
      BY <2>1 DEF Tags
    <3>2. front = <<Ref(d)>> \o Aliases
      BY <2>1
    <3> HIDE DEF front
    <3>3. Len(front) = 1 + Len(Aliases) /\ front \in Seq(Tags)
      BY <3>1, <3>2, <1>2
    <3>4. \A i \in 1..Len(front) : front[i] = IF i = 1 THEN Ref(d) ELSE Aliases[i - 1]
      BY <3>1, <3>2, <3>3, <1>2
    <3> QED
      BY <3>3, <3>4, <1>2
  <2>2. CASE Ref(d) \notin Versions
    BY <2>2
  <2> QED
    BY <2>1, <2>2
<1>4. TagsOf(d) = front \o ends
  BY DEF TagsOf
<1> HIDE DEF front, ends
<1>5. Len(TagsOf(d)) = Len(front) + 2 /\ TagsOf(d) \in Seq(Tags)
  <2>1. front \in Seq(Tags) /\ ends \in Seq(Tags) /\ Len(ends) = 2
    BY <1>1, <1>3
  <2>2. front \o ends \in Seq(Tags)
    BY <2>1, ConcatProperties
  <2>3. Len(front \o ends) = Len(front) + Len(ends)
    BY <2>1, ConcatProperties
  <2> QED
    BY <2>1, <2>2, <2>3, <1>4
<1>6. \A i \in 1..Len(TagsOf(d)) : TagsOf(d)[i] = IF i <= Len(front) THEN front[i] ELSE ends[i - Len(front)]
  BY <1>1, <1>3, <1>4, <1>5
<1>7. \A i \in 1..Len(TagsOf(d)) :
        TagsOf(d)[i] \in AliasTags \cup {"main", "latest"} \/ TagsOf(d)[i] = Ref(d)
  BY <1>1, <1>3, <1>5, <1>6
<1> QED
  BY <1>5, <1>7, PublicationAssumption

(* What is in the registry, on its way to it or in a job's hands was made.   *)
LEMMA NamedAreMade ==
  ASSUME IInv
  PROVE  /\ \A t \in Tags : registry[t] # None => registry[t] \in made
         /\ \A w \in late : w[2] \in made
         /\ \A p \in Publishers : Active(p) => cand[p] \in made
         /\ \A d \in made : d \in Digests /\ Rev(d) <= main /\ Rev(d) \in Revs
<1>1. made \subseteq Digests /\ accepted \subseteq made
  BY DEF IInv, TypeOK
<1>2. \A d \in Digests : Rev(d) <= main /\ Rev(d) \in Revs
  BY DEF IInv, TypeOK, BuildInv, Rev, Digests, Builds
<1> QED
  BY <1>1, <1>2 DEF IInv, JobInv, ReceiptInv, PublicTagsAccountedFor

(* GitHub may do what it likes with what was not made yet.                    *)
LEMMA GitHubKeeps ==
  ASSUME IInv, UNCHANGED Others, made \subseteq made', accepted \subseteq accepted',
         main \in Nat, main' \in Nat, main <= main',
         \A d \in made : Rev(d)' = Rev(d) /\ Ref(d)' = Ref(d)
  PROVE  /\ JobInv' /\ ReceiptInv' /\ PutInv' /\ DoneInv' /\ StrayInv'
         /\ (\A p \in Publishers : Active(p) =>
               cand[p] \in Digests /\ at[p] \in 1..Len(TagsOf(cand[p])))'
<1>1. /\ registry' = registry /\ late' = late /\ pc' = pc /\ cand' = cand /\ at' = at
      /\ attempted' = attempted /\ landed' = landed /\ strays' = strays
  BY DEF Others, jobs
<1>2. \A d \in made : TagsOf(d)' = TagsOf(d)
  BY DEF TagsOf
<1>3. \A p \in Publishers : Active(p)' = Active(p)
  BY <1>1 DEF Active
<1>4. \A p \in Publishers : Active(p) => Target(p)' = Target(p) /\ TagsOf(cand[p])' = TagsOf(cand[p])
                                         /\ Rev(cand[p])' = Rev(cand[p])
  BY <1>1, <1>2, NamedAreMade DEF Target
<1>5. JobInv'
  BY <1>1, <1>3 DEF IInv, JobInv
<1>6. ReceiptInv'
  BY <1>1, <1>4 DEF IInv, ReceiptInv, PublicTagsAccountedFor, Active
<1>7. PutInv'
  <2>1. \A t \in Tags : registry[t] # None => Rev(registry[t])' = Rev(registry[t])
    BY <1>1, NamedAreMade
  <2> QED
    BY <2>1, <1>1, <1>4 DEF IInv, PutInv, Active
<1>8. DoneInv'
  BY <1>1, <1>3, <1>4 DEF IInv, DoneInv
<1>9. StrayInv'
  <2>1. \A p \in Publishers : Active(p) => Rev(cand[p]) \in Nat
    BY NamedAreMade DEF Revs
  <2> QED
    BY <2>1, <1>1, <1>4 DEF IInv, StrayInv, Active
<1>10. (\A p \in Publishers : Active(p) => cand[p] \in Digests /\ at[p] \in 1..Len(TagsOf(cand[p])))'
  BY <1>1, <1>3, <1>4 DEF IInv, TypeOK
<1> QED
  BY <1>5, <1>6, <1>7, <1>8, <1>9, <1>10

(* What is known of a running job.                                            *)
LEMMA JobFacts ==
  ASSUME IInv, NEW r \in Publishers, Active(r)
  PROVE  /\ cand[r] \in made /\ cand[r] \in Digests /\ Rev(cand[r]) \in Nat /\ Rev(cand[r]) <= main
         /\ at[r] \in 1..Len(TagsOf(cand[r])) /\ Len(TagsOf(cand[r])) \in Nat
         /\ Target(r) \in Tags /\ (Target(r) \in Versions => Target(r) = Ref(cand[r]))
         /\ \A q \in Publishers : Active(q) => q = r
<1>1. /\ cand[r] \in made /\ cand[r] \in Digests /\ Rev(cand[r]) \in Nat /\ Rev(cand[r]) <= main
  BY NamedAreMade DEF Revs
<1>2. at[r] \in 1..Len(TagsOf(cand[r]))
  BY DEF IInv, TypeOK
<1>3. TypeOK
  BY DEF IInv
<1> QED
  BY <1>1, <1>2, <1>3, TagsOfCandidate DEF IInv, JobInv, Target

(* Where GitHub does nothing a candidate's commit and tags stay.              *)
LEMMA GitHubStays ==
  ASSUME UNCHANGED github
  PROVE  \A d : Rev(d)' = Rev(d) /\ Ref(d)' = Ref(d) /\ TagsOf(d)' = TagsOf(d)
BY DEF github, Rev, Ref, TagsOf

(* The first look at the tags. *)
LEMMA BeginStep == ASSUME IInv, NEW r \in Publishers, NEW d \in Digests, Begin(r, d) PROVE IInv'
<1>1. TypeOK'
  <2>1. Active(r)' /\ \A q \in Publishers : q # r => ~Active(q)'
    BY DEF Begin, NoneRunning, Active, IInv, TypeOK
  <2>2. cand'[r] = d /\ d \in Digests /\ at'[r] = 1
    BY DEF Begin, IInv, TypeOK, JobInv
  <2>3. 1 \in 1..Len(TagsOf(d)) /\ TagsOf(d)' = TagsOf(d)
    BY TagsOfCandidate, GitHubStays DEF Begin, IInv
  <2>4. (\A p \in Publishers : Active(p) => cand[p] \in Digests /\ at[p] \in 1..Len(TagsOf(cand[p])))'
    BY <2>1, <2>2, <2>3
  <2>5. /\ pc' \in [Publishers -> {"queued", "check", "put", "verify", "over"}]
        /\ cand' \in [Publishers -> Digests \cup {None}]
    BY DEF Begin, IInv, TypeOK
  <2> QED
    BY <2>4, <2>5 DEF Begin, IInv, TypeOK, github
<1>2. BuildInv'
  BY DEF IInv, BuildInv, Begin, NoneRunning, Active, Accepted, Current, github
<1>3. JobInv'
  BY DEF IInv, TypeOK, JobInv, Active, Begin, NoneRunning, Accepted, Current, github
<1>4. ReceiptInv'
  BY DEF IInv, ReceiptInv, PublicTagsAccountedFor, Target, Active, Begin, NoneRunning, Accepted,
     Current, github
<1>5. PutInv'
  BY DEF IInv, PutInv, Target, Active, Begin, NoneRunning, Accepted, Current, github
<1>6. DoneInv'
  <2>1. \A q \in Publishers : Active(q)' => q = r
    BY DEF Begin, NoneRunning, Active, IInv, TypeOK
  <2>2. at'[r] = 1 /\ pc'[r] = "check"
    BY DEF Begin, IInv, TypeOK, JobInv
  <2> QED
    BY <2>1, <2>2 DEF DoneInv
<1>7. StrayInv'
  BY DEF IInv, StrayInv, Active, Begin, NoneRunning, Accepted, Current, github
<1> QED
  BY <1>1, <1>2, <1>3, <1>4, <1>5, <1>6, <1>7 DEF IInv

(* Between this look and the write the candidate is main's head and may have
   the version's tag. *)
LEMMA CheckStep == ASSUME IInv, NEW r \in Publishers, Check(r) PROVE IInv'
<1>1. TypeOK'
  <2>1. Active(r) /\ attempted' \subseteq Digests \X Tags
    BY JobFacts DEF Check, Active, IInv, TypeOK
  <2>2. \A q \in Publishers : Active(q)' => Active(q)
    BY DEF Check, Active, IInv, TypeOK
  <2>3. (\A p \in Publishers : Active(p) => cand[p] \in Digests /\ at[p] \in 1..Len(TagsOf(cand[p])))'
    BY <2>2, GitHubStays DEF Check, IInv, TypeOK
  <2> QED
    BY <2>1, <2>3 DEF Check, IInv, TypeOK, github
<1>2. BuildInv'
  BY DEF IInv, BuildInv, Check, StillCurrent, Current, Target, VersionFree, github, Active
<1>3. JobInv'
  BY DEF IInv, JobInv, Active, Check, StillCurrent, Current, Target, VersionFree, github
<1>4. ReceiptInv'
  BY DEF IInv, TypeOK, BuildInv, JobInv, ReceiptInv, PublicTagsAccountedFor, Target, Active,
     Check, StillCurrent, Current, VersionFree, github, Rev, Ref, TagsOf
<1>5. PutInv'
  <2>1. /\ Active(r) /\ main = Rev(cand[r]) /\ UNCHANGED <<registry, landed, cand, at, github>>
    BY DEF Check, Active, StillCurrent, Current
  <2>2. \A t \in Tags : registry[t] # None => Rev(registry[t]) <= Rev(cand[r])
    BY <2>1, NamedAreMade
  <2>3. Target(r) \in Versions => registry[Target(r)] \in {None, cand[r]}
    BY <2>1, JobFacts DEF Check, VersionFree
  <2>4. \A q \in Publishers : pc'[q] = "put" => q = r
    BY <2>1, JobFacts DEF Check, Active, IInv, TypeOK
  <2>5. Target(r)' = Target(r) /\ \A d : Rev(d)' = Rev(d)
    BY <2>1, GitHubStays DEF Target
  <2> QED
    BY <2>1, <2>2, <2>3, <2>4, <2>5 DEF PutInv
<1>6. DoneInv'
  <2>1. \A q \in Publishers : Active(q)' => Active(q)
    BY DEF Check, Active, IInv, TypeOK
  <2>2. \A q \in Publishers : pc'[q] = "verify" => pc[q] = "verify"
    BY DEF Check, IInv, TypeOK
  <2>3. UNCHANGED <<cand, at, registry, landed>> /\ \A d : TagsOf(d)' = TagsOf(d)
    BY GitHubStays DEF Check
  <2> QED
    BY <2>1, <2>2, <2>3 DEF IInv, DoneInv
<1>7. StrayInv'
  BY DEF IInv, TypeOK, JobInv, StrayInv, Active, Check, StillCurrent, Current, Target,
     VersionFree, github, Rev, Ref
<1> QED
  BY <1>1, <1>2, <1>3, <1>4, <1>5, <1>6, <1>7 DEF IInv

(* What the receipt has is written; a write that came too late for main is
   counted. *)
LEMMA PutStep == ASSUME IInv, NEW r \in Publishers, Put(r) PROVE IInv'
<1>1. TypeOK'
  <2>1. Active(r) /\ cand[r] \in Digests /\ Target(r) \in Tags
    BY JobFacts DEF Put, Active
  <2>2. registry' \in [Tags -> Digests \cup {None}]
    BY <2>1 DEF Put, IInv, TypeOK
  <2>3. \A q \in Publishers : Active(q)' => Active(q)
    BY DEF Put, Active, IInv, TypeOK
  <2>4. (\A p \in Publishers : Active(p) => cand[p] \in Digests /\ at[p] \in 1..Len(TagsOf(cand[p])))'
    BY <2>3, GitHubStays DEF Put, IInv, TypeOK
  <2>5. strays' \in [Publishers -> Nat] /\ pc' \in [Publishers -> {"queued", "check", "put", "verify", "over"}]
    BY DEF Put, IInv, TypeOK
  <2> QED
    BY <2>2, <2>4, <2>5 DEF Put, IInv, TypeOK, github
<1>2. BuildInv'
  BY DEF IInv, BuildInv, Put, Target, github, Active
<1>3. JobInv'
  BY DEF IInv, JobInv, Active, Put, Target, github
<1>4. ReceiptInv'
  BY DEF IInv, TypeOK, BuildInv, JobInv, ReceiptInv, PublicTagsAccountedFor, Target, Active,
     Put, github, Rev, Ref, TagsOf
<1>5. PutInv'
  BY DEF IInv, TypeOK, JobInv, PutInv, Target, Active, Put, github, Rev, Ref
<1>6. DoneInv'
  <2>1. Active(r) /\ Target(r) \in Tags
    BY JobFacts DEF Put, Active
  <2>2. \A q \in Publishers : Active(q)' => q = r
    BY <2>1, JobFacts DEF Put, Active, IInv, TypeOK
  <2>3. TagsOf(cand[r])' = TagsOf(cand[r]) /\ at' = at /\ cand' = cand /\ landed' = landed
    BY GitHubStays DEF Put
  <2>4. \A t \in Tags : registry'[t] = IF t = Target(r) THEN cand[r] ELSE registry[t]
    BY DEF Put, IInv, TypeOK
  <2>5. \A i \in 1..Len(TagsOf(cand[r])) : TagsOf(cand[r])[i] \in Tags
    BY <2>1, JobFacts, TagsOfCandidate DEF IInv
  <2>6. \A i \in 1..Len(TagsOf(cand[r])) : i < at[r] \/ i = at[r] =>
          TagsOf(cand[r])[i] \in landed \/ registry'[TagsOf(cand[r])[i]] = cand[r]
    BY <2>1, <2>4, <2>5 DEF IInv, DoneInv, Target
  <2> QED
    BY <2>2, <2>3, <2>6 DEF DoneInv
<1>7. StrayInv'
  <2>1. Active(r) /\ pc[r] = "put" /\ strays[r] = 0
    BY DEF Put, Active, IInv, StrayInv
  <2>2. Rev(cand[r]) <= main /\ Rev(cand[r]) \in Nat /\ main \in Nat
    BY <2>1, JobFacts DEF IInv, TypeOK, Revs
  <2>3. strays'[r] = IF main = Rev(cand[r]) THEN 0 ELSE 1
    BY <2>1 DEF Put, IInv, TypeOK
  <2>4. \A q \in Publishers : q # r => strays'[q] = strays[q] /\ pc'[q] = pc[q]
    BY DEF Put, IInv, TypeOK
  <2>5. pc'[r] = "verify" /\ UNCHANGED <<cand, main>> /\ \A d : Rev(d)' = Rev(d)
    BY GitHubStays DEF Put, github, IInv, TypeOK
  <2> QED
    BY <2>2, <2>3, <2>4, <2>5 DEF IInv, StrayInv
<1> QED
  BY <1>1, <1>2, <1>3, <1>4, <1>5, <1>6, <1>7 DEF IInv

(* main had not advanced, so nothing was a stray; on to the next tag. *)
LEMMA Next1Step == ASSUME IInv, NEW r \in Publishers, Next1(r) PROVE IInv'
<1>1. TypeOK'
  <2>1. Active(r) /\ pc[r] = "verify" /\ at[r] # Len(TagsOf(cand[r]))
    BY DEF Next1, Verified, Last, Active
  <2>2. at[r] + 1 \in 1..Len(TagsOf(cand[r])) /\ cand[r] \in Digests
    BY <2>1, JobFacts
  <2>3. UNCHANGED <<github, registry, late, cand, attempted, landed, strays>>
    BY DEF Next1
  <2>4. pc' = [pc EXCEPT ![r] = "check"] /\ at' = [at EXCEPT ![r] = @ + 1]
    BY DEF Next1
  <2>5. /\ pc' \in [Publishers -> {"queued", "check", "put", "verify", "over"}]
        /\ at' \in [Publishers -> Nat]
    BY <2>4 DEF IInv, TypeOK
  <2>6. (\A p \in Publishers : Active(p) => cand[p] \in Digests /\ at[p] \in 1..Len(TagsOf(cand[p])))'
    <3>1. \A d : TagsOf(d)' = TagsOf(d)
      BY <2>3, GitHubStays
    <3>2. \A q \in Publishers : Active(q)' => q = r
      BY <2>1, <2>4, JobFacts DEF Active, IInv, TypeOK
    <3>3. at'[r] = at[r] + 1
      BY <2>4 DEF IInv, TypeOK
    <3> QED
      BY <2>2, <2>3, <3>1, <3>2, <3>3
  <2> QED
    BY <2>3, <2>5, <2>6 DEF IInv, TypeOK, github
<1>2. BuildInv'
  BY DEF IInv, BuildInv, Next1, Verified, StillCurrent, Current, Last, Target, github, Active
<1>3. JobInv'
  BY DEF IInv, JobInv, Active, Next1, Verified, StillCurrent, Current, Last, Target, github
<1>4. ReceiptInv'
  BY DEF IInv, TypeOK, JobInv, ReceiptInv, PublicTagsAccountedFor, Target, Active, Next1,
     Verified, StillCurrent, Current, Last, github, Rev, Ref
<1>5. PutInv'
  BY DEF IInv, TypeOK, JobInv, PutInv, Target, Active, Next1, Verified, StillCurrent, Current,
     Last, github, Rev, Ref
<1>6. DoneInv'
  <2>1. Active(r) /\ pc[r] = "verify" /\ at[r] \in Nat
    BY JobFacts DEF Next1, Verified, Active
  <2>2. \A q \in Publishers : Active(q)' => q = r
    BY <2>1, JobFacts DEF Next1, Active, IInv, TypeOK
  <2>3. TagsOf(cand[r])' = TagsOf(cand[r]) /\ UNCHANGED <<cand, landed, registry>>
    BY GitHubStays DEF Next1
  <2>4. at'[r] = at[r] + 1 /\ pc'[r] = "check"
    BY DEF Next1, IInv, TypeOK
  <2>5. \A i \in 1..Len(TagsOf(cand[r])) : i < at[r] + 1 => i < at[r] \/ i = at[r]
    BY <2>1, JobFacts
  <2>6. \A i \in 1..Len(TagsOf(cand[r])) : i < at[r] + 1 =>
          TagsOf(cand[r])[i] \in landed \/ registry[TagsOf(cand[r])[i]] = cand[r]
    BY <2>1, <2>5 DEF IInv, DoneInv
  <2> QED
    BY <2>2, <2>3, <2>4, <2>6 DEF DoneInv
<1>7. StrayInv'
  BY PublicationAssumption, TagsOfCandidate DEF IInv, TypeOK, BuildInv, JobInv, StrayInv,
     Active, Next1, Verified, StillCurrent, Current, Last, Target, github, Rev, Ref, Builds,
     Digests, Revs, Refs
<1> QED
  BY <1>1, <1>2, <1>3, <1>4, <1>5, <1>6, <1>7 DEF IInv

(* The job is over. *)
LEMMA PublishedStep == ASSUME IInv, NEW r \in Publishers, Published(r) PROVE IInv'
<1>1. TypeOK'
  BY DEF IInv, TypeOK, JobInv, Active, Published, Verified, Last, Over, StillCurrent, Current,
     github, Rev, Ref
<1>2. BuildInv'
  BY DEF IInv, BuildInv, Published, Verified, Last, Over, StillCurrent, Current, github, Active
<1>3. JobInv'
  BY DEF IInv, TypeOK, JobInv, Active, Published, Verified, Last, Over, StillCurrent, Current,
     github
<1>4. ReceiptInv'
  BY DEF IInv, TypeOK, JobInv, ReceiptInv, PublicTagsAccountedFor, Target, Active, Published,
     Verified, Last, Over, StillCurrent, Current, github, Rev, Ref
<1>5. PutInv'
  BY DEF IInv, TypeOK, JobInv, PutInv, Target, Active, Published, Verified, Last, Over,
     StillCurrent, Current, github, Rev, Ref
<1>6. DoneInv'
  BY DEF IInv, TypeOK, JobInv, DoneInv, Active, Published, Verified, Last, Over, StillCurrent,
     Current, github, Rev, Ref
<1>7. StrayInv'
  BY DEF IInv, TypeOK, JobInv, StrayInv, Active, Published, Verified, Last, Over, StillCurrent,
     Current, github, Rev, Ref
<1> QED
  BY <1>1, <1>2, <1>3, <1>4, <1>5, <1>6, <1>7 DEF IInv

(* The job is over, a write without an answer is late. *)
LEMMA StopsStep == ASSUME IInv, NEW r \in Publishers, Stops(r) PROVE IInv'
<1>1. TypeOK'
  <2>1. cand[r] \in Digests /\ Target(r) \in Tags
    BY JobFacts DEF Stops
  <2>2. late' \subseteq Tags \X Digests
    BY <2>1 DEF Stops, IInv, TypeOK
  <2>3. \A q \in Publishers : Active(q)' => Active(q) /\ q # r
    BY DEF Stops, Over, Active, IInv, TypeOK
  <2>4. (\A p \in Publishers : Active(p) => cand[p] \in Digests /\ at[p] \in 1..Len(TagsOf(cand[p])))'
    BY <2>3, GitHubStays DEF Stops, Over, IInv, TypeOK
  <2>5. /\ strays' \in [Publishers -> Nat] /\ at' \in [Publishers -> Nat]
        /\ pc' \in [Publishers -> {"queued", "check", "put", "verify", "over"}]
        /\ cand' \in [Publishers -> Digests \cup {None}]
    BY DEF Stops, Over, IInv, TypeOK
  <2> QED
    BY <2>2, <2>4, <2>5 DEF Stops, Over, IInv, TypeOK, github
<1>2. BuildInv'
  BY DEF IInv, BuildInv, Stops, Active, Over, Target, github
<1>3. JobInv'
  BY DEF IInv, TypeOK, JobInv, Active, Stops, Over, Target, github
<1>4. ReceiptInv'
  BY DEF IInv, TypeOK, JobInv, ReceiptInv, PublicTagsAccountedFor, Target, Active, Stops, Over,
     github, Rev, Ref
<1>5. PutInv'
  BY DEF IInv, TypeOK, JobInv, PutInv, Target, Active, Stops, Over, github, Rev, Ref
<1>6. DoneInv'
  BY DEF IInv, TypeOK, JobInv, DoneInv, Active, Stops, Over, Target, github, Rev, Ref
<1>7. StrayInv'
  BY DEF IInv, TypeOK, JobInv, StrayInv, Active, Stops, Over, Target, github, Rev, Ref
<1> QED
  BY <1>1, <1>2, <1>3, <1>4, <1>5, <1>6, <1>7 DEF IInv

(* A late write lands on its tag. *)
LEMMA LandStep == ASSUME IInv, Land PROVE IInv'
<1>1. TypeOK'
  BY DEF IInv, TypeOK, BuildInv, JobInv, Active, Land, github, jobs, Rev, Ref, TagsOf
<1>2. BuildInv'
  BY DEF IInv, BuildInv, Land, github, jobs
<1>3. JobInv'
  BY DEF IInv, JobInv, Active, Land, github, jobs
<1>4. ReceiptInv'
  BY DEF IInv, TypeOK, BuildInv, JobInv, ReceiptInv, PublicTagsAccountedFor, Target, Active,
     Land, github, jobs, Rev, Ref, TagsOf
<1>5. PutInv'
  <2>1. PICK t \in Tags, d \in Digests :
          registry' = [registry EXCEPT ![t] = d] /\ landed' = landed \cup {t}
    BY DEF Land
  <2>2. UNCHANGED <<github, jobs>>
    BY DEF Land
  <2>3. \A u \in Tags : u \notin landed' => registry'[u] = registry[u] /\ u \notin landed
    BY <2>1 DEF IInv, TypeOK
  <2>4. /\ \A c : Rev(c)' = Rev(c)
        /\ \A p \in Publishers : Target(p)' = Target(p)
    BY <2>2, GitHubStays DEF jobs, Target
  <2>5. \A p \in Publishers : pc[p] = "put" => Target(p) \in Tags
    BY JobFacts DEF Active
  <2> QED
    BY <2>1, <2>2, <2>3, <2>4, <2>5 DEF IInv, PutInv, jobs
<1>6. DoneInv'
  <2>1. PICK t \in Tags, d \in Digests :
          registry' = [registry EXCEPT ![t] = d] /\ landed' = landed \cup {t}
    BY DEF Land
  <2>2. UNCHANGED <<pc, cand, at>> /\ \A d1 : TagsOf(d1)' = TagsOf(d1)
    BY GitHubStays DEF Land, jobs
  <2>3. \A u : u \notin landed' => registry'[u] = registry[u] /\ u \notin landed
    BY <2>1 DEF IInv, TypeOK
  <2> QED
    BY <2>2, <2>3 DEF IInv, DoneInv, Active
<1>7. StrayInv'
  BY DEF IInv, TypeOK, JobInv, StrayInv, Active, Land, github, jobs, Rev, Ref
<1> QED
  BY <1>1, <1>2, <1>3, <1>4, <1>5, <1>6, <1>7 DEF IInv

(* main advances: a candidate in the hands of a job is older now. *)
LEMMA PushStep == ASSUME IInv, Push PROVE IInv'
<1>1. \A d \in made : Rev(d)' = Rev(d) /\ Ref(d)' = Ref(d)
  BY DEF Push, Rev, Ref
<1>2. main \in Nat /\ main' \in Nat /\ main <= main'
  BY PublicationAssumption DEF Push, IInv, TypeOK, Revs
<1>3. made \subseteq made' /\ accepted \subseteq accepted' /\ UNCHANGED Others
  BY DEF Push
<1>4. BuildInv'
  <2>1. \A b \in Runs : builds[b].rev \in Nat
    BY DEF IInv, TypeOK, Builds, Revs
  <2>2. \A v \in Versions : release[v] \in Nat
    BY DEF IInv, TypeOK, Revs
  <2>3. UNCHANGED <<builds, release, made>>
    BY DEF Push
  <2> QED
    BY <1>2, <2>1, <2>2, <2>3 DEF IInv, BuildInv
<1>5. /\ JobInv' /\ ReceiptInv' /\ PutInv' /\ DoneInv' /\ StrayInv'
      /\ (\A p \in Publishers : Active(p) =>
            cand[p] \in Digests /\ at[p] \in 1..Len(TagsOf(cand[p])))'
  BY <1>1, <1>2, <1>3, GitHubKeeps
<1>6. /\ main' \in Revs /\ release' \in [Versions -> Revs \cup {0}] /\ builds' \in [Runs -> Builds]
  BY PublicationAssumption DEF IInv, TypeOK, Push, Builds, Revs, Refs
<1>7. /\ made' \subseteq Digests /\ accepted' \subseteq made'
  BY PublicationAssumption DEF IInv, TypeOK, Push, Builds, Digests
<1>8. TypeOK'
  BY <1>3, <1>5, <1>6, <1>7 DEF IInv, TypeOK, Others, jobs
<1> QED
  BY <1>4, <1>5, <1>8 DEF IInv

(* A release tag moves: nothing that was made changes. *)
LEMMA TagReleaseStep == ASSUME IInv, NEW v \in Versions, NEW c \in Revs, TagRelease(v, c) PROVE IInv'
<1>1. \A d \in made : Rev(d)' = Rev(d) /\ Ref(d)' = Ref(d)
  BY DEF TagRelease, Rev, Ref
<1>2. main \in Nat /\ main' \in Nat /\ main <= main'
  BY PublicationAssumption DEF TagRelease, IInv, TypeOK, Revs
<1>3. made \subseteq made' /\ accepted \subseteq accepted' /\ UNCHANGED Others
  BY DEF TagRelease
<1>4. BuildInv'
  BY PublicationAssumption DEF IInv, TypeOK, BuildInv, TagRelease, Builds, Revs, Digests
<1>5. /\ JobInv' /\ ReceiptInv' /\ PutInv' /\ DoneInv' /\ StrayInv'
      /\ (\A p \in Publishers : Active(p) =>
            cand[p] \in Digests /\ at[p] \in 1..Len(TagsOf(cand[p])))'
  BY <1>1, <1>2, <1>3, GitHubKeeps
<1>6. /\ main' \in Revs /\ release' \in [Versions -> Revs \cup {0}] /\ builds' \in [Runs -> Builds]
  BY PublicationAssumption DEF IInv, TypeOK, TagRelease, Builds, Revs, Refs
<1>7. /\ made' \subseteq Digests /\ accepted' \subseteq made'
  BY PublicationAssumption DEF IInv, TypeOK, TagRelease, Builds, Digests
<1>8. TypeOK'
  BY <1>3, <1>5, <1>6, <1>7 DEF IInv, TypeOK, Others, jobs
<1> QED
  BY <1>4, <1>5, <1>8 DEF IInv

(* Nothing was made by a build that starts. *)
LEMMA StartBuildStep == ASSUME IInv, NEW b \in Runs, StartBuild(b) PROVE IInv'
<1>0. PICK ref \in Refs, rev \in Revs :
        /\ rev <= main
        /\ builds' = [builds EXCEPT ![b] = [rev |-> rev, ref |-> ref, attempt |-> 1, status |-> "running"]]
  <2>1. PICK ref \in Refs :
          LET rev == IF ref = "main" THEN main ELSE release[ref] IN
          /\ rev # 0
          /\ builds' = [builds EXCEPT ![b] = [rev |-> rev, ref |-> ref, attempt |-> 1, status |-> "running"]]
    BY DEF StartBuild
  <2>2. main \in Revs /\ main <= main
    BY DEF IInv, TypeOK, Revs
  <2>3. ref # "main" => release[ref] \in Revs \cup {0} /\ release[ref] <= main
    BY DEF IInv, TypeOK, BuildInv, Refs
  <2> QED
    BY <2>1, <2>2, <2>3
<1> DEFINE new == [rev |-> rev, ref |-> ref, attempt |-> 1, status |-> "running"]
<1>1. \A d \in made : Rev(d)' = Rev(d) /\ Ref(d)' = Ref(d)
  <2> SUFFICES ASSUME NEW d \in made
               PROVE  Rev(d)' = Rev(d) /\ Ref(d)' = Ref(d)
    OBVIOUS
  <2>1. d[1] \in Runs /\ builds[d[1]].status # "none"
    BY DEF IInv, TypeOK, BuildInv, Digests
  <2> QED
    BY <2>1 DEF StartBuild, Rev, Ref, IInv, TypeOK, Builds
<1>2. main \in Nat /\ main' \in Nat /\ main <= main'
  BY PublicationAssumption DEF StartBuild, IInv, TypeOK, Revs
<1>3. made \subseteq made' /\ accepted \subseteq accepted' /\ UNCHANGED Others
  BY DEF StartBuild
<1>4. BuildInv'
  <2>1. b \notin {d[1] : d \in made}
    BY DEF IInv, BuildInv, StartBuild
  <2>2. \A c \in Runs : builds'[c] = IF c = b THEN new ELSE builds[c]
    BY <1>0 DEF IInv, TypeOK
  <2>3. UNCHANGED <<main, release, made>>
    BY DEF StartBuild
  <2>4. \A d \in made : d[1] \in Runs
    BY DEF IInv, TypeOK, Digests
  <2>5. new.rev = rev /\ new.attempt = 1
    OBVIOUS
  <2>6. \A d \in made : builds'[d[1]].status # "none"
    BY <2>1, <2>2, <2>4 DEF IInv, BuildInv
  <2> HIDE DEF new
  <2> QED
    BY <1>0, <2>2, <2>3, <2>5, <2>6 DEF IInv, BuildInv
<1>5. /\ JobInv' /\ ReceiptInv' /\ PutInv' /\ DoneInv' /\ StrayInv'
      /\ (\A p \in Publishers : Active(p) =>
            cand[p] \in Digests /\ at[p] \in 1..Len(TagsOf(cand[p])))'
  BY <1>1, <1>2, <1>3, GitHubKeeps
<1>6. /\ main' \in Revs /\ release' \in [Versions -> Revs \cup {0}] /\ builds' \in [Runs -> Builds]
  <2>1. new \in Builds
    BY PublicationAssumption DEF Builds
  <2>2. builds' = [builds EXCEPT ![b] = new]
    BY <1>0
  <2> HIDE DEF new
  <2> QED
    BY <2>1, <2>2 DEF IInv, TypeOK, StartBuild
<1>7. /\ made' \subseteq Digests /\ accepted' \subseteq made'
  BY PublicationAssumption DEF IInv, TypeOK, StartBuild, Builds, Digests
<1>8. TypeOK'
  BY <1>3, <1>5, <1>6, <1>7 DEF IInv, TypeOK, Others, jobs
<1> QED
  BY <1>4, <1>5, <1>8 DEF IInv

(* The commit stays. *)
LEMMA RerunStep == ASSUME IInv, NEW b \in Runs, Rerun(b) PROVE IInv'
<1>1. \A d \in made : Rev(d)' = Rev(d) /\ Ref(d)' = Ref(d)
  <2> SUFFICES ASSUME NEW d \in made
               PROVE  Rev(d)' = Rev(d) /\ Ref(d)' = Ref(d)
    OBVIOUS
  <2>1. d[1] \in Runs /\ builds[d[1]].status # "none"
    BY DEF IInv, TypeOK, BuildInv, Digests
  <2> QED
    BY <2>1 DEF Rerun, Rev, Ref, IInv, TypeOK, Builds
<1>2. main \in Nat /\ main' \in Nat /\ main <= main'
  BY PublicationAssumption DEF Rerun, IInv, TypeOK, Revs
<1>3. made \subseteq made' /\ accepted \subseteq accepted' /\ UNCHANGED Others
  BY DEF Rerun
<1>4. BuildInv'
  BY PublicationAssumption DEF IInv, TypeOK, BuildInv, Rerun, Builds, Revs, Digests
<1>5. /\ JobInv' /\ ReceiptInv' /\ PutInv' /\ DoneInv' /\ StrayInv'
      /\ (\A p \in Publishers : Active(p) =>
            cand[p] \in Digests /\ at[p] \in 1..Len(TagsOf(cand[p])))'
  BY <1>1, <1>2, <1>3, GitHubKeeps
<1>6. /\ main' \in Revs /\ release' \in [Versions -> Revs \cup {0}] /\ builds' \in [Runs -> Builds]
  <2> DEFINE new == [builds[b] EXCEPT !.attempt = @ + 1, !.status = "running"]
  <2>1. builds[b] \in Builds /\ builds[b].attempt \in 0..MaxAttempts /\ builds[b].attempt < MaxAttempts
    BY DEF IInv, TypeOK, Builds, Rerun
  <2>2. new \in Builds
    <3>1. builds[b].attempt + 1 \in 0..MaxAttempts
      BY PublicationAssumption, <2>1
    <3> QED
      BY <2>1, <3>1 DEF Builds
  <2>3. builds' = [builds EXCEPT ![b] = new]
    BY DEF Rerun
  <2> HIDE DEF new
  <2>4. builds' \in [Runs -> Builds]
    BY <2>2, <2>3 DEF IInv, TypeOK
  <2> QED
    BY <2>4 DEF IInv, TypeOK, Rerun
<1>7. /\ made' \subseteq Digests /\ accepted' \subseteq made'
  BY PublicationAssumption DEF IInv, TypeOK, Rerun, Builds, Digests
<1>8. TypeOK'
  BY <1>3, <1>5, <1>6, <1>7 DEF IInv, TypeOK, Others, jobs
<1> QED
  BY <1>4, <1>5, <1>8 DEF IInv

(* An attempt has a candidate, or not. *)
LEMMA EndBuildStep == ASSUME IInv, NEW b \in Runs, EndBuild(b) PROVE IInv'
<1>1. \A d \in made : Rev(d)' = Rev(d) /\ Ref(d)' = Ref(d)
  <2> SUFFICES ASSUME NEW d \in made
               PROVE  Rev(d)' = Rev(d) /\ Ref(d)' = Ref(d)
    OBVIOUS
  <2>1. d[1] \in Runs /\ builds[d[1]].status # "none"
    BY DEF IInv, TypeOK, BuildInv, Digests
  <2> QED
    BY <2>1 DEF EndBuild, Rev, Ref, IInv, TypeOK, Builds
<1>2. main \in Nat /\ main' \in Nat /\ main <= main'
  BY PublicationAssumption DEF EndBuild, IInv, TypeOK, Revs
<1>3. made \subseteq made' /\ accepted \subseteq accepted' /\ UNCHANGED Others
  BY DEF EndBuild
<1>4. BuildInv'
  BY PublicationAssumption DEF IInv, TypeOK, BuildInv, EndBuild, Builds, Revs, Digests
<1>5. /\ JobInv' /\ ReceiptInv' /\ PutInv' /\ DoneInv' /\ StrayInv'
      /\ (\A p \in Publishers : Active(p) =>
            cand[p] \in Digests /\ at[p] \in 1..Len(TagsOf(cand[p])))'
  BY <1>1, <1>2, <1>3, GitHubKeeps
<1>6. /\ main' \in Revs /\ release' \in [Versions -> Revs \cup {0}] /\ builds' \in [Runs -> Builds]
  <2>1. PICK result \in {"success", "failure"} : builds' = [builds EXCEPT ![b].status = result]
    BY DEF EndBuild
  <2>2. [builds[b] EXCEPT !.status = result] \in Builds
    <3>1. builds[b] \in Builds
      BY DEF IInv, TypeOK
    <3> QED
      BY <2>1, <3>1 DEF Builds
  <2> QED
    BY <2>1, <2>2 DEF IInv, TypeOK, EndBuild
<1>7. /\ made' \subseteq Digests /\ accepted' \subseteq made'
  <2>1. builds[b].attempt \in 1..MaxAttempts
    BY PublicationAssumption DEF IInv, TypeOK, BuildInv, Builds, EndBuild
  <2>2. <<b, builds[b].attempt>> \in Digests
    BY <2>1 DEF Digests
  <2>3. PICK result \in {"success", "failure"}, image \in BOOLEAN :
          /\ result = "success" => image
          /\ made' = IF image THEN made \cup {<<b, builds[b].attempt>>} ELSE made
          /\ accepted' = IF result = "success" THEN accepted \cup {<<b, builds[b].attempt>>} ELSE accepted
    BY DEF EndBuild
  <2> QED
    BY <2>2, <2>3 DEF IInv, TypeOK
<1>8. TypeOK'
  BY <1>3, <1>5, <1>6, <1>7 DEF IInv, TypeOK, Others, jobs
<1> QED
  BY <1>4, <1>5, <1>8 DEF IInv

(* An acceptance expires. *)
LEMMA ExpireStep == ASSUME IInv, NEW b \in Runs, Expire(b) PROVE IInv'
<1>1. \A d \in made : Rev(d)' = Rev(d) /\ Ref(d)' = Ref(d)
  <2> SUFFICES ASSUME NEW d \in made
               PROVE  Rev(d)' = Rev(d) /\ Ref(d)' = Ref(d)
    OBVIOUS
  <2>1. d[1] \in Runs /\ builds[d[1]].status # "none"
    BY DEF IInv, TypeOK, BuildInv, Digests
  <2> QED
    BY <2>1 DEF Expire, Rev, Ref, IInv, TypeOK, Builds
<1>2. main \in Nat /\ main' \in Nat /\ main <= main'
  BY PublicationAssumption DEF Expire, IInv, TypeOK, Revs
<1>3. made \subseteq made' /\ accepted \subseteq accepted' /\ UNCHANGED Others
  BY DEF Expire
<1>4. BuildInv'
  BY PublicationAssumption DEF IInv, TypeOK, BuildInv, Expire, Builds, Revs, Digests
<1>5. /\ JobInv' /\ ReceiptInv' /\ PutInv' /\ DoneInv' /\ StrayInv'
      /\ (\A p \in Publishers : Active(p) =>
            cand[p] \in Digests /\ at[p] \in 1..Len(TagsOf(cand[p])))'
  BY <1>1, <1>2, <1>3, GitHubKeeps
<1>6. /\ main' \in Revs /\ release' \in [Versions -> Revs \cup {0}] /\ builds' \in [Runs -> Builds]
  <2>1. [builds[b] EXCEPT !.status = "expired"] \in Builds
    <3>1. builds[b] \in Builds
      BY DEF IInv, TypeOK
    <3> QED
      BY <3>1 DEF Builds
  <2>2. builds' = [builds EXCEPT ![b] = [builds[b] EXCEPT !.status = "expired"]]
    BY DEF Expire
  <2> QED
    BY <2>1, <2>2 DEF IInv, TypeOK, Expire
<1>7. /\ made' \subseteq Digests /\ accepted' \subseteq made'
  BY PublicationAssumption DEF IInv, TypeOK, Expire, Builds, Digests
<1>8. TypeOK'
  BY <1>3, <1>5, <1>6, <1>7 DEF IInv, TypeOK, Others, jobs
<1> QED
  BY <1>4, <1>5, <1>8 DEF IInv

(* Nothing was made yet. *)
LEMMA InitInv == ASSUME Init PROVE IInv
<1>1. 1 \in Revs /\ NoBuild \in Builds
  BY PublicationAssumption DEF Revs, Refs, NoBuild, Builds
<1>2. TypeOK
  BY <1>1 DEF Init, TypeOK, Active
<1>3. BuildInv
  BY <1>1 DEF Init, BuildInv, NoBuild, Revs
<1>4. JobInv /\ ReceiptInv /\ PutInv /\ DoneInv /\ StrayInv
  BY DEF Init, JobInv, ReceiptInv, PublicTagsAccountedFor, PutInv, DoneInv, StrayInv, Active
<1> QED
  BY <1>2, <1>3, <1>4 DEF IInv

(* A step that changes nothing. *)
LEMMA StutterStep == ASSUME IInv, UNCHANGED vars PROVE IInv'
<1>1. UNCHANGED <<main, release, builds, made, accepted, registry, late, pc, cand, at, attempted, landed, strays>>
  BY DEF vars, github, jobs
<1>2. \A d : Rev(d)' = Rev(d) /\ TagsOf(d)' = TagsOf(d)
  BY <1>1, GitHubStays DEF github
<1>3. \A p : Active(p)' = Active(p) /\ Target(p)' = Target(p)
  BY <1>1, <1>2 DEF Active, Target
<1>4. TypeOK' /\ BuildInv' /\ JobInv'
  BY <1>1, <1>2, <1>3 DEF IInv, TypeOK, BuildInv, JobInv
<1>5. ReceiptInv' /\ PutInv' /\ DoneInv' /\ StrayInv'
  BY <1>1, <1>2, <1>3 DEF IInv, ReceiptInv, PublicTagsAccountedFor, PutInv, DoneInv, StrayInv
<1> QED
  BY <1>4, <1>5 DEF IInv

(* Every step keeps the invariant. *)
LEMMA StepKeepsInv == ASSUME IInv, [Next]_vars PROVE IInv'
<1>1. CASE GitHub
  BY <1>1, PushStep, TagReleaseStep, StartBuildStep, RerunStep, EndBuildStep, ExpireStep DEF
     GitHub
<1>2. ASSUME NEW p \in Publishers, Publisher(p) PROVE IInv'
  BY <1>2, BeginStep, CheckStep, PutStep, Next1Step, PublishedStep, StopsStep DEF Publisher
<1> QED
  BY <1>1, <1>2, LandStep, StutterStep DEF Next

(* IInv is an invariant.                                                     *)
THEOREM Invariance == Spec => []IInv
<1>1. Init => IInv
  BY InitInv
<1>2. IInv /\ [Next]_vars => IInv'
  BY StepKeepsInv
<1> QED
  BY <1>1, <1>2, PTL DEF Spec

-----------------------------------------------------------------------------
(* What follows from it. *)

(* Every variable has its type; in particular a running job has a candidate and *)
(* a place in the list of its tags.                                          *)
THEOREM TypeCorrect == Spec => []TypeOK
<1>1. IInv => TypeOK
  BY DEF IInv
<1> QED
  BY Invariance, <1>1, PTL

(* Every public tag names an accepted image, and a receipt has the write.    *)
THEOREM TagsAreAccountedFor == Spec => []PublicTagsAccountedFor
<1>1. IInv => PublicTagsAccountedFor
  BY DEF IInv, ReceiptInv
<1> QED
  BY Invariance, <1>1, PTL

(* One tag of a publication at most is written after main advanced.          *)
THEOREM OneStrayTag == Spec => []AtMostOneStrayTag
<1>1. IInv => AtMostOneStrayTag
  BY DEF IInv, StrayInv, AtMostOneStrayTag
<1> QED
  BY Invariance, <1>1, PTL

(* Only a write and a late write change a public tag.                        *)
LEMMA RegistryChanges ==
  ASSUME [Next]_vars, registry' # registry
  PROVE  Land \/ \E p \in Publishers : Put(p)
<1>1. ~UNCHANGED vars
  BY DEF vars
<1>2. ~GitHub
  BY DEF GitHub, Push, TagRelease, StartBuild, Rerun, EndBuild, Expire, Others
<1>3. ASSUME NEW p \in Publishers, Publisher(p) PROVE Put(p)
  BY <1>3 DEF Publisher, Check, Next1, Published, Over, Stops, Begin
<1> QED
  BY <1>1, <1>2, <1>3 DEF Next

(* A late write is recorded where it lands.                                  *)
LEMMA LateWrites ==
  ASSUME IInv, Land, NEW t \in Tags, registry'[t] # registry[t]
  PROVE  t \in landed'
BY DEF Land, IInv, TypeOK

(* The others do as the job had looked.                                      *)
LEMMA Writes ==
  ASSUME IInv, NEW p \in Publishers, Put(p), NEW t \in Tags
  PROVE  /\ registry'[t] # registry[t] => t = Target(p) /\ registry'[t] = cand[p]
         /\ pc[p] = "put" /\ Active(p) /\ landed' = landed /\ UNCHANGED github
BY DEF Put, IInv, TypeOK, Active

(* A stable version keeps its image for good, but for writes applied late.   *)
THEOREM VersionsAreImmutable == Spec => StableVersionsImmutable
<1>1. ASSUME IInv, [Next]_vars, NEW v \in Versions, registry[v] # None, registry'[v] # registry[v]
      PROVE  v \in landed'
  <2>1. v \in Tags
    BY DEF Tags
  <2>2. CASE Land
    BY <1>1, <2>1, <2>2, LateWrites
  <2>3. ASSUME NEW p \in Publishers, Put(p)
        PROVE  v \in landed'
    BY <1>1, <2>1, <2>3, Writes DEF IInv, PutInv
  <2> QED
    BY <1>1, <2>2, <2>3, RegistryChanges
<1>2. IInv /\ [Next]_vars =>
        [\A v \in Versions : registry[v] # None /\ registry'[v] # registry[v] => v \in landed']_vars
  BY <1>1
<1> QED
  BY Invariance, <1>2, PTL DEF Spec, StableVersionsImmutable

(* main and latest never return to an older commit, but by a late write.     *)
THEOREM LatestFollowsMain == Spec => LatestNeverGoesBack
<1>1. ASSUME IInv, [Next]_vars, NEW t \in {"main", "latest"}, registry[t] # None, t \notin landed'
      PROVE  Rev(registry'[t]) >= Rev(registry[t])
  <2>1. t \in Tags
    BY DEF Tags
  <2>2. registry[t] \in made /\ Rev(registry[t]) \in Nat
    BY <1>1, <2>1, NamedAreMade DEF Revs
  <2>3. CASE registry'[t] = registry[t]
    BY <2>2, <2>3
  <2>4. CASE registry'[t] # registry[t]
    <3>1. PICK p \in Publishers : Put(p)
      BY <1>1, <2>1, <2>4, RegistryChanges, LateWrites
    <3>2. pc[p] = "put" /\ registry'[t] = cand[p] /\ t \notin landed
      BY <1>1, <2>1, <2>4, <3>1, Writes
    <3>3. Rev(registry[t]) <= Rev(cand[p])
      BY <1>1, <2>1, <3>2 DEF IInv, PutInv
    <3>4. Rev(cand[p]) \in Nat
      BY <1>1, <3>2, JobFacts DEF Active
    <3> QED
      BY <2>2, <3>2, <3>3, <3>4
  <2> QED
    BY <2>3, <2>4
<1>2. IInv /\ [Next]_vars =>
        [\A t \in {"main", "latest"} :
           registry[t] # None /\ t \notin landed' => Rev(registry'[t]) >= Rev(registry[t])]_vars
  BY <1>1
<1> QED
  BY Invariance, <1>2, PTL DEF Spec, LatestNeverGoesBack

(* When `published' is recorded all tags of the release name the one image.   *)
THEOREM PublishedIsTrue == Spec => PublishedTagsAgree
<1>1. ASSUME IInv, [Next]_vars, NEW p \in Publishers, Verified(p) /\ Last(p) /\ pc'[p] = "over",
             NEW i \in 1..Len(TagsOf(cand[p]))
      PROVE  TagsOf(cand[p])[i] \in landed \/ registry[TagsOf(cand[p])[i]] = cand[p]
  <2>1. Active(p) /\ pc[p] = "verify" /\ at[p] = Len(TagsOf(cand[p]))
    BY <1>1 DEF Verified, Last, Active
  <2>2. i < at[p] \/ i = at[p]
    BY <1>1, <2>1, JobFacts
  <2> QED
    BY <1>1, <2>1, <2>2 DEF IInv, DoneInv
<1>2. IInv /\ [Next]_vars =>
        [\A p \in Publishers : Verified(p) /\ Last(p) /\ pc'[p] = "over" =>
           \A i \in 1..Len(TagsOf(cand[p])) :
              TagsOf(cand[p])[i] \in landed \/ registry[TagsOf(cand[p])[i]] = cand[p]]_vars
  BY <1>1
<1> QED
  BY Invariance, <1>2, PTL DEF Spec, PublishedTagsAgree
=============================================================================
