------------------------ MODULE MetadataSync_proofs ------------------------
(***************************************************************************)
(* Proofs about MetadataSync for any catalogs, sessions and gateways.      *)
(***************************************************************************)
EXTENDS MetadataSync, NaturalOrder

(***************************************************************************)
(* The index.                                                              *)
(***************************************************************************)

EntryOrNone == Entries \cup {NoModel}
Indexes == [exact : [Ids -> EntryOrNone], aliases : [Aliases -> EntryOrNone],
            ambiguous : SUBSET Aliases]

(* A model id is a brand and an alias.                                      *)
LEMMA IdType == ASSUME NEW id \in Ids PROVE Alias(id) \in Aliases
BY DEF Ids, Alias

(* A model of the catalog has an id and a limit, and is not the lack of one. *)
LEMMA EntryType ==
  ASSUME NEW m \in Entries
  PROVE  m.id \in Ids /\ m.limit \in Limits /\ Alias(m.id) \in Aliases /\ m # NoModel
BY SyncAssumption, IdType DEF Entries

(* The index of no models is one.                                          *)
LEMMA NoIndexType == NoIndex \in Indexes
BY DEF NoIndex, Indexes, EntryOrNone

(* What one model of the list does to the index: to the entry of its alias,  *)
(* which is taken, renewed or dropped, and to the rest.                      *)
AliasEffect(acc, m, new) ==
  LET a == Alias(m.id) IN
  \/ a \in acc.ambiguous /\ a \in new.ambiguous /\ new.aliases[a] = acc.aliases[a]
  \/ /\ a \notin acc.ambiguous /\ (acc.aliases[a] = NoModel \/ acc.aliases[a].id = m.id)
     /\ a \notin new.ambiguous /\ new.aliases[a] = m
  \/ /\ a \notin acc.ambiguous /\ acc.aliases[a] # NoModel /\ acc.aliases[a].id # m.id
     /\ a \in new.ambiguous /\ new.aliases[a] = NoModel

LEMMA IndexEffect ==
  ASSUME NEW acc \in Indexes, NEW m \in Entries
  PROVE  /\ Index(acc, m) \in Indexes
         /\ \A i \in Ids : Index(acc, m).exact[i] = IF i = m.id THEN m ELSE acc.exact[i]
         /\ \A a \in Aliases \ {Alias(m.id)} :
              /\ Index(acc, m).aliases[a] = acc.aliases[a]
              /\ a \in Index(acc, m).ambiguous <=> a \in acc.ambiguous
         /\ AliasEffect(acc, m, Index(acc, m))
<1> DEFINE a == Alias(m.id)
           seen == [acc EXCEPT !.exact[m.id] = m]
           N == Index(acc, m)
<1>1. /\ a \in Aliases /\ m.id \in Ids /\ m # NoModel /\ m \in EntryOrNone
      /\ NoModel \in EntryOrNone
  BY EntryType DEF EntryOrNone
<1>2. /\ acc = [exact |-> acc.exact, aliases |-> acc.aliases, ambiguous |-> acc.ambiguous]
      /\ acc.exact \in [Ids -> EntryOrNone] /\ acc.aliases \in [Aliases -> EntryOrNone]
      /\ acc.ambiguous \in SUBSET Aliases
  BY DEF Indexes
<1> DEFINE exact == [acc.exact EXCEPT ![m.id] = m]
<1>3. exact \in [Ids -> EntryOrNone] /\ \A i \in Ids : exact[i] = IF i = m.id THEN m ELSE acc.exact[i]
  BY <1>1, <1>2
<1>4. seen = [exact |-> exact, aliases |-> acc.aliases, ambiguous |-> acc.ambiguous]
  BY <1>2
<1> HIDE DEF exact, seen
<1>5. CASE a \in acc.ambiguous
  <2>1. N = seen
    BY <1>5 DEF Index, seen
  <2>2. N \in Indexes
    BY <2>1, <1>2, <1>3, <1>4 DEF Indexes
  <2>5. AliasEffect(acc, m, N)
    BY <1>2, <1>3, <1>4, <1>5, <2>1, <2>2 DEF AliasEffect
  <2>6. /\ \A i \in Ids : N.exact[i] = IF i = m.id THEN m ELSE acc.exact[i]
        /\ \A b \in Aliases \ {a} :
             N.aliases[b] = acc.aliases[b] /\ (b \in N.ambiguous <=> b \in acc.ambiguous)
    BY <1>2, <1>3, <1>4, <1>5, <2>1, <2>2
  <2> QED
    BY <2>2, <2>5, <2>6
<1>6. CASE a \notin acc.ambiguous /\ (acc.aliases[a] = NoModel \/ acc.aliases[a].id = m.id)
  <2>1. N = [seen EXCEPT !.aliases[a] = m]
    BY <1>6 DEF Index, seen
  <2> DEFINE aliases == [acc.aliases EXCEPT ![a] = m]
  <2>2. /\ aliases \in [Aliases -> EntryOrNone] /\ aliases[a] = m
        /\ \A b \in Aliases : b # a => aliases[b] = acc.aliases[b]
    BY <1>1, <1>2
  <2>3. N = [exact |-> exact, aliases |-> aliases, ambiguous |-> acc.ambiguous]
    BY <2>1, <1>4
  <2> HIDE DEF aliases
  <2>4. N \in Indexes
    BY <2>2, <2>3, <1>2, <1>3 DEF Indexes
  <2>5. AliasEffect(acc, m, N)
    BY <1>2, <1>3, <1>6, <2>2, <2>3, <2>4 DEF AliasEffect
  <2>6. /\ \A i \in Ids : N.exact[i] = IF i = m.id THEN m ELSE acc.exact[i]
        /\ \A b \in Aliases \ {a} :
             N.aliases[b] = acc.aliases[b] /\ (b \in N.ambiguous <=> b \in acc.ambiguous)
    BY <1>2, <1>3, <1>6, <2>2, <2>3, <2>4
  <2> QED
    BY <2>4, <2>5, <2>6
<1>7. CASE a \notin acc.ambiguous /\ acc.aliases[a] # NoModel /\ acc.aliases[a].id # m.id
  <2>1. N = [seen EXCEPT !.aliases[a] = NoModel, !.ambiguous = @ \cup {a}]
    BY <1>7 DEF Index, seen
  <2> DEFINE aliases == [acc.aliases EXCEPT ![a] = NoModel]
  <2>2. /\ aliases \in [Aliases -> EntryOrNone] /\ aliases[a] = NoModel
        /\ \A b \in Aliases : b # a => aliases[b] = acc.aliases[b]
    BY <1>1, <1>2
  <2>3. N = [exact |-> exact, aliases |-> aliases, ambiguous |-> acc.ambiguous \cup {a}]
    BY <2>1, <1>4
  <2> HIDE DEF aliases
  <2>4. N \in Indexes
    BY <2>2, <2>3, <1>1, <1>2, <1>3 DEF Indexes
  <2>5. AliasEffect(acc, m, N)
    BY <1>2, <1>3, <1>7, <2>2, <2>3, <2>4 DEF AliasEffect
  <2>6. /\ \A i \in Ids : N.exact[i] = IF i = m.id THEN m ELSE acc.exact[i]
        /\ \A b \in Aliases \ {a} :
             N.aliases[b] = acc.aliases[b] /\ (b \in N.ambiguous <=> b \in acc.ambiguous)
    BY <1>2, <1>3, <1>7, <2>2, <2>3, <2>4
  <2> QED
    BY <2>4, <2>5, <2>6
<1> QED
  BY <1>5, <1>6, <1>7

(* The steps of the loop over the models, as a function of the count.      *)
Loop(models, upTo) ==
  /\ upTo \in [0..Len(models) -> Indexes] /\ upTo[0] = NoIndex
  /\ \A n \in 1..Len(models) : upTo[n] = Index(upTo[n - 1], models[n])

(* The loop defines its result: there is one function with these steps.    *)
LEMMA SourceLoop ==
  ASSUME NEW models \in Seq(Entries)
  PROVE  \E upTo : Loop(models, upTo) /\ SourceMetadata(models) = upTo[Len(models)]
<1> DEFINE len == Len(models)
           step == [n \in 1..len |-> [acc \in Indexes |-> Index(acc, models[n])]]
           f[n \in 0..len] == IF n = 0 THEN NoIndex ELSE Index(f[n - 1], models[n])
<1>1. len \in Nat /\ \A n \in 1..len : models[n] \in Entries
  OBVIOUS
<1>2. len = Len(models)
  OBVIOUS
<1>3. SourceMetadata(models) = f[len]
  BY DEF SourceMetadata
<1>4. step \in [1..len -> [Indexes -> Indexes]]
  BY <1>1, IndexEffect
<1>5. \A n \in 1..len, acc \in Indexes : step[n][acc] = Index(acc, models[n])
  OBVIOUS
<1> HIDE DEF len, step
<1>6. PICK g : Unfolds(g, len, Indexes, NoIndex, step)
  <2> HIDE DEF f
  <2> QED
    BY <1>1, <1>4, NoIndexType, Recursion
<1>7. /\ g \in [0..len -> Indexes] /\ g[0] = NoIndex
      /\ \A n \in 1..len : g[n] = step[n][g[n - 1]]
  BY <1>6 DEF Unfolds
<1>8. ASSUME NEW n \in 1..len PROVE g[n] = Index(g[n - 1], models[n])
  <2>1. n - 1 \in 0..len /\ g[n - 1] \in Indexes
    BY <1>1, <1>7
  <2> QED
    BY <1>5, <1>7, <2>1
<1>9. g = [n \in 0..len |-> IF n = 0 THEN NoIndex ELSE Index(g[n - 1], models[n])]
  BY <1>1, <1>7, <1>8
<1>10. f = [n \in 0..len |-> IF n = 0 THEN NoIndex ELSE Index(f[n - 1], models[n])]
  BY <1>9
<1> HIDE DEF f
<1>11. f[0] = NoIndex /\ \A n \in 1..len : f[n] = Index(f[n - 1], models[n])
  BY <1>1, <1>10
<1>12. \A n \in 0..len : f[n] \in Indexes
  <2> DEFINE S == {n \in 0..len : f[n] \in Indexes}
  <2>1. 0 \in S
    BY <1>1, <1>11, NoIndexType
  <2>2. \A n \in 1..len : n - 1 \in S => n \in S
    BY <1>1, <1>11, IndexEffect
  <2> HIDE DEF S
  <2>3. \A n \in 0..len : n \in S
    BY <1>1, <2>1, <2>2, UpTo
  <2> QED
    BY <2>3 DEF S
<1>13. f \in [0..len -> Indexes]
  BY <1>10, <1>12
<1> QED
  BY <1>2, <1>3, <1>11, <1>13 DEF Loop

(* What the index says of the first n models, stated without the loop: the   *)
(* last model of an id, and the last one of an alias that has only one id.   *)
Same(models, n, id) == {k \in 1..n : models[k].id = id}
Alike(models, n, a) == {k \in 1..n : Alias(models[k].id) = a}
OneId(models, S) == \A j, k \in S : models[j].id = models[k].id
IsLast(models, S, m) == \E k \in S : m = models[k] /\ \A j \in S : j <= k

ExactRight(models, n, index) ==
  \A id \in Ids :
    /\ Same(models, n, id) = {} => index.exact[id] = NoModel
    /\ Same(models, n, id) # {} => IsLast(models, Same(models, n, id), index.exact[id])
AliasRight(models, S, index, a) ==
  /\ S = {} => index.aliases[a] = NoModel /\ a \notin index.ambiguous
  /\ S # {} /\ OneId(models, S) => IsLast(models, S, index.aliases[a]) /\ a \notin index.ambiguous
  /\ ~OneId(models, S) => index.aliases[a] = NoModel /\ a \in index.ambiguous
AliasesRight(models, n, index) ==
  \A a \in Aliases : AliasRight(models, Alike(models, n, a), index, a)

(* One model more, and the exact ids are still right.                      *)
LEMMA ExactStep ==
  ASSUME NEW models \in Seq(Entries), NEW n \in 1..Len(models), NEW index \in Indexes,
         ExactRight(models, n - 1, index)
  PROVE  ExactRight(models, n, Index(index, models[n]))
<1> DEFINE m == models[n]
           N == Index(index, m)
<1>1. m \in Entries /\ n \in Nat
  OBVIOUS
<1>2. SUFFICES ASSUME NEW id \in Ids
               PROVE  /\ Same(models, n, id) = {} => N.exact[id] = NoModel
                      /\ Same(models, n, id) # {} => IsLast(models, Same(models, n, id), N.exact[id])
  BY DEF ExactRight
<1>3. N.exact[id] = IF id = m.id THEN m ELSE index.exact[id]
  BY <1>1, IndexEffect
<1>4. CASE id = m.id
  <2>1. n \in Same(models, n, id) /\ \A j \in Same(models, n, id) : j <= n
    BY <1>1, <1>4 DEF Same
  <2> QED
    BY <1>3, <1>4, <2>1 DEF IsLast
<1>5. CASE id # m.id
  <2>1. Same(models, n, id) = Same(models, n - 1, id)
    BY <1>1, <1>5 DEF Same
  <2> QED
    BY <1>3, <1>5, <2>1 DEF ExactRight
<1> QED
  BY <1>4, <1>5

(* One model more, and the aliases are still right: one whose models had two *)
(* ids before has them still, one gets its second id now, or renews its only *)
(* one.                                                                      *)
LEMMA AliasStep ==
  ASSUME NEW models \in Seq(Entries), NEW n \in 1..Len(models), NEW index \in Indexes,
         AliasesRight(models, n - 1, index)
  PROVE  AliasesRight(models, n, Index(index, models[n]))
<1> DEFINE m == models[n]
           N == Index(index, m)
           a == Alias(m.id)
           Old == Alike(models, n - 1, a)
           New == Alike(models, n, a)
<1>1. m \in Entries /\ n \in Nat /\ a \in Aliases /\ m # NoModel
  BY EntryType
<1>2. \A k \in 1..n : models[k] \in Entries /\ models[k] # NoModel
  BY EntryType
<1>3. ASSUME NEW b \in Aliases, b # a PROVE AliasRight(models, Alike(models, n, b), N, b)
  <2>1. Alike(models, n, b) = Alike(models, n - 1, b)
    BY <1>1, <1>3 DEF Alike
  <2>2. b \in Aliases \ {Alias(m.id)}
    BY <1>3
  <2>3. N.aliases[b] = index.aliases[b] /\ (b \in N.ambiguous <=> b \in index.ambiguous)
    BY <1>1, <2>2, IndexEffect
  <2> HIDE DEF N
  <2> QED
    BY <2>1, <2>3 DEF AliasesRight, AliasRight
<1>4. New = Old \cup {n} /\ n \in New /\ n \notin Old /\ \A k \in New : k \in Nat /\ k <= n
  BY <1>1 DEF Alike
<1>5. AliasRight(models, Old, index, a)
  BY <1>1 DEF AliasesRight
<1>6. New = Alike(models, n, a)
  OBVIOUS
<1>7. \A k \in Old : k \in 1..n
  BY <1>1 DEF Alike
<1>8. AliasEffect(index, m, N)
  BY <1>1, IndexEffect
<1> HIDE DEF N, New, Old
<1>9. ASSUME ~OneId(models, Old) PROVE AliasRight(models, New, N, a)
  <2>1. index.aliases[a] = NoModel /\ a \in index.ambiguous
    BY <1>5, <1>9 DEF AliasRight
  <2>2. N.aliases[a] = NoModel /\ a \in N.ambiguous
    BY <1>1, <2>1, <1>8 DEF AliasEffect
  <2>3. ~OneId(models, New)
    BY <1>4, <1>9 DEF OneId
  <2> QED
    BY <2>2, <2>3, <1>4 DEF AliasRight
<1>10. ASSUME Old = {} PROVE AliasRight(models, New, N, a)
  <2>1. index.aliases[a] = NoModel /\ a \notin index.ambiguous
    BY <1>5, <1>10 DEF AliasRight
  <2>2. N.aliases[a] = m /\ a \notin N.ambiguous
    BY <1>1, <2>1, <1>8 DEF AliasEffect
  <2>3. OneId(models, New) /\ IsLast(models, New, m)
    BY <1>4, <1>10 DEF OneId, IsLast
  <2> QED
    BY <1>4, <2>2, <2>3 DEF AliasRight
<1>11. ASSUME Old # {} /\ OneId(models, Old) PROVE AliasRight(models, New, N, a)
  <2>1. IsLast(models, Old, index.aliases[a]) /\ a \notin index.ambiguous
    BY <1>5, <1>11 DEF AliasRight
  <2>2. PICK k \in Old : index.aliases[a] = models[k]
    BY <2>1 DEF IsLast
  <2>3. k \in 1..n
    BY <1>7
  <2>4. index.aliases[a] # NoModel /\ index.aliases[a].id = models[k].id
    BY <1>2, <2>2, <2>3
  <2>5. CASE models[k].id = m.id
    <3>1. N.aliases[a] = m /\ a \notin N.ambiguous
      BY <1>1, <2>1, <2>2, <2>5, <1>8 DEF AliasEffect
    <3>2. OneId(models, New) /\ IsLast(models, New, m)
      BY <1>4, <1>11, <2>5 DEF OneId, IsLast
    <3> QED
      BY <1>4, <3>1, <3>2 DEF AliasRight
  <2>6. CASE models[k].id # m.id
    <3>1. N.aliases[a] = NoModel /\ a \in N.ambiguous
      BY <1>1, <2>1, <2>2, <2>4, <2>6, <1>8 DEF AliasEffect
    <3>2. ~OneId(models, New)
      BY <1>4, <2>6 DEF OneId
    <3> QED
      BY <1>4, <3>1, <3>2 DEF AliasRight
  <2> QED
    BY <2>5, <2>6
<1>12. AliasRight(models, New, N, a)
  BY <1>9, <1>10, <1>11
<1> QED
  BY <1>3, <1>12, <1>6 DEF AliasesRight, N

(* The index of a list is right, by induction over its length.             *)
LEMMA IndexRight ==
  ASSUME NEW models \in Seq(Entries)
  PROVE  LET index == SourceMetadata(models) IN
         /\ index \in Indexes
         /\ ExactRight(models, Len(models), index) /\ AliasesRight(models, Len(models), index)
<1> DEFINE len == Len(models)
<1>1. len \in Nat /\ \A n \in 1..len : models[n] \in Entries
  OBVIOUS
<1>2. PICK upTo : Loop(models, upTo) /\ SourceMetadata(models) = upTo[len]
  BY SourceLoop
<1>3. /\ upTo \in [0..len -> Indexes] /\ upTo[0] = NoIndex
      /\ \A n \in 1..len : upTo[n] = Index(upTo[n - 1], models[n])
  BY <1>2 DEF Loop
<1> DEFINE Right(n) == ExactRight(models, n, upTo[n]) /\ AliasesRight(models, n, upTo[n])
           S == {n \in 0..len : Right(n)}
<1>4. Right(0)
  <2>1. ExactRight(models, 0, NoIndex)
    BY DEF ExactRight, Same, NoIndex
  <2>2. AliasesRight(models, 0, NoIndex)
    BY DEF AliasesRight, AliasRight, Alike, OneId, NoIndex
  <2> QED
    BY <1>3, <2>1, <2>2
<1>5. ASSUME NEW n \in 1..len, Right(n - 1) PROVE Right(n)
  <2>1. n - 1 \in 0..len /\ upTo[n - 1] \in Indexes
    BY <1>1, <1>3
  <2> QED
    BY <1>3, <1>5, <2>1, ExactStep, AliasStep
<1> HIDE DEF Right, len
<1>6. 0 \in S
  BY <1>1, <1>4
<1>7. \A n \in 1..len : n - 1 \in S => n \in S
  BY <1>1, <1>5
<1> HIDE DEF S
<1>8. \A n \in 0..len : n \in S
  BY <1>1, <1>6, <1>7, UpTo
<1>9. Right(len) /\ upTo[len] \in Indexes
  BY <1>1, <1>3, <1>8 DEF S
<1> QED
  BY <1>2, <1>9 DEF Right, len

(* The last of a set of models is the one the catalog's reference picks.   *)
LEMMA LastChosen ==
  ASSUME NEW models, NEW S, \A k \in S : k \in Nat, NEW m, IsLast(models, S, m)
  PROVE  models[CHOOSE i \in S : \A j \in S : j <= i] = m
<1>1. PICK k \in S : m = models[k] /\ \A j \in S : j <= k
  BY DEF IsLast
<1>2. \A i \in S : (\A j \in S : j <= i) => i = k
  BY <1>1
<1> QED
  BY <1>1, <1>2

(* The metadata the index gives an id is what the catalog says of it.      *)
LEMMA MetadataRight ==
  ASSUME NEW models \in Seq(Entries), NEW id \in Ids
  PROVE  LET found == Metadata(SourceMetadata(models), id) IN
         \/ found = NoModel /\ Entry(models, id) = NoLimit
         \/ found \in Entries /\ found # NoModel /\ Entry(models, id) = found.limit
<1> DEFINE index == SourceMetadata(models)
           found == Metadata(index, id)
           a == Alias(id)
           same == Same(models, Len(models), id)
           alike == Alike(models, Len(models), a)
<1>1. a \in Aliases /\ Len(models) \in Nat
  BY IdType
<1>2. /\ same \subseteq DOMAIN models /\ alike \subseteq DOMAIN models
      /\ \A k \in same \cup alike : k \in Nat /\ models[k] \in Entries /\ models[k] # NoModel
  <2>1. \A k \in DOMAIN models : k \in Nat /\ models[k] \in Entries /\ models[k] # NoModel
    BY EntryType
  <2>2. same \subseteq DOMAIN models /\ alike \subseteq DOMAIN models
    BY DEF Same, Alike
  <2> QED
    BY <2>1, <2>2
<1>3. /\ same = {i \in DOMAIN models : models[i].id = id}
      /\ alike = {i \in DOMAIN models : Alias(models[i].id) = Alias(id)}
  BY DEF Same, Alike
<1>4. /\ same = {} => index.exact[id] = NoModel
      /\ same # {} => IsLast(models, same, index.exact[id])
  BY IndexRight DEF ExactRight
<1>5. AliasRight(models, alike, index, a)
  BY <1>1, IndexRight DEF AliasesRight
<1> DEFINE last(S) == models[CHOOSE i \in S : \A j \in S : j <= i]
<1>6. Entry(models, id) =
        CASE same # {} -> last(same).limit
          [] same = {} /\ alike # {} /\ (\A i, j \in alike : models[i].id = models[j].id) -> last(alike).limit
          [] OTHER -> NoLimit
  BY <1>3 DEF Entry
<1>7. found = IF index.exact[id] # NoModel THEN index.exact[id] ELSE index.aliases[a]
  BY DEF Metadata
<1>8. \A S, m : (\A k \in S : k \in Nat) /\ IsLast(models, S, m) => last(S) = m
  BY LastChosen
<1>9. \A S, m : S \subseteq same \cup alike /\ IsLast(models, S, m) => m \in Entries /\ m # NoModel
  BY <1>2 DEF IsLast
<1> HIDE DEF index, found, same, alike, last, a
<1>10. ASSUME same # {}
       PROVE  found \in Entries /\ found # NoModel /\ Entry(models, id) = found.limit
  BY <1>2, <1>4, <1>6, <1>7, <1>8, <1>9, <1>10
<1>11. ASSUME same = {}, alike # {}, OneId(models, alike)
       PROVE  found \in Entries /\ found # NoModel /\ Entry(models, id) = found.limit
  <2>1. IsLast(models, alike, index.aliases[a])
    BY <1>5, <1>11 DEF AliasRight
  <2>2. found = index.aliases[a]
    BY <1>4, <1>7, <1>11
  <2>3. Entry(models, id) = last(alike).limit
    BY <1>6, <1>11 DEF OneId
  <2> QED
    BY <1>2, <1>8, <1>9, <2>1, <2>2, <2>3
<1>12. ASSUME same = {}, alike = {} \/ ~OneId(models, alike)
       PROVE  found = NoModel /\ Entry(models, id) = NoLimit
  <2>1. found = NoModel
    BY <1>4, <1>5, <1>7, <1>12 DEF AliasRight
  <2>2. Entry(models, id) = NoLimit
    BY <1>6, <1>12 DEF OneId
  <2> QED
    BY <2>1, <2>2
<1> QED
  BY <1>10, <1>11, <1>12 DEF found, index

(***************************************************************************)
(* One run of the hook.                                                    *)
(***************************************************************************)

\* Everything the catalog knows of the entries it enriches is in the lists.
Knows(cat, lists) ==
  \A p \in Providers, i \in Ids :
    Enriches(p, cat.url) /\ lists[p][i] # NoModel =>
      Entry(cat.models, i) \in {NoLimit, lists[p][i]}

(* What has been read is what the files held when they were read: in an      *)
(* undisturbed run they still do, and a target nobody replaced is the one    *)
(* the draft was made from.                                                  *)
SyncInv ==
  /\ TypeOK
  /\ pc \in {"target", "write"} => catalog \in Catalogs
  /\ pc = "write" /\ ~stale => target # Unreadable /\ draft = Synchronized(catalog, target)
  /\ calm /\ pc \in {"target", "write"} => catalog = source
  /\ calm /\ pc = "write" => ~stale
  /\ calm /\ pc \in {"exec", "up"} /\ source # Unreadable /\ target # Unreadable =>
       Knows(source, target)

(* The models of a catalog are a sequence of entries.                      *)
LEMMA CatalogType ==
  ASSUME NEW cat \in Catalogs
  PROVE  cat.url \in Urls /\ cat.models \in Seq(Entries)
<1>1. cat.url \in Urls /\ cat.models \in UNION {[1..n -> Entries] : n \in 0..MaxModels}
  BY DEF Catalogs
<1>2. PICK n \in 0..MaxModels : cat.models \in [1..n -> Entries]
  BY <1>1
<1>3. n \in Nat
  BY SyncAssumption
<1> QED
  BY <1>1, <1>2, <1>3

(* An entry of the target is enriched with what the catalog says of it, and  *)
(* left alone where that is nothing or where there is no entry.              *)
LEMMA EnrichedRight ==
  ASSUME NEW models \in Seq(Entries), NEW id \in Ids, NEW limit \in Limits \cup {NoLimit, NoModel}
  PROVE  LET new == Enriched(SourceMetadata(models), id, limit) IN
         /\ new \in Limits \cup {NoLimit, NoModel}
         /\ new = NoModel <=> limit = NoModel
         /\ new # limit => limit # NoModel /\ new = Entry(models, id)
         /\ limit # NoModel => Entry(models, id) \in {NoLimit, new}
<1> DEFINE found == Metadata(SourceMetadata(models), id)
<1>1. \/ found = NoModel /\ Entry(models, id) = NoLimit
      \/ found \in Entries /\ found # NoModel /\ Entry(models, id) = found.limit
  BY MetadataRight
<1>2. Enriched(SourceMetadata(models), id, limit) =
        IF limit = NoModel \/ found = NoModel THEN limit ELSE found.limit
  BY DEF Enriched
<1>3. found \in Entries => found.limit \in Limits
  BY DEF Entries
<1>4. NoModel \notin Limits /\ NoModel # NoLimit
  BY SyncAssumption
<1> HIDE DEF found
<1> QED
  BY <1>1, <1>2, <1>3, <1>4

(* What the hook makes of a target.                                        *)
LEMMA SynchronizedRight ==
  ASSUME NEW cat \in Catalogs, NEW old \in [Providers -> Lists]
  PROVE  LET new == Synchronized(cat, old) IN
         /\ new \in [Providers -> Lists] /\ Knows(cat, new)
         /\ \A p \in Providers, i \in Ids : new[p][i] # old[p][i] =>
              /\ old[p][i] # NoModel /\ new[p][i] = Entry(cat.models, i)
              /\ p \in Ours /\ Gateway[p] = cat.url
<1> DEFINE new == Synchronized(cat, old)
           index == SourceMetadata(cat.models)
           enriched(p) == [i \in Ids |-> Enriched(index, i, old[p][i])]
<1>1. cat.models \in Seq(Entries)
  BY CatalogType
<1>2. new = [p \in Providers |-> IF Enriches(p, cat.url) THEN enriched(p) ELSE old[p]]
  BY DEF Synchronized
<1>3. \A p \in Providers : old[p] \in Lists /\ \A i \in Ids : old[p][i] \in Limits \cup {NoLimit, NoModel}
  BY DEF Lists
<1>4. ASSUME NEW p \in Providers, NEW i \in Ids
      PROVE  /\ enriched(p)[i] \in Limits \cup {NoLimit, NoModel}
             /\ enriched(p)[i] = NoModel <=> old[p][i] = NoModel
             /\ enriched(p)[i] # old[p][i] => old[p][i] # NoModel /\ enriched(p)[i] = Entry(cat.models, i)
             /\ old[p][i] # NoModel => Entry(cat.models, i) \in {NoLimit, enriched(p)[i]}
  BY <1>1, <1>3, EnrichedRight
<1>5. \A p \in Providers : enriched(p) \in Lists
  BY <1>4 DEF Lists
<1> HIDE DEF enriched, new
<1>6. new \in [Providers -> Lists]
  BY <1>2, <1>3, <1>5
<1>7. Knows(cat, new)
  BY <1>2, <1>4 DEF Knows
<1>8. ASSUME NEW p \in Providers, NEW i \in Ids, new[p][i] # old[p][i]
      PROVE  /\ old[p][i] # NoModel /\ new[p][i] = Entry(cat.models, i)
             /\ p \in Ours /\ Gateway[p] = cat.url
  BY <1>2, <1>4, <1>8 DEF Enriches
<1> QED
  BY <1>6, <1>7, <1>8 DEF new

(* A catalog without models knows nothing.                                 *)
LEMMA NothingKnown == ASSUME NEW cat, cat.models = <<>>, NEW lists PROVE Knows(cat, lists)
BY DEF Knows, Entry

(* Before the first start nothing was read.                                *)
LEMMA InitSync == Init => SyncInv
<1> SUFFICES ASSUME Init PROVE SyncInv
  OBVIOUS
<1>1. 0 \in 0..MaxEvents
  BY SyncAssumption
<1>2. TypeOK
  BY <1>1 DEF Init, TypeOK
<1> QED
  BY <1>2 DEF Init, SyncInv

(* The parts of the type invariant, as the steps use them.                 *)
LEMMA Parts == ASSUME SyncInv
  PROVE /\ source \in {Unreadable} \cup Catalogs /\ catalog \in {Unreadable} \cup Catalogs
        /\ target \in {Unreadable} \cup [Providers -> Lists]
        /\ draft \in {Unreadable} \cup [Providers -> Lists]
        /\ pc = "write" => draft # Unreadable
        /\ pc # "write" => draft = Unreadable
        /\ pc \in {"idle", "source", "target", "write", "exec", "up"}
        /\ events \in Nat /\ events \in 0..MaxEvents /\ stale \in BOOLEAN /\ calm \in BOOLEAN
BY SyncAssumption DEF SyncInv, TypeOK

(* What omnigent writes is a list of entries per provider.                 *)
LEMMA GeneratedType == ASSUME NEW ids PROVE Generated(ids) \in [Providers -> Lists]
BY DEF Generated, Lists

(* A hook that is over keeps what holds between two runs; what it leaves     *)
(* behind is known if nobody disturbed it.                                   *)
LEMMA HookEndsSync ==
  ASSUME SyncInv, HookEnds, events' \in 0..MaxEvents, source' = source,
         target' \in {Unreadable} \cup [Providers -> Lists], calm' \in BOOLEAN, stale' \in BOOLEAN,
         calm' /\ source # Unreadable /\ target' # Unreadable => Knows(source, target')
  PROVE  SyncInv'
<1>1. TypeOK'
  <2>1. pc' = "exec" /\ catalog' = Unreadable /\ draft' = Unreadable
    BY DEF HookEnds, AfterHook
  <2> QED
    BY <2>1, Parts DEF TypeOK
<1> QED
  BY <1>1 DEF SyncInv, HookEnds, AfterHook, Knows

(* The canonical catalog is read, or the hook is over.                     *)
LEMMA ReadSourceSync == ASSUME SyncInv, ReadSource PROVE SyncInv'
<1>1. CASE source = Unreadable
  <2>1. HookEnds
    BY <1>1 DEF ReadSource
  <2> QED
    BY <1>1, <2>1, HookEndsSync, Parts DEF ReadSource
<1>2. CASE source # Unreadable
  <2>1. /\ pc = "source" /\ catalog' = source /\ pc' = "target" /\ draft' = draft
        /\ UNCHANGED <<source, target, events, stale, calm>>
    BY <1>2 DEF ReadSource
  <2>2. TypeOK'
    BY <2>1, Parts DEF TypeOK
  <2>3. catalog' \in Catalogs
    BY <1>2, <2>1, Parts
  <2> QED
    BY <2>1, <2>2, <2>3 DEF SyncInv
<1> QED
  BY <1>1, <1>2

(* The target is read and merged: the draft is what the catalog makes of it, *)
(* and a hook that ends here leaves a target which knows it all already.     *)
LEMMA ReadTargetSync == ASSUME SyncInv, ReadTarget PROVE SyncInv'
<1> DEFINE new == Synchronized(catalog, target)
<1>1. /\ pc = "target" /\ stale' = FALSE /\ catalog \in Catalogs /\ (calm => catalog = source)
      /\ UNCHANGED <<source, target, events, calm>>
  BY DEF ReadTarget, SyncInv
<1>2. CASE target = Unreadable
  <2>1. HookEnds
    BY <1>2 DEF ReadTarget
  <2> QED
    BY <1>1, <1>2, <2>1, HookEndsSync, Parts
<1>3. CASE target # Unreadable /\ catalog.models = <<>>
  <2>1. HookEnds
    BY <1>3 DEF ReadTarget
  <2> QED
    BY <1>1, <1>3, <2>1, HookEndsSync, NothingKnown, Parts
<1>4. CASE target # Unreadable /\ catalog.models # <<>>
  <2>1. new \in [Providers -> Lists] /\ Knows(catalog, new)
    BY <1>1, <1>4, SynchronizedRight, Parts
  <2>2. CASE new = target
    <3>1. HookEnds
      BY <1>4, <2>2 DEF ReadTarget
    <3> QED
      BY <1>1, <2>1, <2>2, <3>1, HookEndsSync, Parts
  <2>3. CASE new # target
    <3>1. draft' = new /\ pc' = "write" /\ catalog' = catalog
      BY <1>4, <2>3 DEF ReadTarget
    <3> HIDE DEF new
    <3>2. draft' # Unreadable
      BY <2>1, <3>1, SyncAssumption
    <3>3. TypeOK'
      BY <1>1, <2>1, <3>1, <3>2, Parts DEF TypeOK
    <3>4. new = Synchronized(catalog', target')
      BY <1>1, <3>1 DEF new
    <3> QED
      BY <1>1, <1>4, <3>1, <3>3, <3>4 DEF SyncInv
  <2> QED
    BY <2>2, <2>3
<1> QED
  BY <1>2, <1>3, <1>4

(* The draft replaces the target: it knows what the catalog knows.         *)
LEMMA WriteSync == ASSUME SyncInv, Write PROVE SyncInv'
<1>1. /\ pc = "write" /\ target' = draft /\ HookEnds /\ UNCHANGED <<source, events, stale, calm>>
  BY DEF Write
<1>2. catalog \in Catalogs /\ draft \in [Providers -> Lists]
  BY <1>1, Parts DEF SyncInv
<1>3. ASSUME calm PROVE Knows(source, target')
  <2>1. catalog = source /\ target # Unreadable /\ draft = Synchronized(catalog, target)
    BY <1>1, <1>3 DEF SyncInv
  <2> QED
    BY <1>1, <1>2, <2>1, SynchronizedRight, Parts
<1> QED
  BY <1>1, <1>2, <1>3, HookEndsSync, Parts

(* Every step keeps it: whoever replaces a file ends the undisturbed run.  *)
LEMMA StepKeepsSync == ASSUME SyncInv, [Next]_vars PROVE SyncInv'
<1>1. CASE Start
  <2>1. TypeOK'
    BY <1>1, Parts DEF Start, TypeOK
  <2>2. target = Unreadable \/ pc' = "source"
    BY <1>1 DEF Start
  <2> QED
    BY <1>1, <2>1, <2>2 DEF Start, SyncInv
<1>2. CASE Hook
  <2>1. CASE Exec
    <3>1. TypeOK'
      BY <2>1, Parts DEF Exec, TypeOK
    <3> QED
      BY <2>1, <3>1 DEF Exec, SyncInv, Knows
  <2> QED
    BY <1>2, <2>1, ReadSourceSync, ReadTargetSync, WriteSync DEF Hook
<1>3. CASE HookDies
  <2>1. events' \in 0..MaxEvents
    BY <1>3, Parts, SyncAssumption DEF HookDies, Happens
  <2> QED
    BY <1>3, <2>1, HookEndsSync, Parts DEF HookDies
<1>4. CASE PiEnds
  <2>1. TypeOK'
    BY <1>4, Parts DEF PiEnds, TypeOK
  <2> QED
    BY <1>4, <2>1 DEF PiEnds, SyncInv
<1>5. CASE PiWebWrites
  <2>1. events' \in 0..MaxEvents
    BY <1>5, Parts, SyncAssumption DEF PiWebWrites, Happens
  <2>2. TypeOK'
    BY <1>5, <2>1, Parts DEF PiWebWrites, TypeOK
  <2> QED
    BY <1>5, <2>2 DEF PiWebWrites, SyncInv
<1>6. CASE OmnigentWrites
  <2>1. events' \in 0..MaxEvents
    BY <1>6, Parts, SyncAssumption DEF OmnigentWrites, Happens
  <2>2. target' \in {Unreadable} \cup [Providers -> Lists]
    BY <1>6, GeneratedType DEF OmnigentWrites
  <2>3. TypeOK'
    BY <1>6, <2>1, <2>2, Parts DEF OmnigentWrites, TypeOK
  <2> QED
    BY <1>6, <2>3 DEF OmnigentWrites, SyncInv
<1>7. CASE UNCHANGED vars
  <2>1. TypeOK'
    BY <1>7, Parts DEF vars, TypeOK
  <2>2. draft = Synchronized(catalog, target) => draft' = Synchronized(catalog', target')
    BY <1>7 DEF vars
  <2>3. Knows(source, target) => Knows(source', target')
    BY <1>7 DEF vars
  <2> QED
    BY <1>7, <2>1, <2>2, <2>3 DEF vars, SyncInv
<1> QED
  BY <1>1, <1>2, <1>3, <1>4, <1>5, <1>6, <1>7 DEF Next

(* What the hook has read and what it is about to write agree, whoever       *)
(* replaces the two files meanwhile.                                         *)
THEOREM SyncInvariant == Spec => []SyncInv
<1>1. SyncInv /\ [Next]_vars => SyncInv'
  BY StepKeepsSync
<1> QED
  BY InitSync, <1>1, PTL DEF Spec

(* Every file of the two is a catalog or unreadable, and a draft exists just *)
(* while the hook is about to write it.                                      *)
THEOREM TypeCorrect == Spec => []TypeOK
<1>1. SyncInv => TypeOK
  BY DEF SyncInv
<1> QED
  BY <1>1, SyncInvariant, PTL

(* pi starts with every limit the canonical catalog knows for its models,    *)
(* however earlier starts left the file, if both files stand still from the  *)
(* hook to the start.                                                        *)
THEOREM AlwaysEnriched == Spec => []StartsEnriched
<1>1. SyncInv => StartsEnriched
  BY DEF SyncInv, Knows, StartsEnriched
<1> QED
  BY <1>1, SyncInvariant, PTL

(* "only unambiguous branded aliases": a write changes nothing but limits of *)
(* the gateway's entries, and to what the catalog states for that id or for  *)
(* the only model of that name.                                              *)
THEOREM OnlyOwnLimits == Spec => NeverAnothersLimit
<1>1. SyncInv /\ [Next]_vars =>
        [Writes /\ ~stale => \A p \in Providers, i \in Ids :
           target'[p][i] # target[p][i] =>
             /\ target[p][i] # NoModel /\ target'[p][i] = Entry(catalog.models, i)
             /\ p \in Ours /\ Gateway[p] = catalog.url]_vars
  <2> SUFFICES ASSUME SyncInv, [Next]_vars, Writes, ~stale,
                      NEW p \in Providers, NEW i \in Ids, target'[p][i] # target[p][i]
               PROVE  /\ target[p][i] # NoModel /\ target'[p][i] = Entry(catalog.models, i)
                      /\ p \in Ours /\ Gateway[p] = catalog.url
    OBVIOUS
  <2>1. Write
    <3>1. events' = events /\ events \in Nat
      BY Parts DEF Writes
    <3>2. ~HookDies /\ ~PiWebWrites /\ ~OmnigentWrites
      BY <3>1 DEF HookDies, PiWebWrites, OmnigentWrites, Happens
    <3> QED
      BY <3>2 DEF Writes, Next, Hook, Start, ReadSource, ReadTarget, Exec, PiEnds, vars
  <2>2. catalog \in Catalogs /\ target \in [Providers -> Lists] /\ target' = Synchronized(catalog, target)
    BY <2>1, Parts DEF Write, SyncInv
  <2> QED
    BY <2>2, SynchronizedRight
<1> QED
  BY <1>1, SyncInvariant, PTL DEF Spec, NeverAnothersLimit
=============================================================================
