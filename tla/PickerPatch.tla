---------------------------- MODULE PickerPatch ----------------------------
(***************************************************************************)
(* omnigent-model-options-patch.py: at every start of the container the    *)
(* two functions behind the Pi model picker are replaced in the installed  *)
(* omnigent, which lives on the volume.  Meanwhile `uv' installs other     *)
(* versions over it, somebody edits the file, the disk fills up and the    *)
(* container is killed.  A file is the sequence of its lines; a line says  *)
(* whose it is (`of'), whether it opens the function, and whose text.      *)
(***************************************************************************)
EXTENDS Integers, Sequences, FiniteSets

CONSTANTS
  Layouts,     \* what a hand edit may leave
  Fresh,       \* version -> the module as omnigent ships it
  Expected,    \* the version the patch was validated against
  MaxEvents,   \* bound: upgrades, edits, failures
  Models,      \* model ids
  Missing      \* no such file

Targets == {"own", "ambient"}   \* pi_own_login_model_options (ANCHOR), _ambient_pi_model_options
Versions == DOMAIN Fresh

Blank == [of |-> "none", head |-> FALSE, text |-> "none"]
Def(name, n, text) == [i \in 1..n |-> [of |-> name, head |-> i = 1, text |-> text]]
CANONICAL == Def("own", 2, "canon") \o <<Blank, Blank>> \o Def("ambient", 2, "canon")

Line == [of : {"none", "own", "ambient", "near", "far"}, head : BOOLEAN,
         text : {"none", "upstream", "edited", "canon"}]
Files == Seq(Line)

ASSUME PatchAssumption ==
  /\ Expected \in Versions /\ MaxEvents \in Nat
  /\ Missing \notin Files /\ Layouts \subseteq Files
  /\ \A v \in Versions : Fresh[v] \in Files

VARIABLES
  module, version,   \* credentials.py and the dist-info of the venv
  orig, tmp,         \* credentials.py.orig, credentials.py.patch-tmp
  pc,                \* the patch: idle, read, keep, copy, write, check, replace
  original,          \* the text it has read
  events,
  \* History: the module or the version changed since the version was looked at;
  \* the last run came to its end and nothing changed since it began.
  touched, settled

vars == <<module, version, orig, tmp, pc, original, events, touched, settled>>

Init ==
  /\ version \in Versions /\ module = Fresh[version]
  /\ orig = Missing /\ tmp = Missing /\ pc = "idle" /\ original = <<>>
  /\ events = 0 /\ touched = FALSE /\ settled = FALSE
-----------------------------------------------------------------------------
(* Python: a function's body follows its `def' line; trailing blanks are none *)
(* of its lines; of two definitions of a name the last one counts.            *)

Heads(file) == {i \in DOMAIN file : file[i].head}
IsBody(line) == line # Blank /\ ~line.head
Parses(file) ==
  \A i \in DOMAIN file :
    /\ file[i].head => i < Len(file) /\ IsBody(file[i + 1])
    /\ IsBody(file[i]) => \E h \in Heads(file) : h < i

LastOf(S) == CHOOSE x \in S : \A y \in S : y <= x
HeadsOf(file, name) == {i \in Heads(file) : file[i].of = name}
Found(file) == {name \in Targets : HeadsOf(file, name) # {}}
Start(file, name) == LastOf(HeadsOf(file, name))
EndLines(file, s) ==
  {j \in s..Len(file) : file[j] # Blank /\ \A i \in (s + 1)..j : ~file[i].head}
SpanEnd(file, name) == LastOf(EndLines(file, Start(file, name)))
-----------------------------------------------------------------------------
(* splice. *)

Cut(file, from, to) == SubSeq(file, 1, from - 1) \o SubSeq(file, to + 1, Len(file))

\* The blank lines before line s go with it.
EatenFrom(file, s) ==
  LastOf({k \in 1..s : k = 1 \/ file[k - 1] # Blank})

WithoutExtra(file) ==
  IF "ambient" \notin Found(file) THEN file
  ELSE LET s == Start(file, "ambient")
       IN  Cut(file, EatenFrom(file, s), SpanEnd(file, "ambient"))

\* The first n lines, or all there are.
FirstLines(file, n) == SubSeq(file, 1, IF n < Len(file) THEN n ELSE Len(file))

\* Mutant: the span of the function ends one line later.
PutWide(file, s, e) == FirstLines(file, s - 1) \o CANONICAL \o SubSeq(file, e + 2, Len(file))
PutCanonical(file, s, e) == FirstLines(file, s - 1) \o CANONICAL \o SubSeq(file, e + 1, Len(file))

\* The indices of `own' are those it had before the other function was cut out.
Splice(file) ==
  PutCanonical(WithoutExtra(file), Start(file, "own"), SpanEnd(file, "own"))
-----------------------------------------------------------------------------
(* main. *)

Happens == events < MaxEvents /\ events' = events + 1
NoEvent == UNCHANGED <<events, touched, version>>

\* The run is over, whatever came of it.
GiveUp == pc' = "idle" /\ original' = <<>>

\* Mutant: a file that has both functions is taken for patched.
HasBoth(file) == Found(file) = Targets
AlreadyCanonical(file) == Splice(file) = file

Validated == version = Expected

\* installed_version.
Gate ==
  /\ pc = "idle" /\ touched' = FALSE
  /\ IF Validated THEN pc' = "read" /\ settled' = FALSE ELSE pc' = "idle" /\ settled' = TRUE
  /\ UNCHANGED <<module, version, orig, tmp, original, events>>

\* The module is read, if it is there; one that does not parse, without the
\* function or canonical is left alone.
Patchable(file) == file # Missing /\ Parses(file) /\ "own" \in Found(file)
Read ==
  /\ pc = "read" /\ NoEvent
  /\ IF Patchable(module) /\ ~AlreadyCanonical(module)
     THEN pc' = "keep" /\ original' = module /\ UNCHANGED settled
     ELSE GiveUp /\ settled' = ~touched
  /\ UNCHANGED <<module, orig, tmp>>

\* Mutant: only a file that was never patched by anybody is kept.
NoOrigUnpatched == orig = Missing /\ "ambient" \notin Found(original)
NoOrig == orig = Missing

\* shutil.copy2: the file is there before its content is.
KeepOrig ==
  /\ pc = "keep" /\ NoEvent
  /\ IF NoOrig THEN pc' = "copy" /\ orig' = <<>> ELSE pc' = "write" /\ UNCHANGED orig
  /\ UNCHANGED <<module, tmp, original, settled>>
CopyOrig ==
  /\ pc = "copy" /\ pc' = "write" /\ orig' = module /\ NoEvent
  /\ UNCHANGED <<module, tmp, original, settled>>

WriteTmp ==
  /\ pc = "write" /\ pc' = "check" /\ tmp' = Splice(original) /\ NoEvent
  /\ UNCHANGED <<module, orig, original, settled>>

\* Mutant: whatever was written is installed.
Unchecked(file) == TRUE
Valid(file) == Parses(file) /\ Found(file) = Targets
CheckTmp ==
  /\ pc = "check" /\ NoEvent
  /\ IF Valid(tmp) THEN pc' = "replace" /\ UNCHANGED <<tmp, original, settled>>
                   ELSE GiveUp /\ tmp' = Missing /\ settled' = ~touched
  /\ UNCHANGED <<module, orig>>

\* os.replace; the cached bytecode is dropped.
Replace ==
  /\ pc = "replace" /\ GiveUp /\ module' = tmp /\ tmp' = Missing
  /\ settled' = ~touched /\ NoEvent
  /\ UNCHANGED orig

\* Killed or an OSError: what is on the disk stays, a copy or a write half done too.
Dies ==
  /\ pc # "idle" /\ Happens /\ GiveUp /\ settled' = FALSE
  /\ tmp' \in {tmp} \cup IF pc = "write" THEN {<<>>} ELSE {}
  /\ UNCHANGED <<module, version, orig, touched>>

Patch == Gate \/ Read \/ KeepOrig \/ CopyOrig \/ WriteTmp \/ CheckTmp \/ Replace
-----------------------------------------------------------------------------
(* The others. *)

Disturbs == Happens /\ touched' = TRUE /\ settled' = FALSE /\ UNCHANGED <<tmp, pc, original>>

\* uv installs a version; files it does not know may stay.
Upgrade ==
  /\ Disturbs /\ version' \in Versions /\ module' = Fresh[version']
  /\ orig' \in {orig, Missing}

\* The file is edited or lost.
HandEdit ==
  /\ Disturbs /\ module' \in Layouts \cup {Missing}
  /\ UNCHANGED <<version, orig>>

Next == Patch \/ Dies \/ Upgrade \/ HandEdit

Spec == Init /\ [][Next]_vars
-----------------------------------------------------------------------------
(* The functions the patch installs.  What `pi --list-models' answers: the     *)
(* lines it prints, or a failure (missing, a timeout of 12 s, an exit code).   *)

Header == "header"
Noise == {"blank", "separator"}
Notice == "notice"     \* "No models available. ...": two words that read like a row
Qualified(line) == IF line = Notice THEN "No/models" ELSE line
IsRow(line) == line \notin Noise

\* Mutant: every row counts.
FromTheStart(lines) == 1..Len(lines)
\* Lines after the header.
InTable(lines) == {i \in 1..Len(lines) : \E h \in 1..(i - 1) : lines[h] = Header}

\* _ambient_pi_model_options
Ambient(cli) ==
  IF cli.failed THEN {}
  ELSE {Qualified(cli.lines[i]) : i \in {j \in InTable(cli.lines) : IsRow(cli.lines[j])}}

\* pi_own_login_model_options: `store' maps providers to their models, and those
\* with an entry in auth.json count.
FromStore(store, logged_in) == UNION {store[p] : p \in logged_in \cap DOMAIN store}
Options(store, logged_in, cli) ==
  LET own == FromStore(store, logged_in) IN IF own = {} THEN Ambient(cli) ELSE own

\* A model's line is none of the others.
ASSUME ModelsAssumption == Models \cap ({Header, Notice} \cup Noise) = {}

\* What Pi may answer: a failure, the notice, a table with or without separator.
Tables(ms) == {<<Header>> \o ms, <<"blank", Header, "separator">> \o ms \o <<"blank">>}
Answers ==
  {[failed |-> f, lines |-> l, models |-> {}] :
     f \in BOOLEAN, l \in {<<>>, <<Notice>>, <<"blank", Notice>>, <<Header>>}}
  \cup UNION {{[failed |-> FALSE, lines |-> t, models |-> {m, n}] : t \in Tables(<<m, n>>)} : m, n \in Models}
-----------------------------------------------------------------------------
(* Properties. *)

TypeOK ==
  /\ module \in Files \/ module = Missing
  /\ orig \in Files \/ orig = Missing
  /\ tmp \in Files \/ tmp = Missing
  /\ version \in Versions /\ events \in 0..MaxEvents
  /\ pc \in {"idle", "read", "keep", "copy", "write", "check", "replace"}
  /\ original \in Files
  /\ pc \in {"keep", "copy", "write", "check", "replace"} => Patchable(original)
  /\ pc \in {"write", "check", "replace"} => touched \/ orig # Missing
  /\ touched \in BOOLEAN /\ settled \in BOOLEAN

Installs == pc = "replace" /\ pc' = "idle" /\ events' = events

\* The functions of file other than the two, in their order.
IsNeighbour(line) == line.of \in {"near", "far"}
Collect(lines, line) == IF IsNeighbour(line) THEN Append(lines, line) ELSE lines
Neighbours(file) ==
  LET upTo[n \in 0..Len(file)] == IF n = 0 THEN <<>> ELSE Collect(upTo[n - 1], file[n])
  IN  upTo[Len(file)]
InOrder(file) == Found(file) = Targets => Start(file, "own") < Start(file, "ambient")
Once(file) == \A h, k \in HeadsOf(file, "ambient") : h = k
\* Every body is that of its own function: no remains of one that was cut.
Whole(file) ==
  \A i \in DOMAIN file : IsBody(file[i]) =>
    file[LastOf({h \in Heads(file) : h < i})].of = file[i].of

\* "the result must parse and must still define both functions, or the original
\* is put back": whatever edition it finds and wherever it was killed before.
NeverBreaksTheModule == [][Installs => Parses(module') /\ Found(module') = Targets]_vars

\* "Neighbours survive; only the target is spliced", if the function that is cut
\* out comes after the other, nothing was cut short before and nobody changed the
\* file meanwhile.
NeighboursSurvive ==
  [][Installs /\ ~touched /\ InOrder(module) /\ Whole(module) =>
       Neighbours(module') = Neighbours(module)]_vars

\* The same without the condition on the order.
NeighboursAlwaysSurvive ==
  [][Installs /\ ~touched => Neighbours(module') = Neighbours(module)]_vars

\* "divergent hand-edits converge": after a run nobody disturbed both functions
\* are the canonical ones, whatever earlier runs left behind, if the second one
\* comes last and once: of two copies a run removes the last one only.
Canonical(file) == \A name \in Targets : name \in Found(file) /\ file[Start(file, name)].text = "canon"
Converged ==
  pc = "idle" /\ settled /\ version = Expected /\ module # Missing =>
    (Patchable(module) /\ InOrder(module) /\ Once(module) => Canonical(module))

\* Whatever the hands and the versions did to the file before, once the
\* canonical functions are in it the dialog offers models Pi can start only, the
\* notice of an empty Pi is not read as one, and Pi's own models are not missed.
PickerOffersWhatPiKnows ==
  pc = "idle" /\ settled /\ module # Missing /\ Canonical(module) =>
    \A cli \in Answers, logged_in \in SUBSET {"a", "b"} :
      LET store == [p \in {"a"} |-> Models]
          offered == Options(store, logged_in, cli)
      IN  /\ offered \subseteq cli.models \cup FromStore(store, logged_in)
          /\ cli.models # {} => offered # {}
=============================================================================
