--------------------------- MODULE MCPickerPatch ---------------------------
(* PickerPatch for TLC: the layouts a hand edit leaves. *)
EXTENDS PickerPatch, SequencesExt

Gap == <<Blank, Blank>>
Joined(defs) == FoldLeft(LAMBDA file, d : file \o Gap \o d, Head(defs), Tail(defs))
Own(text) == Def("own", 2, text)
Near == Def("near", 2, "upstream")
Far == Def("far", 2, "upstream")
Extras == {Def("ambient", n, "edited") : n \in 1..3}

Shipped == Joined(<<Far, Own("upstream"), Near>>)
MCFresh == [v \in {"0.16.0", "0.17.0"} |->
              IF v = "0.16.0" THEN Shipped ELSE Joined(<<Own("upstream"), Far>>)]
MCLayouts ==
  {Joined(<<Far, Own("edited"), Near>>), Joined(<<Far, Near>>), <<Blank>> \o Tail(Near), <<>>}
  \cup UNION {{Joined(<<Own("edited"), e, Near, Far>>), Joined(<<Own("canon"), Near, e, Far>>),
               Joined(<<e, Own("edited"), Near, Far>>), Joined(<<Far, e, Own("canon"), Near>>),
               Joined(<<Own("upstream"), e, Near, Own("edited"), Far>>),
               Joined(<<Near, e, Far>>), Joined(<<Own("edited"), e, Near, Def("ambient", 2, "edited"), Far>>),
               Joined(<<e, Own("edited")>>)} : e \in Extras}
=============================================================================
