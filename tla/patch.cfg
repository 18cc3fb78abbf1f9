\* Two versions, 28 layouts, four events of any kind.
SPECIFICATION Spec
CONSTANTS
  Layouts <- MCLayouts
  Fresh <- MCFresh
  Expected = "0.16.0"
  MaxEvents = 4
  Models = {"a/m", "a/n"}
  Missing = Missing
INVARIANTS TypeOK Converged PickerOffersWhatPiKnows
PROPERTIES NeverBreaksTheModule NeighboursSurvive
