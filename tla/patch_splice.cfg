\* One hand edit.
SPECIFICATION Spec
CONSTANTS
  Layouts <- MCLayouts
  Fresh <- MCFresh
  Expected = "0.16.0"
  MaxEvents = 1
  Models = {"a/m", "a/n"}
  Missing = Missing
PROPERTIES NeighboursAlwaysSurvive
