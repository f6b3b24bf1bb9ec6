SPECIFICATION MCSpec
CHECK_DEADLOCK FALSE
INVARIANT NamesComeBack
INVARIANT DataAtLabel
INVARIANT LabelsResolve
INVARIANT LinesFound
