SPECIFICATION MCSpec
INVARIANT WordsExact
INVARIANT StacksRearranged
INVARIANT NumbersReadBack
INVARIANT StreamsKept
