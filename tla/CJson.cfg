CONSTANTS
  Size = 4
  Names = {"a"}
  Nesting = 2
SPECIFICATION Spec
INVARIANT NothingLeaks
INVARIANT ListsLinked
PROPERTY ForestSpec
CONSTRAINT FewItems
CONSTRAINT FewStrings
CONSTRAINT FewRoots
CONSTRAINT FewLost
