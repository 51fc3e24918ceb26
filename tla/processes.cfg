SPECIFICATION Spec
INVARIANTS ChildrenAreAccountedFor     ComponentsAreSound
PROPERTY CommandReturns
