SPECIFICATION Spec
CONSTANT None = None
INVARIANT IssuesInheritFiles
CHECK_DEADLOCK FALSE
