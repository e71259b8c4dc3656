CONSTANT None = None
SPECIFICATION Spec
INVARIANT SentIsHanded
