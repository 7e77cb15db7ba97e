CONSTANT MaxWindows = 2
SPECIFICATION Spec
INVARIANT RendersWhenForeground
