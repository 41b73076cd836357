SPECIFICATION LoopSpec
PROPERTIES CatchesUp CallsEnd LockComesFree Heals NoPoolStarves OrderSettles
