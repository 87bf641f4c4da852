SPECIFICATION CameraFairSpec
CONSTANTS
  v1 = v1
  v2 = v2
  Viewers = {v1, v2}
  NBuf = 3
  Descriptors = {1, 2, 3}
INVARIANTS CameraTypeOK FrameIsStill BuffersCirculate CameraReleased
PROPERTIES ExitNeedsOverlap SessionsEnd
