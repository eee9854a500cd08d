\* Two captures of up to three bytes; two narrations and a prefetch of three phrases
\* with a cache for two.  No symmetry: there are liveness properties.
CONSTANTS
  MaxCaptures = 2
  MaxAudioBytes = 3
  MaxChunk = 2
  MaxEntries = 1
  Keys = {k1, k2, k3}
  MaxPlays = 2
  MaxPrepares = 1
  MaxGestures = 2
  CacheLimit = 2
  None = None
  Undefined = Undefined
SPECIFICATION PortsSpec
INVARIANTS
  CaptureContained
  PlaybackContained
PROPERTIES
  MicrophoneReleased
  PlaySettles
\* The player need not act again.
CHECK_DEADLOCK FALSE
