SPECIFICATION MusicFairSpec
CONSTANTS
  c1 = c1
  c2 = c2
  song = song
  notes = notes
  none = none
  half = half
  garbage = garbage
  Garbage = garbage
  Clients = {c1, c2}
  Asks <- MCAsks
  Title = {song, notes}
  Mp3 = {song}
  NoTitle = none
  Half = half
  HeapNodes = 2
INVARIANTS MusicTypeOK ListSound ListMatchesDisk CurrentIsPlaying
PROPERTIES ListingsAreExact IsLibrary LockComesFree
