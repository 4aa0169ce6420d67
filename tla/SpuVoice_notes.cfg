SPECIFICATION FairSpec
CONSTANTS
  RamBlocks = 5
  BlockLen = 3
  MaxAdv = 2
  MaxVol = 4
  AdsrHi <- Attacks
  AdsrLo <- Releases
  Uploaded <- Samples
  Uploads <- UploadFlags
  Starts <- SampleStarts
  None = None
  MaxNotes = 2
  MaxUploads = 1
INVARIANTS OwnBlocks VoiceOK
PROPERTIES PhaseForward EnvelopeAdvances
