CONSTANTS
  m1 = m1
  m2 = m2
  a1 = a1
  n = n
  c1 = c1
  c2 = c2
  Media <- TwoMedia
  Art <- OneArt
  ArtOf <- ArtOfFirst
  Names <- OneName
  NameOf <- SameName
  Contents <- TwoContents
  Server = "server"
  Clis <- OneCli
  AtStart <- FirstFiles
  ScanLimit = 3
  LibraryLimit = 2
  MaxEvents = 2
SPECIFICATION FairSpec
INVARIANTS
  TypeOK
  NothingLost
  ArtworkFollows
  ImportedIsListed
PROPERTIES
  EventuallyImported
