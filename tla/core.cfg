SPECIFICATION CoreSpec
CONSTANTS
  w1 = w1
  w2 = w2
  s1 = s1
  k1 = k1
  k2 = k2
  Worker <- Workers
  Program = {"window", "server"}
  ProgramOf <- Owner
  Mail = {"a", "b"}
  Enveloped = {"b"}
  Place = {"inbox", "archiv"}
  Home <- AtHome
  Size <- Sizes
  CacheMax = 1
  CacheKeys <- Keyring
  NoKey = "plain"
  MaxFetch = 3
  MaxFault = 1
  Incoming = {x1, x2}
  File = {f1}
  First = d1
  Kept = {f1}
  NoMessage = nothing
  Patient = TRUE
  MaxTyped = 2
  MaxCalls = 5
  Letter = {"a", "b"}
  ToWrite = {"d"}
  Spelling <- Spellings
  Clean <- Cleaned
  Foreign = {"other"}
  MaxAsked = 3
  Machine = {m1, m2}
  CompactAfter = 2
  MaxOps = 3
  MaxSteps = 5
  Mid = {"a", "b"}
  Tag = {"x", "y"}
  Colors = 3
  Ops <- Issued
  Key = {1, 2, 3}
  Names <- FolderNames
  Book <- Senders
  Within <- Contained
  Letters <- Post
  RuleLists <- Lists
  Files <- Imports
  MinEvidence = 2
  Nearly <- TwoThirds
  MaxTags = 1
  ToSave <- Searches
  Lower <- Small
  Cut <- Short
  MaxFilters = 1
  Offers = 1
  MaxOffers = 2
  Patience = 2
INVARIANTS
  CoreTypeOK
  DecisionsStand
  
  OpsConverge
  OpenShowsTheMessage
  CacheBounded
  WrittenIsKept
  SentAsWritten
  NothingLostToAssistant
SYMMETRY Symmetry
CHECK_DEADLOCK FALSE
