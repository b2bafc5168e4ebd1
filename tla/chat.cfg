SPECIFICATION ChatSpec
CONSTANTS
  ann = ann
  ben = ben
  chat1 = chat1
  tab1 = tab1
  tab2 = tab2
  s1 = s1
  s2 = s2
  s3 = s3
  r1 = r1
  r2 = r2
  Authors = {ann}
  Posters = {r1, r2}
  OldPosts = 1
  JoinedAt = 1
  PageSize = 1
  MaxClock = 4
  Marked = {1}
  People = {ann, ben}
  Slots = {r1, r2}
  Founders <- McFounders
  Markers = {ben}
  Erasable = {1}
  OldSaid = 2
  MaxRows = 3
  MaxSaid = 3
  MaxNow = 4
  Owners = {ann, ben}
  ChatSocks = {chat1}
  PresenceSocks = {tab1, tab2}
  OwnerOf <- McOwnerOf
  Chosen = {"offline"}
  Casts = {1, 2}
  Users = {ann, ben}
  Sids = {s1, s2, s3}
  UserOf <- McUserOf
  Roamers = {s3}
  Teams = {"red"}
  Groups = {"hall"}
  Directs = {"talk"}
VIEW ChatView
SYMMETRY McSymmetry
INVARIANTS ChatTypeOK ThreadCountLosesOverlaps PagesShowAll LastWordUnlessOvertaken SocketsTracked
PROPERTIES ReadStateExplained OfflineOnlyWithoutConnection
CHECK_DEADLOCK FALSE
