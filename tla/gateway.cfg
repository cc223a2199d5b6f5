\* Two connections, two messages of one chat and one of another.
SPECIFICATION FairSpec
CONSTANTS
  h1 = h1
  h2 = h2
  h3 = h3
  m1 = m1
  m2 = m2
  m3 = m3
  c1 = c1
  c2 = c2
  Handlers <- TwoHandlers
  Messages <- ThreeMessages
  Chats <- TwoChats
  ChatOf <- MCChatOf
  LeaseTime = 2
INVARIANTS TypeOK LeaseTracksHolder SentIsRecorded
PROPERTIES DeliveryKept SettledForGood ChatsReopen
