\* Four messages at two times, in pages of two.
SPECIFICATION Spec
CONSTANTS
    Chat = chat
    OtherChat = other
    Chats <- MCChats
    Limit = 2
    MaxId = 4
    MaxTime = 2
INVARIANTS HistoryTypeOK PagesGoBack NothingIsSkipped
CHECK_DEADLOCK FALSE
