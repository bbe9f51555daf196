SPECIFICATION PipelineSpec
CONSTANTS
  Names = {"a", "b"}
  Frames <- MCFrames
  Rooms = {r1}
  Capacity = 1
  MaxEvents = 3
  NextWeek = 3
  Queries = {{"latest"}, {"week"}}
  MaxOffered = 4
  Nobody = Nobody
  Uids = {u1, Nobody}
  Seconds = {1, 2}
  Texts = {1, 2}
  Mute = Mute
  SuperChats = {1, 2, Mute}
  Traffic = {{}, {"LIVE", "PREPARING"}, {"DANMU_MSG"}, {"SUPER_CHAT_MESSAGE"}}
INVARIANTS Unpacks ExactHistory StaleOnlyByRace NothingUncounted CountedOnce
PROPERTIES ImplementsRecords ChannelDrains
CHECK_DEADLOCK FALSE
