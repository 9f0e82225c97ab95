SPECIFICATION FairSpec
CONSTANTS
  Size = 4
  Wrap = 8
  Batch = 2
  Values = {v1, v2}
  Unwritten = Unwritten
INVARIANTS IndexInv ReadsPublished
PROPERTIES StableEntries ImplementsChannel ConsumerNeverStuck ProducerNeverStuck
