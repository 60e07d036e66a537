SPECIFICATION CampaignSpec
CONSTANTS
  MaxKills = 3
  Keys <- MCKeys
  Kinds = {"NONE", "EXPECTED", "INPUT"}
  None = None
  Nothing = Nothing
  Absent = Absent
  Cases = {"idb_01_before_transaction", "idb_02_during_sequence_allocation",
           "idb_03_during_row_put", "idb_04_after_commit",
           "send_01_after_send_before_backend_begin",
           "ack_01_before_extension_ack_transaction",
           "ack_02_during_extension_ack_transaction",
           "ack_03_after_extension_ack_transaction",
           "ack_04_before_backend_confirmation_commit",
           "ack_05_after_backend_confirmation_commit", "ack_06_duplicate_identical"}
CHECK_DEADLOCK FALSE
INVARIANTS NoFalseAlarm CrashIsAtomic PassWasACrash DestructionAccounted
PROPERTIES OnlyUnderConsumedPlan Resumes CampaignsEnd
