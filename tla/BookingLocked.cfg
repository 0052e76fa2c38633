SPECIFICATION Spec
CONSTANTS
  new = new
  mod = mod
  cancel = cancel
  Emails = {new, mod, cancel}
  NoEmail = NoEmail
  Parsed <- ParsedChange
  Value <- Values
  None = None
  Unset = Unset
  Slots <- TwoSlots
  StartTime <- SlotTime
  LinkedActivity = "cruise"
  LinkedSlot = "s9"
  Editors = {u1}
  EditValues <- TypedCount
  Maintenance = FALSE
  Serial = FALSE
INVARIANTS
  TypeOK
  ManualValuesKept
  CancellationHolds
  ActiveCountIsProviders
  ConflictsSurfaced
