SPECIFICATION Spec
CONSTANTS
  new = new
  mod = mod
  cancel = cancel
  Emails = {new, cancel}
  NoEmail = NoEmail
  Parsed <- ParsedMail
  Value <- Values
  None = None
  Unset = Unset
  Slots <- TwoSlots
  StartTime <- SlotTime
  LinkedActivity = "cruise"
  LinkedSlot = "s9"
  Editors = {u1, u2}
  EditValues <- TypedSlot
  Maintenance = TRUE
  Serial = TRUE
PROPERTIES
  CancelledUntilEdited
