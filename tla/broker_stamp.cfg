\* Two one-shot brokers of versions 1 and 2 and one resident broker of version 1 on one file.
SPECIFICATION Spec
CONSTANTS
  Brokers = {"old", "new", "daemon"}
  Resident = {"daemon"}
  Version <- MCVersion
  Columns = {"lease_id", "billable_reason"}
  Created = {"lease_id"}
  Absent = Absent
  MaxRows = 2
PROPERTIES NeverDowngraded
CHECK_DEADLOCK FALSE
