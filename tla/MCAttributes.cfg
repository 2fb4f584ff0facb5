\* Every register; of the twelve modes packed in the analog input registers the
\* ones at the ends of each field.
\* A behaviour about read-only registers has no step.
CONSTANTS
  Groups <- MCGroups
  Contents <- MCContents
  Unexpected <- MCUnexpected
  Stored <- MCStored
  Firmware = {TRUE, FALSE}
  MaxOpen = 2
SPECIFICATION Spec
INVARIANTS TypeOK ShownAsStored
CHECK_DEADLOCK FALSE
