SPECIFICATION Spec
CONSTANTS
  N = 4
  ContactsOf <- MCContactsOf
  Contact = {"c", "d"}
  Capacity = 2
  Workers = 2
INVARIANTS
  DetailsStored
  ContactsLatest
PROPERTY
  DetailsReturn
CHECK_DEADLOCK FALSE
