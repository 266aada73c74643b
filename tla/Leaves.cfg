SPECIFICATION LeavesSpec
CONSTANTS
  Quirks <- MCQuirks
INVARIANTS ReadSound UpdateExact AddressesAgree PinsReturned
