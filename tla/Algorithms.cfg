SPECIFICATION Spec
CONSTANTS
  LongBits = 8
  WordBits = 8
  Addresses <- MCAddresses
  Buffers = {0, 1, 2, 3, 4, 5, 7, 9, 12, 16}
  Formats <- MCFormats
  Dumps <- MCDumps
  Files <- MCFiles
  Bases = {0, 2}
INVARIANTS
  TruncatesText
  NumbersReadBack
  DumpReadsBack
  ImageExact
