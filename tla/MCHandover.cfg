\* Ring of 4, two-word advisories, one reader, enough publications to lap
\* both attempts of a call; and two slots, two item values, six items: three
\* laps of the ring.
SPECIFICATION MCSpec
CONSTANTS
  Ring = 4
  MaxReadRetries = 2
  Words = {w1, w2}
  Readers = {r1}
  MaxGeneration = 10
  Items = {a, b}
  Capacity = 2
  MaxItems = 6
INVARIANTS NoTornRead NoSlotRace
PROPERTIES ReadTerminates ImplementsLatestAdvisory ImplementsFifo EveryPushSucceeds
